------------------------------ MODULE Languages ------------------------------
(***************************************************************************)
(* Texts in several languages, read from a configuration:                  *)
(* src/spine/MultiLanguageString, MultiLanguageStringArray,                *)
(* ParameterTranslations and StringTranslations.                           *)
(*                                                                         *)
(* A setting is [is, text, items]: a "string", an "array" (its text a      *)
(* sequence), a "group" of items, each [name, is, text], or "other".       *)
(***************************************************************************)
EXTENDS Integers, Sequences, FiniteSets, SequencesExt, Letters

Thrown_ == [ended |-> "throw", default |-> "", data |-> <<>>]
Made(default, data) == [ended |-> "ok", default |-> default, data |-> data]

\* What items say under their names in lower case; the last of a name counts.
ByName(items) ==
  FoldLeft(LAMBDA data, item : (Small(item.name) :> item.text) @@ data, <<>>, items)

\* A text alone is stored under the default language as it was given, all
\* others and the default language itself in lower case.
MultiLanguageString(default, setting) ==
  CASE setting.is = "string" -> Made(Small(default), default :> setting.text)
    [] setting.is = "group" ->
         IF /\ \A k \in DOMAIN setting.items : setting.items[k].is = "string"
            /\ Small(default) \in DOMAIN ByName(setting.items)
         THEN Made(Small(default), ByName(setting.items)) ELSE Thrown_
    [] OTHER -> Thrown_

\* The default language of an array is not put in lower case.
MultiLanguageStringArray(default, setting) ==
  IF /\ setting.is = "group"
     /\ \A k \in DOMAIN setting.items : setting.items[k].is = "array"
     /\ \A k, m \in DOMAIN setting.items : Len(setting.items[k].text) = Len(setting.items[m].text)
     /\ default \in DOMAIN ByName(setting.items)
  THEN Made(default, ByName(setting.items)) ELSE Thrown_

\* get(): the default language instead, which recurs without end when there
\* is nothing under it.
TextIn(m, language) ==
  CASE Small(language) \in DOMAIN m.data -> [ended |-> "ok", text |-> m.data[Small(language)]]
    [] Small(language) \notin DOMAIN m.data /\ Small(m.default) \in DOMAIN m.data ->
         [ended |-> "ok", text |-> m.data[Small(m.default)]]
    [] OTHER -> [ended |-> "endless", text |-> ""]

---------------------------------------------------------------------------
(* Translations of the values of parameters.  A parameter is [name, is,    *)
(* values] where "list" has values; a value is [value, texts], texts are   *)
(* [language, text, json], the last whether the text is one for JSON.      *)

ReadParameter(p) ==
  IF \/ p.is # "list"
     \/ \E k \in DOMAIN p.values :
          \/ p.values[k].value = {}
          \/ \E m \in DOMAIN p.values[k].texts : ~p.values[k].texts[m].json
  THEN {}
  ELSE {FoldLeft(LAMBDA data, v :
          FoldLeft(LAMBDA d, t :
                     (<<Small(p.name), CHOOSE n \in v.value : TRUE, t.language>> :> t.text) @@ d,
                   data, v.texts),
        <<>>, p.values)}

\* readTranslations(): the parameters of the first of two settings that is
\* there; the default language is set before they are looked at.
ReadTranslations(conf) ==
  LET default == IF conf.language = {} THEN "en" ELSE CHOOSE l \in conf.language : TRUE
      params  == IF conf.parameter_translations # {} THEN CHOOSE p \in conf.parameter_translations : TRUE
                 ELSE IF conf.translations # {} THEN CHOOSE p \in conf.translations : TRUE ELSE <<>>
      read    == [k \in DOMAIN params |-> ReadParameter(params[k])]
  IN IF \E k \in DOMAIN read : read[k] = {} THEN [Thrown_ EXCEPT !.default = default]
     ELSE Made(default, FoldLeft(LAMBDA data, r : (CHOOSE d \in r : TRUE) @@ data, <<>>, read))

\* getTranslation(): a set of at most one text.
Translation(t, name, value, language) ==
  LET key(l) == <<Small(name), value, l>>
  IN CASE key(language) \in DOMAIN t.data -> {t.data[key(language)]}
       [] key(language) \notin DOMAIN t.data /\ key(t.default) \in DOMAIN t.data -> {t.data[key(t.default)]}
       [] OTHER -> {}

---------------------------------------------------------------------------
(* Translations of texts and arrays of texts, in groups that have a name.  *)
(* The default language is always "en".                                    *)

ReadStrings(groups) ==
  LET made(g) ==
        LET setting == [is |-> g.is, text |-> "", items |-> g.items]
        IN IF g.items[1].is = "array" THEN MultiLanguageStringArray("en", setting)
           ELSE MultiLanguageString("en", setting)
      filled == SelectSeq(groups, LAMBDA g : g.items # <<>>)
      of(array) == SelectSeq(filled, LAMBDA g : (g.items[1].is = "array") = array)
      table(array) == FoldLeft(LAMBDA data, g : (Small(g.name) :> made(g).data) @@ data, <<>>, of(array))
  IN IF \/ \E k \in DOMAIN groups : groups[k].is # "group"
        \/ \E k \in DOMAIN filled : made(filled[k]).ended = "throw"
     THEN [ended |-> "throw", strings |-> <<>>, arrays |-> <<>>]
     ELSE [ended |-> "ok", strings |-> table(FALSE), arrays |-> table(TRUE)]

\* getStringTranslation(), getStringArrayTranslation(): the key and the
\* language as they are, and no other language instead.
StringTranslation(table, key, language) ==
  IF key \in DOMAIN table /\ language \in DOMAIN table[key] THEN {table[key][language]} ELSE {}
=============================================================================
