------------------------------- MODULE Letters -------------------------------
(* Names in lower case.                                                      *)
CONSTANT LowerCase  \* function from the names with capitals to what they are without

Small(name) == IF name \in DOMAIN LowerCase THEN LowerCase[name] ELSE name
=============================================================================
