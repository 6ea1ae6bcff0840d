---------------------------- MODULE SequentialMC ----------------------------
(* Small instances: five keys, a few elements; names with digits and with  *)
(* separators in them, and one too long for a field.                       *)
EXTENDS Sequential

MCTreeSeeds == {[i \in 1 .. 8 |-> i]}

MCTypedNames == {<<1>>, <<1, Digit(1)>>, <<Digit(2)>>, <<1, Colon, 2>>, <<1, 2, 1>>, <<1, 2>>}
MCPasswordTexts == {<<1>>, <<Colon, 1>>, <<Digit(1)>>}

=============================================================================
