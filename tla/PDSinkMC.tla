------------------------------ MODULE PDSinkMC ------------------------------
(* Small instances of PDSink for TLC: sources with a second fixed supply,  *)
(* a programmable one, and objects that are skipped or cannot be requested. *)
EXTENDS PDSink

Pdo(type, min, max, current) == [type |-> type, max |-> max, min |-> min, current |-> current]

Fixed9V == Pdo("fixed", 180, 0, 200)           \* 9 V, 2 A
Pps11V == Pdo("pps", 33, 110, 60)              \* 3.3 to 11 V, 3 A
Adjustable == Pdo("other", 90, 200, 30)
Variable9V == Pdo("variable", 160, 200, 100)   \* 8 to 10 V

TwoSources == {<<Vsafe5V, Fixed9V, Pps11V>>, <<Vsafe5V, Adjustable, Pps11V>>}

(* 9 V at 2 A or, where it is programmable, 3 A; a supply between units.   *)
SomeWishes == {[voltage |-> 9000, current |-> 0], [voltage |-> 7011, current |-> 2480]}

TwoPreferences == {<<9000, 5000>>}
=============================================================================
