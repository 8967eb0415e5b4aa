----------------------------- MODULE FunctionMap -----------------------------
(***************************************************************************)
(* What the function table promises its users, whatever the hash function: *)
(* a map from names to functions in which one step writes one name and a   *)
(* defined function stays defined, and one verdict, which looks at all     *)
(* functions at once.                                                      *)
(***************************************************************************)
CONSTANTS Names, Data    \* a function is a record of Data, with a field defined

VARIABLES
  functions,   \* the functions known so far
  verdict      \* "reading", then "undefined" or "complete"

Init == functions = << >> /\ verdict = "reading"

Write(name) ==
  /\ verdict # "undefined"
  /\ verdict = "complete" => name \in DOMAIN functions
  /\ DOMAIN functions' = DOMAIN functions \union {name}
  /\ functions'[name] \in Data
  /\ name \in DOMAIN functions /\ functions[name].defined => functions'[name].defined
  /\ \A other \in DOMAIN functions \ {name} : functions'[other] = functions[other]
  /\ UNCHANGED verdict

Judge ==
  /\ verdict = "reading"
  /\ verdict' = IF \A name \in DOMAIN functions : functions[name].defined
                THEN "complete" ELSE "undefined"
  /\ UNCHANGED functions

Next == (\E name \in Names : Write(name)) \/ Judge

Spec == Init /\ [][Next]_<<functions, verdict>>
=============================================================================
