------------------------------ MODULE MCConsole ------------------------------
(* The console's four parts.  They share no state: each behaviour runs one,  *)
(* and of the input, whose two hooks share no more than enabled, one hook.   *)
EXTENDS ConsoleLink, ConsoleStatus, ConsoleInput, ConsoleVideo

VARIABLE part

vars == <<part, linkVars, statusVars, inputVars, videoVars>>

Init ==
    /\ part \in {"link", "status", "keyboard", "mouse", "video"}
    /\ LinkInit /\ StatusInit /\ InputInit /\ VideoInit

LinkStep == part = "link" /\ LinkNext /\ UNCHANGED <<part, statusVars, inputVars, videoVars>>

StatusStep == part = "status" /\ StatusNext /\ UNCHANGED <<part, linkVars, inputVars, videoVars>>

InputStep ==
    /\ \/ part = "keyboard" /\ InputNext /\ UNCHANGED mouseVars
       \/ part = "mouse" /\ InputNext /\ UNCHANGED keyboardVars
    /\ UNCHANGED <<part, linkVars, statusVars, videoVars>>

VideoStep == part = "video" /\ VideoNext /\ UNCHANGED <<part, linkVars, statusVars, inputVars>>

Next == LinkStep \/ StatusStep \/ InputStep \/ VideoStep

Spec == Init /\ [][Next]_vars /\ LinkFairness

(* Every variable of the four parts has its type. *)
TypeOK == LinkTypeOK /\ StatusTypeOK /\ InputTypeOK /\ VideoTypeOK
=============================================================================
