--------------------------- MODULE AnswerContract ---------------------------
(***************************************************************************)
(* What the documents promise about the confidence of /v1/query, whatever  *)
(* route a question takes: an answer is rated by what was consulted before *)
(* it was given.                                                           *)
(*                                                                         *)
(*   rows, norows    a generated SQL statement ran                         *)
(*   failed          no generated statement ran: "reported as such"        *)
(*   found, nothing  documents, code or commits were searched              *)
(*   declared        the interface is in the project's manifest: "high"    *)
(*   observed        static analysis alone has seen it: "medium"           *)
(*   uncovered       the project is marked manifest_missing: "low,         *)
(*                   coverage incomplete"                                  *)
(*   unresolved      no project, interface, or neither, was identified     *)
(*                                                                         *)
(* The grades of the graph are README.md:81, those of the statements and   *)
(* of the search that follows an empty one README.md:117: no rows is not   *)
(* yet an answer, and what the search then finds is "medium".              *)
(***************************************************************************)
EXTENDS FiniteSets

VARIABLES
    evidence,  \* what was consulted so far
    rating     \* confidence of the answer, "none" until it is given

Grades  == {"rows", "norows", "failed", "found", "nothing",
            "declared", "observed", "uncovered", "unresolved"}
Ratings == {"high", "medium", "low"}

\* The evidence a rating must rest on, one of these sets at least.
Supports ==
    [high   |-> {{"rows"}, {"norows", "nothing"}, {"declared"}},
     medium |-> {{"found"}, {"nothing"}, {"observed"}},
     low    |-> {{"failed"}, {"uncovered"}, {"unresolved"}}]

Init == evidence = {} /\ rating = "none"

Consult ==
    /\ rating = "none"
    /\ \E g \in Grades \ evidence : evidence' = evidence \cup {g}
    /\ UNCHANGED rating

Answer ==
    /\ rating = "none"
    /\ \E r \in Ratings :
          /\ \E grades \in Supports[r] : grades \subseteq evidence
          /\ rating' = r
    /\ UNCHANGED evidence

\* The request fails with an error instead of an answer.
Raise ==
    /\ rating = "none"
    /\ rating' = "raised"
    /\ UNCHANGED evidence

Next == Consult \/ Answer \/ Raise

Spec == Init /\ [][Next]_<<evidence, rating>>
=============================================================================
