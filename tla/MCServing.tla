------------------------------- MODULE MCServing ------------------------------
(***************************************************************************)
(* A small instance of each part of Serving for TLC.                       *)
(***************************************************************************)
EXTENDS Serving, TLC

CONSTANTS
    ruleOld, ruleNew, adr, twin, note,  \* memories
    why, relates,                       \* clauses of the task
    acme, globex,                       \* tenants
    ours, other,                        \* projects
    ann, guest                          \* principals
-----------------------------------------------------------------------------
Stands(status0, tier, lower, upper) ==
    [status |-> status0, tier |-> tier, lower |-> lower, upper |-> upper,
     recorded |-> lower]

\* A rule, a decision, a near copy of the decision, an agent's note; and the
\* same project later, the rule and the decision replaced, the note archived.
Now == ruleOld :> Stands("active", 3, 0, NULL) @@ ruleNew :> NULL
       @@ adr :> Stands("active", 3, 0, NULL)
       @@ twin :> Stands("active", 2, 1, NULL)
       @@ note :> Stands("quarantined", 1, 0, NULL)
Later == ruleOld :> Stands("superseded", 3, 0, 2)
         @@ ruleNew :> Stands("active", 3, 2, NULL)
         @@ adr :> Stands("superseded", 3, 0, 2)
         @@ twin :> Stands("active", 2, 2, NULL)
         @@ note :> Stands("archived", 2, 0, 2)

Found == {Now, Later}

Similar == [m \in Known |-> [n \in Known |->
              IF m = n THEN 100 ELSE IF {m, n} = {adr, twin} THEN 95 ELSE 40]]
Keys == ruleOld :> 1 @@ ruleNew :> 1 @@ adr :> 2 @@ twin :> 3 @@ note :> 4
Sections == ruleOld :> "constraints" @@ ruleNew :> "constraints"
            @@ adr :> "decisions" @@ twin :> "recent" @@ note :> "decisions"
Evident == ruleOld :> {"rule"} @@ ruleNew :> {"rule", "queue"}
           @@ adr :> {"queue", "postgres", "Redis"}
           @@ twin :> {"queue", "broker"} @@ note :> {"postgres"}
Scores == ruleOld :> 50 @@ ruleNew :> 50 @@ adr :> 60 @@ twin :> 60 @@ note :> 40
Fused == ruleOld :> 1 @@ ruleNew :> 2 @@ adr :> 3 @@ twin :> 3 @@ note :> 1
Idents == ruleOld :> 1 @@ ruleNew :> 2 @@ adr :> 3 @@ twin :> 4 @@ note :> 5
Crossed == ruleOld :> 0 @@ ruleNew :> 10 @@ adr :> 5 @@ twin :> 5 @@ note :> 20
Costs == [m \in Known |-> 10]
Caps == [s \in {"constraints", "decisions", "recent"} |-> 15]
Meaning == why :> {"queue", "postgres"} @@ relates :> {"broker"}
Cited == why :> {} @@ relates :> {"Redis"}

Asks(op, type, m) == [op |-> op, type |-> type, ref |-> m, evidence |-> note]
Asking == {Asks("retract", "observation", adr), Asks("retract", "observation", twin),
           Asks("assert", "decision", adr), Asks("assert", "observation", adr)}

Ann == [tenant |-> acme, principal |-> ann, project |-> ours, projects |-> {ours}]
Guest == [tenant |-> globex, principal |-> guest, project |-> other,
          projects |-> {other}]

Kept(kind, home, level, key) ==
    [tenant |-> acme, kind |-> kind, project |-> home, owner |-> NULL,
     level |-> level, key |-> key, open |-> TRUE]

Clearance == {[tenant |-> acme, to |-> [kind |-> "user", id |-> ann], level |-> 2]}
Classified == adr :> Kept("project", ours, 1, why) @@ note :> NULL
Callers == {Ann, Guest}
==============================================================================
