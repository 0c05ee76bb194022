-------------------------------- MODULE Roles --------------------------------
(***************************************************************************)
(* Role templates: edited in place, activated as a new version with a      *)
(* snapshot of its permissions, rolled back by activating the snapshot     *)
(* before the last one again, assigned to users and deleted.               *)
(*                                                                         *)
(* Every request reads the template without a lock and commits in a later  *)
(* step; a column is written only if it differs from what was read.        *)
(* (template, version) is unique among the snapshots, and a deleted        *)
(* template takes its snapshots along and leaves its users without one.    *)
(***************************************************************************)
EXTENDS Naturals, FiniteSets

CONSTANTS
    Requests,
    Permissions,  \* lists of permission flags
    Holders,      \* users of the organization
    MaxVersion    \* bound: activations

VARIABLES
    template,   \* role_templates, one row
    snapshots,  \* role_template_versions
    holds,      \* users whose custom_role_id is the template
    job         \* the requests in progress

roleVars == <<template, snapshots, holds, job>>

Snapshot(v, p) == [version |-> v, permissions |-> p]
Idle == [pc |-> "idle", permissions |-> {}, version |-> 0, was |-> {}, user |-> "none"]

TypeOK ==
    /\ template.status \in {"none", "draft", "active"}
    /\ template.version \in 1..MaxVersion
    /\ \A s \in snapshots : s.version \in 2..MaxVersion /\ s.permissions \in Permissions
    /\ holds \subseteq Holders
    /\ \A q \in Requests : job[q].pc \in {"idle", "update", "activate", "history", "rollback",
                                          "assign", "delete"}

Init ==
    /\ \E p \in Permissions : template = [status |-> "draft", permissions |-> p, version |-> 1]
    /\ snapshots = {} /\ holds = {}
    /\ job = [q \in Requests |-> Idle]

-----------------------------------------------------------------------------
Step(q, r) == job' = [job EXCEPT ![q] = r]
Done(q) == Step(q, Idle)
Exists == template.status # "none"

\* _get_role_template
Load(q, pc) ==
    [Idle EXCEPT !.pc = pc, !.permissions = template.permissions,
                 !.was = template.permissions, !.version = template.version]

Read(q, pc) ==
    /\ job[q].pc = "idle" /\ Exists
    /\ Step(q, Load(q, pc))
    /\ UNCHANGED <<template, snapshots, holds>>

\* The column, unless the request sets what it had read.
Written(r) == IF r.permissions = r.was THEN template.permissions ELSE r.permissions

\* update_role_template
UpdateRead(q, p) ==
    /\ job[q].pc = "idle" /\ Exists
    /\ Step(q, [Load(q, "update") EXCEPT !.permissions = p])
    /\ UNCHANGED <<template, snapshots, holds>>

UpdateCommit(q) ==
    /\ job[q].pc = "update"
    /\ template' = IF Exists THEN [template EXCEPT !.permissions = Written(job[q])] ELSE template
    /\ Done(q)
    /\ UNCHANGED <<snapshots, holds>>

\* rollback_role_template: the two newest snapshots, read after the row.
Newest(S) == CHOOSE s \in S : \A o \in S : o.version <= s.version
SecondNewest(S) == Newest({s \in S : s.version < Newest(S).version})

Previous(S) == SecondNewest(S)

RollbackRead(q) ==
    /\ job[q].pc = "history"
    /\ Step(q, IF Cardinality(snapshots) < 2 THEN Idle
               ELSE [job[q] EXCEPT !.pc = "rollback",
                                   !.permissions = Previous(snapshots).permissions])
    /\ UNCHANGED <<template, snapshots, holds>>

\* Mutant: two snapshots may have the same number.
TakenNever(v) == FALSE

\* uq_role_template_versions; a template that is gone takes no snapshot.
Taken(v) == ~Exists \/ \E s \in snapshots : s.version = v

\* activate_role_template, alone or at the end of a rollback.
Activate(q) ==
    LET r == job[q]
        v == r.version + 1
    IN  /\ r.pc \in {"activate", "rollback"} /\ v <= MaxVersion
        /\ IF Taken(v) THEN UNCHANGED <<template, snapshots>>
           ELSE /\ template' = [status |-> "active", version |-> v, permissions |-> Written(r)]
                /\ snapshots' = snapshots \union {Snapshot(v, r.permissions)}
        /\ Done(q)
        /\ UNCHANGED holds

\* assign_custom_role: an active template, or none.
AssignRead(q, u) ==
    /\ job[q].pc = "idle" /\ template.status = "active"
    /\ Step(q, [Idle EXCEPT !.pc = "assign", !.user = u])
    /\ UNCHANGED <<template, snapshots, holds>>

AssignCommit(q) ==
    /\ job[q].pc = "assign"
    /\ holds' = IF Exists THEN holds \union {job[q].user} ELSE holds
    /\ Done(q)
    /\ UNCHANGED <<template, snapshots>>

Unassign(u) ==
    /\ u \in holds /\ holds' = holds \ {u}
    /\ UNCHANGED <<template, snapshots, job>>

\* delete_role_template: nobody holds it now; whoever does at the commit
\* loses it (ON DELETE SET NULL).
DeleteRead(q) ==
    /\ job[q].pc = "idle" /\ Exists /\ holds = {}
    /\ Step(q, [Idle EXCEPT !.pc = "delete"])
    /\ UNCHANGED <<template, snapshots, holds>>

DeleteCommit(q) ==
    /\ job[q].pc = "delete"
    /\ template' = [template EXCEPT !.status = "none"]
    /\ snapshots' = {} /\ holds' = {}
    /\ Done(q)

Next ==
    \/ \E q \in Requests : \/ Read(q, "activate") \/ Read(q, "history")
                           \/ \E p \in Permissions : UpdateRead(q, p)
                           \/ UpdateCommit(q) \/ RollbackRead(q) \/ Activate(q)
                           \/ \E u \in Holders : AssignRead(q, u)
                           \/ AssignCommit(q) \/ DeleteRead(q) \/ DeleteCommit(q)
    \/ \E u \in Holders : Unassign(u)

Spec == Init /\ [][Next]_roleVars

-----------------------------------------------------------------------------
\* A rollback restores the version before the current one, and history is
\* only appended to, whatever edits and activations it races with: a new
\* snapshot has the next number, and the one a rollback adds has the
\* permissions of the snapshot two before it.  rollback_role_template,
\* activate_role_template.
RollbackRestores ==
    [][\A s \in snapshots' \ snapshots :
          /\ \A o \in snapshots : o.version < s.version
          /\ (\E q \in Requests : job[q].pc = "rollback" /\ job'[q].pc = "idle") =>
                \E o \in snapshots : o.version = s.version - 2 /\ o.permissions = s.permissions]_roleVars
=============================================================================
