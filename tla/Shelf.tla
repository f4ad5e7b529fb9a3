------------------------------- MODULE Shelf -------------------------------
(***************************************************************************)
(* What the catalogue promises about version ids and current versions,     *)
(* whatever requests interleave and whenever the process is killed:        *)
(*   - an id is published once, for one app and platform, and an id that   *)
(*     was withdrawn is never listed again;                                *)
(*   - the current version of an app's platform is one that was published  *)
(*     for that app and platform, listed or not.                           *)
(* That the current version is still listed is not promised.               *)
(***************************************************************************)

VARIABLES
    published,  \* every version ever published: [id, app, plat]
    listed,     \* ids of the versions that have not been withdrawn
    current     \* pointers: [app, plat, id]

shelf == <<published, listed, current>>

Init == published = {} /\ listed = {} /\ current = {}

(* A build is published under an id nobody ever had. *)
Publish ==
    /\ \E v \in published' :
        /\ \A w \in published : w.id # v.id
        /\ published' = published \cup {v}
        /\ listed' = listed \cup {v.id}
    /\ UNCHANGED current

(* Versions disappear, for good. *)
Withdraw ==
    /\ listed' \subseteq listed
    /\ UNCHANGED <<published, current>>

(* One pointer of an app moves to a version published for its platform. *)
Point ==
    /\ \E c \in current' :
        /\ \E v \in published : v.id = c.id /\ v.app = c.app /\ v.plat = c.plat
        /\ current' = {d \in current : d.app # c.app \/ d.plat # c.plat} \cup {c}
    /\ UNCHANGED <<published, listed>>

(* Pointers are cleared, with or without their versions. *)
Unpoint ==
    /\ current' \subseteq current
    /\ listed' \subseteq listed
    /\ UNCHANGED published

Next == Publish \/ Withdraw \/ Point \/ Unpoint

Spec == Init /\ [][Next]_shelf

=============================================================================
