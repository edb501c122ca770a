---------------------------- MODULE ProjectIndex ----------------------------
(***************************************************************************)
(* What the index promises the tools (docs/how-it-works.md, "One call"):   *)
(* a shared map from paths to file identities that is only ever offered to *)
(* a call when the disk justified every entry during that call, and that   *)
(* is withdrawn from a call once another call replaces it.  How the map is *)
(* kept up to date - passes, diffs, revisions, retries - is not said here; *)
(* Publish says it, and implements this module.                            *)
(***************************************************************************)
CONSTANTS Paths, Contents, Procs, Absent, None,
          Identities   \* content -> the identities a file with it may be recorded under

VARIABLES
  disk,     \* path -> content or Absent
  index,    \* path -> identity or None
  window,   \* per call and path: what the disk held since the call began
  phase     \* per process: "closed", "open", or "offered" the current index

vars == <<disk, index, window, phase>>

Justified(entry, S) ==
  \/ entry = None /\ Absent \in S
  \/ \E c \in S \ {Absent} : entry \in Identities[c]

JustifiedFor(q, idx) == \A p \in Paths : Justified(idx[p], window[q][p])

Init ==
  /\ disk \in [Paths -> Contents \cup {Absent}]
  /\ window = [q \in Procs |-> [p \in Paths |-> {}]]
  /\ phase = [q \in Procs |-> "closed"]

Edit(p, c) ==
  /\ disk' = [disk EXCEPT ![p] = c]
  /\ window' = [q \in Procs |-> IF phase[q] = "closed" THEN window[q]
                                ELSE [window[q] EXCEPT ![p] = @ \cup {c}]]
  /\ UNCHANGED <<index, phase>>

Open(q) ==
  /\ phase[q] = "closed"
  /\ phase' = [phase EXCEPT ![q] = "open"]
  /\ window' = [window EXCEPT ![q] = [p \in Paths |-> {disk[p]}]]
  /\ UNCHANGED <<disk, index>>

\* The index is found to be right for this call as it stands.
Offer(q) ==
  /\ phase[q] = "open"
  /\ JustifiedFor(q, index)
  /\ phase' = [phase EXCEPT ![q] = "offered"]
  /\ UNCHANGED <<disk, index, window>>

\* The call replaces the index, which withdraws it from every other call.
Replace(q) ==
  /\ phase[q] = "open"
  /\ JustifiedFor(q, index')
  /\ phase' = [r \in Procs |-> IF r = q THEN "offered"
                               ELSE IF phase[r] = "offered" THEN "open" ELSE phase[r]]
  /\ UNCHANGED <<disk, window>>

Close(q) ==
  /\ phase[q] # "closed"
  /\ phase' = [phase EXCEPT ![q] = "closed"]
  /\ window' = [window EXCEPT ![q] = [p \in Paths |-> {}]]
  /\ UNCHANGED <<disk, index>>

Next == \/ \E p \in Paths, c \in Contents \cup {Absent} : Edit(p, c)
        \/ \E q \in Procs : Open(q) \/ Offer(q) \/ Replace(q) \/ Close(q)

Spec == Init /\ [][Next]_vars
==============================================================================
