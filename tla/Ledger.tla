------------------------------- MODULE Ledger -------------------------------
(***************************************************************************)
(* What a reader of the cluster may rely on, whatever the controller does  *)
(* to bring it about: which CRDs are on the shelf of each cluster, what    *)
(* every Bootstrap has on record, and that one clerk at a time makes the   *)
(* entries, each justified by what he looked up in copies that may be old. *)
(* There is no queue here, no upstream, no phase of an attempt and no      *)
(* patch; module Views shows that Reconciler implements this one.          *)
(***************************************************************************)
EXTENDS Naturals

CONSTANTS Versions, Contents, ContentOf, Gone, Bootstraps, CRDNames, Bundle,
          Incomparable

VARIABLES
  shelf,   \* the CRDs of each cluster, and the Bootstrap each is from
  record,  \* of every Bootstrap: whether it is closing, what it has applied
  copy,    \* copies of the local shelf and of the record
  desk     \* whom the clerk works for, and what he has looked up

vars == <<shelf, record, copy, desk>>

Blank == [c \in CRDNames |-> Gone]

Free == [of |-> Gone, entry |-> Gone, shelf |-> Blank]

Init ==
  /\ shelf = [k \in {"local", "remote"} |-> Blank]
  /\ record = [b \in Bootstraps |-> Gone]
  /\ copy = [shelf |-> Blank, record |-> record]
  /\ desk = Free

-----------------------------------------------------------------------------
(* Each line of a copy stays as it is or is brought up to date.            *)
Copied ==
  \E C \in SUBSET CRDNames, B \in SUBSET Bootstraps :
    copy' = [shelf  |-> [c \in CRDNames |-> IF c \in C THEN shelf'["local"][c]
                                                       ELSE copy.shelf[c]],
             record |-> [b \in Bootstraps |-> IF b \in B THEN record'[b]
                                                         ELSE copy.record[b]]]

(* The clerk takes up a Bootstrap, looks at the shelf, or clears his desk. *)
Looked ==
  \/ UNCHANGED desk
  \/ desk' = Free
  \/ \E s \in {Blank, copy.shelf} :
       \/ desk.of # Gone /\ desk' = [desk EXCEPT !.shelf = s]
       \/ \E b \in Bootstraps :
            /\ copy.record[b] # Gone
            /\ desk' = [of |-> b, entry |-> copy.record[b], shelf |-> s]

-----------------------------------------------------------------------------
(* The owners of Bootstraps. *)

Open(b) ==
  /\ record[b] = Gone
  /\ record' = [record EXCEPT ![b] = [closing |-> FALSE, applied |-> Gone]]
  /\ UNCHANGED shelf

Condemn(b) ==
  /\ record[b] # Gone
  /\ ~record[b].closing
  /\ record' = [record EXCEPT ![b] = [closing |-> TRUE, applied |-> record[b].applied]]
  /\ UNCHANGED shelf

Close(b) ==
  /\ record[b] # Gone
  /\ record' = [record EXCEPT ![b] = Gone]
  /\ UNCHANGED shelf

-----------------------------------------------------------------------------
(* The clerk. *)

(* One object of a manifest goes on a shelf, one at a time, for a          *)
(* Bootstrap that was not closing; on the local shelf nothing is put in    *)
(* the place of what the clerk saw there and could not compare it with.    *)
Install(k, c, m) ==
  /\ desk.of # Gone
  /\ ~desk.entry.closing
  /\ c \in Bundle[m]
  /\ k = "local" /\ desk.shelf[c] # Gone
       => <<c, desk.shelf[c].content, m>> \notin Incomparable
  /\ shelf' = [shelf EXCEPT ![k][c] = [content |-> m, by |-> desk.of]]
  /\ UNCHANGED record

(* Only what the clerk saw to be of the closing Bootstrap is taken off.    *)
Remove(c) ==
  /\ desk.of # Gone
  /\ desk.entry.closing
  /\ desk.shelf[c] # Gone
  /\ desk.shelf[c].by = desk.of
  /\ shelf' = [shelf EXCEPT !["local"][c] = Gone]
  /\ UNCHANGED record

(* A record is made of a version later than the one the clerk found, when  *)
(* the whole manifest of that version is on the shelf of one cluster.      *)
Record(v) ==
  LET who == desk.of
  IN  /\ who # Gone
      /\ record[who] # Gone
      /\ desk.entry.applied \in Versions => desk.entry.applied < v
      /\ \E k \in {"local", "remote"} : \A c \in Bundle[ContentOf[v]] :
           shelf[k][c] = [content |-> ContentOf[v], by |-> who]
      /\ record' = [record EXCEPT ![who] = [closing |-> record[who].closing, applied |-> v]]
      /\ UNCHANGED shelf

-----------------------------------------------------------------------------
Entry ==
  \/ \E b \in Bootstraps : Open(b) \/ Condemn(b) \/ Close(b)
  \/ \E v \in Versions : Record(v)
  \/ \E c \in CRDNames : \/ Remove(c)
                         \/ \E k \in {"local", "remote"}, m \in Contents : Install(k, c, m)

Next == /\ Entry \/ UNCHANGED <<shelf, record>>
        /\ Looked
        /\ Copied

Spec == Init /\ [][Next]_vars
=============================================================================
