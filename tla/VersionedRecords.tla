-------------------------- MODULE VersionedRecords --------------------------
(***************************************************************************)
(* What cfgit promises of a record, whoever else writes it.  The record    *)
(* has a content and a log of contents.  Anybody may change the content at *)
(* any time.  cfgit does two things, each in one step: it records a        *)
(* content, leaving the record alone, or it publishes one, and it          *)
(* publishes only over a content that is the last of the log (or before    *)
(* there is a log).  What a publication leaves in the record is the        *)
(* content with the fields the record is found by.                         *)
(***************************************************************************)
EXTENDS Naturals, Sequences

CONSTANTS Records, Oids, None,
          Shown  \* the content a record has when one is published

VARIABLES content, log

Init ==
  /\ content \in [Records -> Oids \cup {None}]
  /\ log = [r \in Records |-> <<>>]

Extend(r, x) == log' = [log EXCEPT ![r] = Append(log[r], x)]

Outside(r, x) ==
  /\ content' = [content EXCEPT ![r] = x]
  /\ UNCHANGED log

Record(r, x) == Extend(r, x) /\ UNCHANGED content

Publish(r, x) ==
  /\ content[r] # None
  /\ Len(log[r]) # 0 => content[r] = log[r][Len(log[r])]
  /\ Extend(r, x)
  /\ content' = [content EXCEPT ![r] = Shown[x]]

Next ==
  \E r \in Records :
    \/ \E x \in Oids \cup {None} : Outside(r, x)
    \/ \E x \in Oids : Record(r, x) \/ Publish(r, x)

Spec == Init /\ [][Next]_<<content, log>>
=============================================================================
