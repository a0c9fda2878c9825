------------------------------- MODULE JetStream -------------------------------
(***************************************************************************)
(* The NATS JetStream stream, as NATSPublisher.publish uses it: a publish  *)
(* carries a message id, and the server answers with the sequence number   *)
(* under which it stored the message.  While the duplicate window          *)
(* (docker-compose.yml: --dupe-window=2m) remembers the id, a second       *)
(* message with it is not stored, and the answer is the sequence number of *)
(* the first.  The server is not part of the repository.                   *)
(*                                                                         *)
(* stream is the sequence of stored messages; a message's sequence number  *)
(* is its position.  dedup maps a message id to the sequence number the    *)
(* window remembers for it, 0 when it remembers none.                      *)
(***************************************************************************)
EXTENDS Naturals, Sequences

IsDuplicate(dedup, m) == dedup[m] # 0

(* The sequence number in the server's answer to a publish with id m.       *)
AckSeq(stream, dedup, m) ==
  IF IsDuplicate(dedup, m) THEN dedup[m] ELSE Len(stream) + 1

StreamAfter(stream, dedup, m, msg) ==
  IF IsDuplicate(dedup, m) THEN stream ELSE Append(stream, msg)

DedupAfter(stream, dedup, m) ==
  IF IsDuplicate(dedup, m) THEN dedup ELSE [dedup EXCEPT ![m] = Len(stream) + 1]

(* The window forgets m.                                                    *)
Forget(dedup, m) == [dedup EXCEPT ![m] = 0]
================================================================================
