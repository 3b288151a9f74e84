----------------------------- MODULE BodyLimit -----------------------------
(***************************************************************************)
(* BodySizeLimit of app/body_limit.py, before any route: a request's body  *)
(* is read whole or refused.  The client sends its body in pieces, at its  *)
(* own pace, may say beforehand how much it will send, and may go away.    *)
(* The server hands over each piece as a message (receive).                *)
(***************************************************************************)
EXTENDS Naturals

CONSTANTS MaxBytes,    \* max_bytes
          Drainable,   \* DRAIN_BYTES
          Pieces,      \* how long a piece may be
          MaxSent      \* bound: what a client sends at most

ASSUME BodyLimitAssumption ==
    MaxBytes \in Nat /\ Drainable \in Nat /\ Pieces \subseteq Nat /\ MaxSent \in Nat

VARIABLES
    declared,    \* Content-Length: none that can be read, or within the limit, or above
    limitAt,     \* read, drain, app, refused
    buffered,    \* len(body)
    discarded,   \* in _drain
    sent,        \* the client's body so far
    clientAt,    \* sending, finished, gone
    replayed     \* what the application gets: the body's length, then a disconnect

limitVars == <<declared, limitAt, buffered, discarded, sent, clientAt, replayed>>

NotReplayed == [size |-> 0, disconnect |-> FALSE]

DeclaredOver == declared = "above"

LimitInit ==
    /\ declared \in {"none", "within", "above"}
    /\ limitAt = IF DeclaredOver THEN "drain" ELSE "read"
    /\ buffered = 0 /\ discarded = 0 /\ sent = 0
    /\ clientAt = "sending" /\ replayed = NotReplayed

(* One message of the client: its kind, and where that leaves the client.   *)
Piece(size, more) ==
    /\ clientAt = "sending" /\ sent + size <= MaxSent
    /\ sent' = sent + size
    /\ clientAt' = IF more THEN "sending" ELSE "finished"

Disconnects ==
    /\ clientAt' = "gone"
    /\ UNCHANGED sent

TooMuchByOne(size) == size > MaxBytes + 1
TooMuch(size) == size > MaxBytes

(* receive in the reading loop.                                             *)
ReadPiece(size, more) ==
    /\ limitAt = "read" /\ Piece(size, more)
    /\ buffered' = buffered + size
    /\ limitAt' = IF TooMuch(buffered') THEN "drain" ELSE IF more THEN "read" ELSE "app"
    /\ replayed' = IF limitAt' = "app" THEN [size |-> buffered', disconnect |-> FALSE] ELSE replayed
    /\ UNCHANGED <<declared, discarded>>

(* A client that goes leaves what it has sent, and the application learns   *)
(* that it is gone after reading that.                                      *)
ReadDisconnect ==
    /\ limitAt = "read" /\ clientAt # "gone" /\ Disconnects
    /\ limitAt' = "app"
    /\ replayed' = [size |-> buffered, disconnect |-> TRUE]
    /\ UNCHANGED <<declared, buffered, discarded>>

DrainsOn == TRUE
DrainsMore == discarded < Drainable

(* A last piece, or a client that is gone, ends the drain.                  *)
DrainPiece(size, more) ==
    /\ limitAt = "drain" /\ DrainsMore /\ Piece(size, more)
    /\ IF more THEN discarded' = discarded + size /\ UNCHANGED limitAt
       ELSE limitAt' = "refused" /\ UNCHANGED discarded
    /\ UNCHANGED <<declared, buffered, replayed>>

(* Nothing is left to receive but a disconnect: the body was complete.      *)
DrainDisconnect ==
    /\ limitAt = "drain" /\ DrainsMore /\ clientAt # "gone" /\ Disconnects
    /\ limitAt' = "refused"
    /\ UNCHANGED <<declared, buffered, discarded, replayed>>

(* DRAIN_SECONDS are over, or DRAIN_BYTES: the answer goes out regardless.  *)
DrainOver ==
    /\ limitAt = "drain"
    /\ limitAt' = "refused"
    /\ UNCHANGED <<declared, buffered, discarded, sent, clientAt, replayed>>

(* The application asks for more than the body: it is told of the client.   *)
AppReceives ==
    /\ limitAt = "app" /\ ~replayed.disconnect /\ clientAt # "gone"
    /\ Disconnects
    /\ replayed' = [replayed EXCEPT !.disconnect = TRUE]
    /\ UNCHANGED <<declared, limitAt, buffered, discarded>>

LimitNext ==
    \/ \E size \in Pieces, more \in BOOLEAN : ReadPiece(size, more) \/ DrainPiece(size, more)
    \/ ReadDisconnect \/ DrainDisconnect \/ DrainOver \/ AppReceives

LimitSpec == LimitInit /\ [][LimitNext]_limitVars

-----------------------------------------------------------------------------
LimitTypeOK ==
    /\ declared \in {"none", "within", "above"}
    /\ limitAt \in {"read", "drain", "app", "refused"}
    /\ {buffered, discarded, sent, replayed.size} \subseteq 0..MaxSent
    /\ clientAt \in {"sending", "finished", "gone"} /\ replayed.disconnect \in BOOLEAN

(* The application sees the body the client sent, byte for byte, and no     *)
(* more than max_bytes of it; one it sees only in part is followed by the   *)
(* disconnect.  A request is refused only for what it declared or sent.     *)
(* What is held is never more than max_bytes and one piece (and not         *)
(* max_bytes alone, see NeverBuffersMore), and of what is refused no more   *)
(* than DRAIN_BYTES and one piece are read.                                 *)
BodyKept ==
    /\ limitAt = "app" =>
         /\ replayed.size = sent /\ sent <= MaxBytes
         /\ clientAt # "sending"
         /\ clientAt = "gone" => replayed.disconnect
    /\ limitAt \in {"drain", "refused"} => DeclaredOver \/ sent > MaxBytes
    /\ \E piece \in Pieces \cup {0} :
         /\ buffered <= MaxBytes + piece
         /\ sent <= buffered + discarded + piece
         /\ discarded < Drainable + piece \/ discarded = 0

(* "Never buffers more than that" (body_limit.py:23), that is, than         *)
(* max_bytes.  It fails: a piece is appended before the length is looked    *)
(* at, and held while the rest is drained.                                  *)
NeverBuffersMore == buffered <= MaxBytes
=============================================================================
