----------------------------- MODULE BodyReader -----------------------------
(***************************************************************************)
(* read_body of app/body_reader.py: a response's body is read chunk by     *)
(* chunk, decompressed member by member, and cut at two limits.  HTTPX     *)
(* hands out chunks of one size, the last one shorter.                     *)
(*                                                                         *)
(* A body is a sequence of units of the wire.  Of a compressed one "open"  *)
(* begins a member, "end" ends it, "one" and "many" are data in between,   *)
(* and "junk" is nothing zlib knows; of a plain one each unit is a byte.   *)
(* zlib inflates a chunk in order and stops where its output is full.      *)
(***************************************************************************)
EXTENDS Naturals, FiniteSets, Sequences, SequencesExt

CONSTANTS ByteLimit,  \* the caller's limit
          ChunkSize,  \* 65536, of a chunk and in the limit of the wire
          Many,       \* bytes that "many" becomes
          MaxUnits    \* bound: the body's length

ASSUME BodyReaderAssumption ==
    ByteLimit \in Nat /\ ChunkSize \in Nat \ {0} /\ Many \in Nat /\ MaxUnits \in Nat

VARIABLES
    encoding,  \* Content-Encoding
    wire,      \* the body as it is sent
    breaks,    \* the connection fails before the end
    read,      \* wire_size
    decoder,   \* none, open, in a member, or at its end
    data,      \* len(data)
    verdict    \* reading, or the answer

bodyVars == <<encoding, wire, breaks, read, decoder, data, verdict>>

Units == {"open", "one", "many", "end", "junk"}
Encodings == {"plain", "gzip", "deflate", "unsupported"}
WireLimit == 2 * ByteLimit + ChunkSize

Answer(ends, size) == [ends |-> ends, size |-> size]
Reading == Answer("reading", 0)

BodyInit ==
    /\ encoding \in Encodings
    /\ wire \in BoundedSeq(IF encoding = "plain" THEN {"one"} ELSE Units, MaxUnits)
    /\ encoding = "unsupported" => wire = <<>>
    /\ breaks \in BOOLEAN
    /\ read = 0 /\ decoder = "none" /\ data = 0 /\ verdict = Reading

Compressed == encoding \in {"gzip", "deflate"}

-----------------------------------------------------------------------------
(* One unit into a decoder: its next state, and the bytes that come out.    *)
Inflated(state, unit) ==
    IF state = "open" /\ unit = "open" THEN [state |-> "inside", out |-> 0]
    ELSE IF state = "inside" /\ unit = "one" THEN [state |-> "inside", out |-> 1]
    ELSE IF state = "inside" /\ unit = "many" THEN [state |-> "inside", out |-> Many]
    ELSE IF state = "inside" /\ unit = "end" THEN [state |-> "eof", out |-> 0]
    ELSE [state |-> "error", out |-> 0]

(* A decoder that is at its member's end is replaced, for gzip.             *)
FirstMemberOnly(state) == state
NextMember(state) == IF state = "eof" THEN "open" ELSE state

(* The loop over one chunk: what it does with each unit until it is decided. *)
Feed(so, unit) ==
    IF so.ends # "reading" THEN so
    ELSE IF ~Compressed
    THEN IF so.size + 1 > ByteLimit THEN [so EXCEPT !.ends = "truncated"]
         ELSE [so EXCEPT !.size = @ + 1]
    ELSE IF so.state = "eof" /\ encoding # "gzip" THEN [so EXCEPT !.ends = "error"]
    ELSE LET step == Inflated(NextMember(so.state), unit)
         IN IF step.state = "error" THEN [so EXCEPT !.ends = "error"]
            ELSE IF so.size + step.out > ByteLimit
                 THEN [so EXCEPT !.ends = "truncated", !.size = ByteLimit]
            ELSE [so EXCEPT !.state = step.state, !.size = @ + step.out]

Unread == SubSeq(wire, read + 1, Len(wire))
Beginning(seq, n) == IF Len(seq) <= n THEN seq ELSE SubSeq(seq, 1, n)

(* A chunk that passes the limit of the wire is cut there.                  *)
WholeChunk(chunk) == chunk
WithinWire(chunk) == Beginning(chunk, WireLimit - read)

NextChunk ==
    LET whole == Beginning(Unread, ChunkSize)
        chunk == WithinWire(whole)
        fresh == IF decoder = "none" /\ Compressed THEN "open" ELSE decoder
        so == FoldLeft(Feed, [ends |-> "reading", state |-> fresh, size |-> data], chunk)
    IN /\ verdict = Reading /\ encoding # "unsupported" /\ Unread # <<>>
       /\ read' = read + Len(chunk)
       /\ decoder' = so.state /\ data' = so.size
       /\ verdict' = IF so.ends # "reading" THEN Answer(so.ends, so.size)
                     ELSE IF Len(whole) > Len(chunk) THEN Answer("truncated", so.size)
                     ELSE Reading
       /\ UNCHANGED <<encoding, wire, breaks>>

(* The body has ended, or is not read at all.                               *)
AnyEnd == TRUE
MemberEnded == Compressed => decoder = "eof"

BodyEnds ==
    /\ verdict = Reading /\ encoding # "unsupported" /\ Unread = <<>> /\ ~breaks
    /\ verdict' = IF MemberEnded THEN Answer("complete", data) ELSE Answer("error", data)
    /\ UNCHANGED <<encoding, wire, breaks, read, decoder, data>>

BodyRefused ==
    /\ verdict = Reading
    /\ encoding = "unsupported" \/ breaks
    /\ verdict' = Answer("error", 0)
    /\ UNCHANGED <<encoding, wire, breaks, read, decoder, data>>

BodyNext == NextChunk \/ BodyEnds \/ BodyRefused

BodySpec == BodyInit /\ [][BodyNext]_bodyVars

-----------------------------------------------------------------------------
(* Reference: the wire cut into its members, without chunks or limits.      *)
Ends == {i \in 1..Len(wire) : wire[i] = "end"}
Begins(i) == i = 1 \/ wire[i - 1] = "end"

(* The first n units are of members in the right order.                     *)
Valid(n) ==
    IF ~Compressed THEN TRUE
    ELSE \A i \in 1..n :
           /\ wire[i] # "junk"
           /\ Begins(i) <=> wire[i] = "open"
           /\ encoding = "deflate" => \A e \in Ends : e >= i

Of(unit, n) == Cardinality({i \in 1..n : wire[i] = unit})

Size(n) == IF Compressed THEN Of("one", n) + Many * Of("many", n) ELSE n

BodyTypeOK ==
    /\ encoding \in Encodings /\ read \in 0..Len(wire) /\ breaks \in BOOLEAN
    /\ decoder \in {"none", "open", "inside", "eof"} /\ data \in 0..ByteLimit
    /\ verdict.ends \in {"reading", "complete", "truncated", "error"}

(* However the chunks fall: a complete body is the whole body, its last     *)
(* member ended, and within the limit.  A truncated one is a valid          *)
(* beginning: up to the limit with more to come, or what the limit of the   *)
(* wire lets through.  A body that is complete, valid, of a known encoding  *)
(* and within both limits is never refused or cut.  No more than the limit  *)
(* of the wire is ever fed to zlib.                                         *)
BodyHonest ==
    LET n == Len(wire)
        whole == Valid(n) /\ (Compressed => n > 0 /\ wire[n] = "end")
    IN /\ read <= WireLimit
       /\ verdict.ends = "complete" => whole /\ verdict.size = Size(n)
       /\ verdict.ends = "truncated" =>
            \/ verdict.size = ByteLimit /\ \E i \in 0..n : Valid(i) /\ Size(i) > ByteLimit
            \/ n > WireLimit /\ Valid(WireLimit) /\ verdict.size = Size(WireLimit)
       /\ verdict.ends = "error" =>
            breaks \/ encoding = "unsupported" \/ ~whole
       /\ verdict # Reading /\ whole /\ ~breaks /\ Size(n) <= ByteLimit /\ n <= WireLimit
            /\ encoding # "unsupported" => verdict.ends = "complete"
=============================================================================
