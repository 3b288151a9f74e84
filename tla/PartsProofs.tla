---------------------------- MODULE PartsProofs ----------------------------
(***************************************************************************)
(* The parts that keep their state to themselves: what a request passes    *)
(* before its handler runs - the size limit of its body (module BodyLimit) *)
(* and the order of the checks (module Api) - and its crawl: the policy of *)
(* robots.txt (module Robots), and the way from the page to the answer     *)
(* (module Extract) - and how all parts are started and closed (module     *)
(* Lifecycle).                                                             *)
(*                                                                         *)
(* Then the two parts that compute over data: what is counted per minute   *)
(* and read back by stats() (module Metrics), and how a response's body    *)
(* is read (module BodyReader).                                            *)
(***************************************************************************)
EXTENDS BodyLimit, Api, Robots, Extract, Lifecycle, Metrics, BodyReader,
        FiniteSetTheorems, SequenceTheorems, TLAPS

(* What is held and what is dropped are bounded by one piece of the body.   *)
OnePieceOver(piece) ==
    /\ buffered <= MaxBytes + piece
    /\ sent <= buffered + discarded + piece
    /\ discarded < Drainable + piece \/ discarded = 0

(* BodyKept needs what the loops rely on: as long as pieces are read or     *)
(* drained, the counts together are what the client has sent.               *)
LimitInv ==
    /\ buffered \in Nat /\ discarded \in Nat /\ sent \in Nat
    /\ replayed \in [size : Nat, disconnect : BOOLEAN]
    /\ limitAt \in {"read", "drain", "app", "refused"}
    /\ limitAt \in {"read", "drain"} => sent = buffered + discarded
    /\ limitAt = "read" => discarded = 0 /\ sent <= MaxBytes
    /\ BodyKept

-----------------------------------------------------------------------------
(* Two pieces have a longer one.                                            *)
LEMMA LongerPiece ==
  ASSUME NEW p \in Pieces \cup {0}, NEW q \in Pieces \cup {0}
  PROVE  \E longer \in Pieces \cup {0} : longer >= p /\ longer >= q
<1>1. p \in Nat /\ q \in Nat
  BY BodyLimitAssumption
<1>2. CASE p >= q
  BY <1>1, <1>2
<1>3. CASE q >= p
  BY <1>1, <1>3
<1> QED
  BY <1>1, <1>2, <1>3

LEMMA LimitInitInv == LimitInit => LimitInv
<1> SUFFICES ASSUME LimitInit PROVE LimitInv
  OBVIOUS
<1>1. OnePieceOver(0)
  BY BodyLimitAssumption DEF LimitInit, OnePieceOver
<1>2. limitAt = IF DeclaredOver THEN "drain" ELSE "read"
  BY DEF LimitInit
<1> QED
  BY <1>1, <1>2, BodyLimitAssumption DEF LimitInit, LimitInv, BodyKept, OnePieceOver, NotReplayed

(* The reading loop takes a piece.                                          *)
LEMMA ReadPieceKeeps ==
  ASSUME LimitInv, NEW size \in Pieces, NEW more \in BOOLEAN, ReadPiece(size, more)
  PROVE  LimitInv'
<1>1. size \in Nat
  BY BodyLimitAssumption
<1>2. buffered' = buffered + size /\ sent' = sent + size /\ discarded' = discarded
  BY DEF ReadPiece, Piece
<1>3. OnePieceOver(size)'
  BY <1>1, <1>2, BodyLimitAssumption DEF LimitInv, ReadPiece, OnePieceOver
<1>4. CASE sent' > MaxBytes
  <2>1. limitAt' = "drain" /\ replayed' = replayed
    BY <1>1, <1>2, <1>4 DEF ReadPiece, TooMuch, LimitInv
  <2> QED
    BY <1>1, <1>2, <1>3, <1>4, <2>1 DEF LimitInv, ReadPiece, BodyKept, OnePieceOver
<1>5. CASE ~(sent' > MaxBytes)
  <2>1. ~TooMuch(buffered')
    BY <1>1, <1>2, <1>5 DEF ReadPiece, TooMuch, LimitInv
  <2>2. CASE more
    BY <1>1, <1>2, <1>3, <1>5, <2>1, <2>2, BodyLimitAssumption
       DEF LimitInv, ReadPiece, BodyKept, OnePieceOver
  <2>3. CASE ~more
    BY <1>1, <1>2, <1>3, <1>5, <2>1, <2>3, BodyLimitAssumption
       DEF LimitInv, ReadPiece, Piece, BodyKept, OnePieceOver
  <2> QED
    BY <2>2, <2>3
<1> QED
  BY <1>4, <1>5

(* The drain takes a piece: if it is not the last, below DRAIN_BYTES.       *)
LEMMA DrainPieceKeeps ==
  ASSUME LimitInv, NEW size \in Pieces, NEW more \in BOOLEAN, DrainPiece(size, more)
  PROVE  LimitInv'
<1>1. size \in Nat
  BY BodyLimitAssumption
<1>2. PICK piece \in Pieces \cup {0} : OnePieceOver(piece)
  BY DEF LimitInv, BodyKept, OnePieceOver
<1>3. PICK longer \in Pieces \cup {0} : longer >= piece /\ longer >= size
  BY <1>2, LongerPiece
<1>4. piece \in Nat /\ longer \in Nat
  BY BodyLimitAssumption
<1>5. sent' = sent + size /\ buffered' = buffered /\ replayed' = replayed
      /\ declared' = declared /\ limitAt = "drain"
  BY DEF DrainPiece, Piece
<1>6. /\ limitAt' = IF more THEN "drain" ELSE "refused"
      /\ discarded' = IF more THEN discarded + size ELSE discarded
      /\ discarded < Drainable
  BY DEF DrainPiece, DrainsMore
<1>7. OnePieceOver(longer)'
  BY <1>1, <1>2, <1>3, <1>4, <1>5, <1>6, BodyLimitAssumption DEF LimitInv, OnePieceOver
<1>8. DeclaredOver' \/ sent' > MaxBytes
  BY <1>1, <1>5, BodyLimitAssumption DEF LimitInv, BodyKept, DeclaredOver
<1> QED
  BY <1>1, <1>5, <1>6, <1>7, <1>8 DEF LimitInv, BodyKept, OnePieceOver

(* The steps that receive no body: they leave the counts alone.             *)
LEMMA NothingReceivedKeeps ==
  ASSUME LimitInv, ReadDisconnect \/ DrainDisconnect \/ DrainOver \/ AppReceives
  PROVE  LimitInv'
<1>1. UNCHANGED <<declared, buffered, discarded, sent>>
  BY DEF ReadDisconnect, DrainDisconnect, DrainOver, AppReceives, Disconnects
<1>2. CASE ReadDisconnect
  BY <1>1, <1>2 DEF ReadDisconnect, Disconnects, LimitInv, BodyKept
<1>3. CASE DrainDisconnect \/ DrainOver
  BY <1>1, <1>3 DEF DrainDisconnect, DrainOver, LimitInv, BodyKept, DeclaredOver
<1>4. CASE AppReceives
  BY <1>1, <1>4, ZenonT(40) DEF AppReceives, Disconnects, LimitInv, BodyKept
<1> QED
  BY <1>2, <1>3, <1>4

LEMMA LimitStepInv == LimitInv /\ [LimitNext]_limitVars => LimitInv'
<1> SUFFICES ASSUME LimitInv, [LimitNext]_limitVars PROVE LimitInv'
  OBVIOUS
<1>1. CASE UNCHANGED limitVars
  BY <1>1 DEF limitVars, LimitInv, BodyKept, DeclaredOver
<1>2. CASE \E size \in Pieces, more \in BOOLEAN : ReadPiece(size, more) \/ DrainPiece(size, more)
  BY <1>2, ReadPieceKeeps, DrainPieceKeeps
<1>3. CASE ReadDisconnect \/ DrainDisconnect \/ DrainOver \/ AppReceives
  BY <1>3, NothingReceivedKeeps
<1> QED
  BY <1>1, <1>2, <1>3 DEF LimitNext

(* The application sees the whole body or none, with a disconnect if the    *)
(* client is gone, and what is held or drained stays within a piece of its  *)
(* limit, however BodySizeLimit gets the body.                              *)
THEOREM BodyIsKept == LimitSpec => []BodyKept
<1>1. LimitInv => BodyKept
  BY DEF LimitInv
<1> QED
  BY LimitInitInv, LimitStepInv, <1>1, PTL DEF LimitSpec

-----------------------------------------------------------------------------
(* How far a call has come, and what that says of what it has shown.        *)
Begun == {"idle", "body", "auth"}
Shown(c) == callAt[c] \in {"validate", "admit", "options", "work"}
Guarded(c) == keyed /\ route[c] \notin Public

(* What is known of a call at each stage, besides CallsInOrder.             *)
CallKnown(c) ==
    /\ callAt[c] \in Begun => facts[c] = {}
    /\ callAt[c] = "validate" => facts[c] \subseteq {"authorized"}
    /\ callAt[c] = "admit" => facts[c] \subseteq {"authorized", "valid"}
    /\ Shown(c) /\ Guarded(c) => "authorized" \in facts[c]
    /\ callAt[c] \in {"admit", "options"} =>
         /\ "valid" \in facts[c] /\ urls[c] \in Nat
         /\ route[c] \notin {"batch", "submit"} => urls[c] = 1
    /\ callAt[c] = "options" =>
         /\ urls[c] <= UrlsAllowed
         /\ route[c] \in Crawling => "admitted" \in facts[c]
    /\ callAt[c] # "over" => answer[c] = 0

(* CallsInOrder, of one call.                                               *)
CallInOrder(c) ==
    /\ {"admitted", "worked"} \cap facts[c] # {} =>
         /\ Guarded(c) => "authorized" \in facts[c]
         /\ "valid" \in facts[c] /\ urls[c] <= UrlsAllowed
    /\ "worked" \in facts[c] /\ route[c] \in Crawling => "admitted" \in facts[c]
    /\ answer[c] \notin {0, 200, 202} => Explained(c)

CallTypes ==
    /\ route \in [Calls -> Routes] /\ urls \in [Calls -> Int]
    /\ callAt \in [Calls -> DOMAIN After \cup {"idle", "work", "over"}]
    /\ facts \in [Calls -> SUBSET {"authorized", "valid", "admitted", "worked", "store", "undecodable"}]
    /\ answer \in [Calls -> Int]

ApiInv == CallTypes /\ \A c \in Calls : CallKnown(c) /\ CallInOrder(c)

(* The stages a call goes on to.                                            *)
LEMMA NextStage ==
  /\ DOMAIN After = {"body", "auth", "validate", "admit", "options"}
  /\ After["body"] = "auth" /\ After["auth"] = "validate" /\ After["validate"] = "admit"
  /\ After["admit"] = "options" /\ After["options"] = "work"
BY DEF After

(* A step of call c keeps the types and what is known of the other calls,   *)
(* so that only c is left to look at.                                       *)
LEMMA OneCallSteps ==
  ASSUME ApiInv, NEW c \in Calls, CallTypes', UNCHANGED settingVars,
         \A d \in Calls \ {c} : /\ route'[d] = route[d] /\ urls'[d] = urls[d]
                                /\ callAt'[d] = callAt[d] /\ facts'[d] = facts[d]
                                /\ answer'[d] = answer[d],
         CallKnown(c)', CallInOrder(c)'
  PROVE  ApiInv'
<1> SUFFICES ASSUME NEW d \in Calls PROVE (CallKnown(d) /\ CallInOrder(d))'
  BY DEF ApiInv
<1>1. CASE d = c
  BY <1>1
<1>2. CASE d # c
  BY <1>2 DEF ApiInv, CallKnown, CallInOrder, Explained, Shown, Guarded, settingVars
<1> QED
  BY <1>1, <1>2

(* A call that goes on, with facts, and with any number of URLs.            *)
LEMMA PassSteps ==
  ASSUME ApiInv, NEW c \in Calls, callAt[c] \in DOMAIN After,
         NEW fact \in SUBSET {"authorized", "valid", "admitted", "worked"}, Pass(c, fact),
         NEW n \in Int, urls' = [urls EXCEPT ![c] = n], UNCHANGED <<settingVars, route>>,
         CallKnown(c)', CallInOrder(c)'
  PROVE  ApiInv'
<1>1. CallTypes'
  BY NextStage DEF ApiInv, CallTypes, Pass
<1> QED
  BY <1>1, OneCallSteps DEF ApiInv, CallTypes, Pass

(* A call that is refused with an answer its route documents, if it is in   *)
(* the schema.                                                              *)
LEMMA RejectSteps ==
  ASSUME ApiInv, NEW c \in Calls, NEW status \in Int,
         status \in Documented(route[c]) \/ (status = 401 /\ route[c] \notin InSchema),
         Reject(c, status), UNCHANGED <<settingVars, route, urls>>
  PROVE  ApiInv'
<1>1. /\ callAt' = [callAt EXCEPT ![c] = "over"] /\ answer' = [answer EXCEPT ![c] = status]
      /\ facts' = facts
  BY DEF Reject, Answered
<1>2. CallTypes'
  BY <1>1 DEF ApiInv, CallTypes
<1>3. CallKnown(c)'
  BY <1>1 DEF ApiInv, CallTypes, CallKnown, Shown, Begun
<1>4. CallInOrder(c)'
  <2>1. answer'[c] = status /\ route' = route
    BY <1>1 DEF ApiInv, CallTypes
  <2>2. Explained(c)'
    BY <2>1 DEF Explained
  <2> QED
    BY <1>1, <2>2 DEF ApiInv, CallTypes, CallInOrder, Guarded, settingVars
<1> QED
  BY <1>1, <1>2, <1>3, <1>4, OneCallSteps DEF ApiInv, CallTypes

-----------------------------------------------------------------------------
LEMMA ApiInitInv == ApiInit => ApiInv
BY NextStage DEF ApiInit, ApiInv, CallTypes, Routes, Public, CallKnown, CallInOrder, Begun, Shown

LEMMA ArriveKeeps ==
  ASSUME ApiInv, NEW c \in Calls, Arrive(c)
  PROVE  ApiInv'
<1>1. PICK r \in Routes : route' = [route EXCEPT ![c] = r]
  BY DEF Arrive
<1>2. /\ callAt[c] = "idle" /\ answer[c] = 0 /\ callAt' = [callAt EXCEPT ![c] = "body"]
      /\ UNCHANGED <<settingVars, urls, facts, answer>>
  BY DEF Arrive
<1>3. CallTypes'
  BY <1>1, <1>2, NextStage DEF ApiInv, CallTypes
<1>4. facts[c] = {}
  BY <1>2 DEF ApiInv, CallKnown, Begun
<1>5. CallKnown(c)' /\ CallInOrder(c)'
  BY <1>2, <1>4 DEF ApiInv, CallTypes, CallKnown, CallInOrder, Begun, Shown
<1> QED
  BY <1>1, <1>2, <1>3, <1>5, OneCallSteps DEF ApiInv, CallTypes

LEMMA ReadBodyKeeps ==
  ASSUME ApiInv, NEW c \in Calls, ReadBody(c)
  PROVE  ApiInv'
<1>1. callAt[c] = "body" /\ UNCHANGED <<settingVars, route, urls>>
  BY DEF ReadBody
<1>2. CASE Pass(c, {})
  <2>1. facts[c] = {} /\ facts'[c] = {} /\ callAt'[c] = "auth" /\ answer' = answer
    BY <1>1, <1>2, NextStage DEF ApiInv, CallTypes, CallKnown, Begun, Pass
  <2>2. CallKnown(c)' /\ CallInOrder(c)'
    BY <1>1, <2>1 DEF ApiInv, CallTypes, CallKnown, CallInOrder, Begun, Shown
  <2>3. urls' = [urls EXCEPT ![c] = urls[c]] /\ urls[c] \in Int
    BY <1>1 DEF ApiInv, CallTypes
  <2> QED
    BY <1>1, <1>2, <2>2, <2>3, NextStage, PassSteps
<1>3. CASE route[c] \in Crawling /\ (Reject(c, 413) \/ Reject(c, 422))
  <2>1. 413 \in Documented(route[c]) /\ 422 \in Documented(route[c])
    BY <1>3 DEF Documented, Crawling
  <2> QED
    BY <1>1, <1>3, <2>1, RejectSteps
<1>4. CASE Answered(c, 400) /\ facts' = [facts EXCEPT ![c] = @ \cup {"undecodable"}]
  <2>1. /\ callAt' = [callAt EXCEPT ![c] = "over"] /\ answer' = [answer EXCEPT ![c] = 400]
        /\ callAt'[c] = "over" /\ answer'[c] = 400 /\ facts'[c] = facts[c] \cup {"undecodable"}
    BY <1>4 DEF ApiInv, CallTypes, Answered
  <2>2. CallTypes'
    BY <1>1, <1>4, <2>1 DEF ApiInv, CallTypes
  <2>3. CallKnown(c)'
    BY <2>1 DEF CallKnown, Shown, Begun
  <2>4. facts[c] = {}
    BY <1>1 DEF ApiInv, CallKnown, Begun
  <2>5. Explained(c)'
    BY <2>1 DEF Explained
  <2>6. CallInOrder(c)'
    BY <2>1, <2>4, <2>5 DEF CallInOrder
  <2> QED
    BY <1>1, <1>4, <2>1, <2>2, <2>3, <2>6, OneCallSteps DEF ApiInv, CallTypes
<1> QED
  BY <1>2, <1>3, <1>4 DEF ReadBody

LEMMA AuthenticateKeeps ==
  ASSUME ApiInv, NEW c \in Calls, Authenticate(c)
  PROVE  ApiInv'
<1>1. callAt[c] = "auth" /\ UNCHANGED <<settingVars, route, urls>>
  BY DEF Authenticate
<1>2. CASE \/ ~Guarded(c) /\ Pass(c, {})
           \/ Pass(c, {"authorized"})
  <2>1. PICK fact \in {{}, {"authorized"}} : Pass(c, fact) /\ (Guarded(c) => "authorized" \in fact)
    BY <1>2
  <2>2. facts[c] = {} /\ facts'[c] = fact /\ callAt'[c] = "validate" /\ answer' = answer
    BY <1>1, <2>1, NextStage DEF ApiInv, CallTypes, CallKnown, Begun, Pass
  <2>3. CallKnown(c)'
    BY <1>1, <2>1, <2>2 DEF ApiInv, CallTypes, CallKnown, Begun, Shown, Guarded, settingVars
  <2>4. CallInOrder(c)'
    BY <1>1, <2>1, <2>2 DEF ApiInv, CallTypes, CallKnown, CallInOrder
  <2>5. urls' = [urls EXCEPT ![c] = urls[c]] /\ urls[c] \in Int
    BY <1>1 DEF ApiInv, CallTypes
  <2> QED
    BY <1>1, <2>1, <2>3, <2>4, <2>5, NextStage, PassSteps
<1>3. CASE Guarded(c) /\ Reject(c, 401)
  <2>1. 401 \in Documented(route[c]) \/ route[c] \notin InSchema
    BY <1>3 DEF Documented, Guarded, Public, Crawling, Querying, Routes, InSchema, ApiInv, CallTypes
  <2> QED
    BY <1>1, <1>3, <2>1, RejectSteps
<1> QED
  BY <1>2, <1>3 DEF Authenticate, Guarded

LEMMA ValidateKeeps ==
  ASSUME ApiInv, NEW c \in Calls, Validate(c)
  PROVE  ApiInv'
<1>1. callAt[c] = "validate" /\ UNCHANGED <<settingVars, route>>
  BY DEF Validate
<1>2. CASE route[c] \in Crawling \cup {"job", "results"} /\ Reject(c, 422) /\ UNCHANGED urls
  <2>1. 422 \in Documented(route[c])
    BY <1>2 DEF Documented, Crawling
  <2> QED
    BY <1>1, <1>2, <2>1, RejectSteps
<1>3. ASSUME Pass(c, {"valid"}),
             NEW n \in 1..(IF route[c] \in {"batch", "submit"} THEN UrlCeiling ELSE 1),
             urls' = [urls EXCEPT ![c] = n]
      PROVE  ApiInv'
  <2>1. /\ facts[c] \subseteq {"authorized"} /\ facts'[c] = facts[c] \cup {"valid"}
        /\ callAt'[c] = "admit" /\ answer' = answer
    BY <1>1, <1>3, NextStage DEF ApiInv, CallTypes, CallKnown, Pass
  <2>2. n \in Nat /\ urls'[c] = n /\ (route[c] \notin {"batch", "submit"} => n = 1)
    BY <1>3, ApiAssumption DEF ApiInv, CallTypes
  <2>3. Guarded(c) => "authorized" \in facts[c]
    BY <1>1 DEF ApiInv, CallKnown, Shown
  <2>4. CallKnown(c)'
    BY <1>1, <2>1, <2>2, <2>3 DEF ApiInv, CallTypes, CallKnown, Begun, Guarded, settingVars
  <2>5. CallInOrder(c)'
    BY <1>1, <2>1 DEF ApiInv, CallTypes, CallKnown, CallInOrder
  <2>6. n \in Int /\ callAt[c] \in DOMAIN After
        /\ {"valid"} \in SUBSET {"authorized", "valid", "admitted", "worked"}
    BY <1>1, <2>2, NextStage
  <2> QED
    BY <1>1, <1>3, <2>4, <2>5, <2>6, PassSteps
<1> QED
  BY <1>2, <1>3 DEF Validate

LEMMA AdmitCallKeeps ==
  ASSUME ApiInv, NEW c \in Calls, AdmitCall(c)
  PROVE  ApiInv'
<1>1. callAt[c] = "admit" /\ UNCHANGED <<settingVars, route, urls>>
  BY DEF AdmitCall
<1>2. ASSUME NEW fact \in {{}, {"admitted"}}, Pass(c, fact),
             urls[c] <= UrlsAllowed, route[c] \in Crawling => fact = {"admitted"}
      PROVE  ApiInv'
  <2>1. /\ facts[c] \subseteq {"authorized", "valid"} /\ facts'[c] = facts[c] \cup fact
        /\ callAt'[c] = "options" /\ answer' = answer
    BY <1>1, <1>2, NextStage DEF ApiInv, CallTypes, CallKnown, Pass
  <2>2. /\ "valid" \in facts[c] /\ urls[c] \in Nat
        /\ route[c] \notin {"batch", "submit"} => urls[c] = 1
        /\ Guarded(c) => "authorized" \in facts[c]
    BY <1>1 DEF ApiInv, CallKnown, Shown
  <2>3. CallKnown(c)'
    BY <1>1, <1>2, <2>1, <2>2 DEF ApiInv, CallTypes, CallKnown, Begun, Guarded, settingVars
  <2>4. CallInOrder(c)'
    BY <1>1, <1>2, <2>1, <2>2 DEF ApiInv, CallTypes, CallKnown, CallInOrder, Guarded, settingVars
  <2>5. urls' = [urls EXCEPT ![c] = urls[c]] /\ urls[c] \in Int
    BY <1>1 DEF ApiInv, CallTypes
  <2> QED
    BY <1>1, <1>2, <2>3, <2>4, <2>5, NextStage, PassSteps
<1>3. CASE route[c] \notin Crawling
  <2>1. urls[c] <= UrlsAllowed
    BY <1>1, <1>3, ApiAssumption DEF ApiInv, CallKnown, Crawling
  <2> QED
    BY <1>2, <1>3, <2>1 DEF AdmitCall
<1>4. CASE route[c] \in Crawling
  <2>1. 422 \in Documented(route[c]) /\ 429 \in Documented(route[c])
    BY <1>4 DEF Documented, Crawling
  <2>2. CASE Reject(c, 422) \/ Reject(c, 429)
    BY <1>1, <2>1, <2>2, RejectSteps
  <2>3. CASE Pass(c, {"admitted"}) /\ ~(urls[c] > UrlsAllowed)
    <3>1. urls[c] <= UrlsAllowed
      BY <1>1, <2>3, ApiAssumption DEF ApiInv, CallKnown
    <3> QED
      BY <1>2, <2>3, <3>1
  <2> QED
    BY <1>4, <2>2, <2>3 DEF AdmitCall
<1> QED
  BY <1>3, <1>4

LEMMA ResolveKeeps ==
  ASSUME ApiInv, NEW c \in Calls, Resolve(c)
  PROVE  ApiInv'
<1>1. callAt[c] = "options" /\ UNCHANGED <<settingVars, route, urls>>
  BY DEF Resolve
<1>2. CASE route[c] \in Crawling /\ Reject(c, 422)
  <2>1. 422 \in Documented(route[c])
    BY <1>2 DEF Documented, Crawling
  <2> QED
    BY <1>1, <1>2, <2>1, RejectSteps
<1>3. CASE route[c] = "submit" /\ Reject(c, 503)
  <2>1. 503 \in Documented(route[c])
    BY <1>3 DEF Documented
  <2> QED
    BY <1>1, <1>3, <2>1, RejectSteps
<1>4. CASE Pass(c, {"worked"})
  <2>1. /\ facts'[c] = facts[c] \cup {"worked"} /\ callAt'[c] = "work" /\ answer' = answer
    BY <1>1, <1>4, NextStage DEF ApiInv, CallTypes, Pass
  <2>2. /\ "valid" \in facts[c] /\ urls[c] <= UrlsAllowed
        /\ route[c] \in Crawling => "admitted" \in facts[c]
        /\ Guarded(c) => "authorized" \in facts[c]
        /\ answer[c] = 0
    BY <1>1 DEF ApiInv, CallKnown, Shown
  <2>3. CallKnown(c)'
    BY <1>1, <2>1, <2>2 DEF ApiInv, CallTypes, CallKnown, Begun, Guarded, settingVars
  <2>4. CallInOrder(c)'
    BY <1>1, <2>1, <2>2 DEF ApiInv, CallTypes, CallInOrder, Guarded, settingVars
  <2>5. urls' = [urls EXCEPT ![c] = urls[c]] /\ urls[c] \in Int
    BY <1>1 DEF ApiInv, CallTypes
  <2> QED
    BY <1>1, <1>4, <2>3, <2>4, <2>5, NextStage, PassSteps
<1> QED
  BY <1>2, <1>3, <1>4 DEF Resolve

-----------------------------------------------------------------------------
(* The work ends with an answer of its route.                               *)
LEMMA OutcomeDocumented ==
  ASSUME NEW r \in Routes, NEW status \in Outcomes(r)
  PROVE  status \in Int /\ (status \in {0, 200, 202} \/ status \in Documented(r))
BY DEF Outcomes, Documented, CrawlErrors, Routes, Public, Crawling, Querying

LEMMA WorkEndsKeeps ==
  ASSUME ApiInv, NEW c \in Calls, WorkEnds(c)
  PROVE  ApiInv'
<1>1. PICK status \in Outcomes(route[c]) : Answered(c, status)
  BY DEF WorkEnds
<1>2. callAt[c] = "work" /\ UNCHANGED <<settingVars, route, urls, facts>>
  BY DEF WorkEnds
<1>3. route[c] \in Routes
  BY DEF ApiInv, CallTypes
<1>4. status \in Int /\ (status \in {0, 200, 202} \/ status \in Documented(route[c]))
  BY <1>3, OutcomeDocumented
<1>5. CallTypes'
  BY <1>1, <1>2, <1>4 DEF ApiInv, CallTypes, Answered
<1>6. callAt'[c] = "over" /\ answer'[c] = status
  BY <1>1 DEF ApiInv, CallTypes, Answered
<1>7. CallKnown(c)'
  BY <1>6 DEF CallKnown, Shown, Begun
<1>8. CallInOrder(c)'
  <2>1. answer'[c] \notin {0, 200, 202} => Explained(c)'
    BY <1>2, <1>4, <1>6 DEF Explained
  <2> QED
    BY <1>2, <2>1 DEF ApiInv, CallInOrder, Guarded, settingVars
<1> QED
  BY <1>1, <1>2, <1>5, <1>7, <1>8, OneCallSteps DEF ApiInv, CallTypes, Answered

LEMMA StoreFailsKeeps ==
  ASSUME ApiInv, NEW c \in Calls, StoreFails(c)
  PROVE  ApiInv'
<1>1. /\ Answered(c, 500) /\ facts' = [facts EXCEPT ![c] = @ \cup {"store"}]
      /\ UNCHANGED <<settingVars, route, urls>>
  BY DEF StoreFails
<1>2. CallTypes'
  BY <1>1 DEF ApiInv, CallTypes, Answered
<1>3. callAt'[c] = "over" /\ answer'[c] = 500 /\ facts'[c] = facts[c] \cup {"store"}
  BY <1>1 DEF ApiInv, CallTypes, Answered
<1>4. CallKnown(c)'
  BY <1>3 DEF CallKnown, Shown, Begun
<1>5. CallInOrder(c)'
  <2>1. Explained(c)'
    BY <1>3 DEF Explained
  <2> QED
    BY <1>1, <1>3, <2>1 DEF ApiInv, CallTypes, CallInOrder, Guarded, settingVars
<1> QED
  BY <1>1, <1>2, <1>4, <1>5, OneCallSteps DEF ApiInv, CallTypes, Answered

(* Jobs that end, the refill and the stop concern no call's own state.      *)
LEMMA OthersKeep ==
  ASSUME ApiInv, UNCHANGED <<settingVars, route, callAt, urls, facts, answer>>
  PROVE  ApiInv'
BY DEF ApiInv, CallTypes, CallKnown, CallInOrder, Explained, Shown, Guarded, settingVars

LEMMA ApiStepInv == ApiInv /\ [ApiNext]_apiVars => ApiInv'
<1> SUFFICES ASSUME ApiInv, [ApiNext]_apiVars PROVE ApiInv'
  OBVIOUS
<1>1. CASE UNCHANGED apiVars
  BY <1>1, OthersKeep DEF apiVars, settingVars
<1>2. ASSUME NEW c \in Calls, \/ Arrive(c) \/ ReadBody(c) \/ Authenticate(c) \/ Validate(c)
                             \/ AdmitCall(c) \/ Resolve(c) \/ WorkEnds(c) \/ StoreFails(c)
      PROVE  ApiInv'
  BY <1>2, ArriveKeeps, ReadBodyKeeps, AuthenticateKeeps, ValidateKeeps, AdmitCallKeeps,
     ResolveKeeps, WorkEndsKeeps, StoreFailsKeeps
<1>3. CASE JobEnds \/ Refill \/ Stops
  BY <1>3, OthersKeep DEF JobEnds, Refill, Stops
<1> QED
  BY <1>1, <1>2, <1>3 DEF ApiNext

(* No work is begun and no token taken for a call that has not shown the    *)
(* key, valid fields and an allowed number of URLs, and every answer is one *)
(* that the call's route documents, unless a store failed, its body could   *)
(* not be decoded or the route is in no schema.                             *)
THEOREM CallsGoInOrder == ApiSpec => []CallsInOrder
<1>1. ApiInv => CallsInOrder
  BY DEF ApiInv, CallsInOrder, CallInOrder, Guarded
<1> QED
  BY ApiInitInv, ApiStepInv, <1>1, PTL DEF ApiSpec
-----------------------------------------------------------------------------
(* robots.txt: what the cache holds, and what a request has found, is of    *)
(* the right transport and as old as its account says.                      *)
Lasts(r) == r.seen + StoreDelay + KeepFor(r)
Own(r, k) == r \in Rules /\ r.over = k

EntryFresh(k) ==
    cached[k] = NoEntry \/ (Own(cached[k].rules, k) /\ cached[k].expire <= Lasts(cached[k].rules))
VisitFresh(v) ==
    /\ visitAt[v] \in {"store", "orphan"} =>
         /\ Own(rules[v], Transport[v])
         /\ since[v] = rules[v].seen /\ robotsTime <= since[v] + StoreDelay
    /\ v \in Decided => Own(rules[v], Transport[v]) /\ since[v] <= Lasts(rules[v])

RobotsInv ==
    /\ RobotsTypeOK
    /\ \A k \in CacheKeys : EntryFresh(k)
    /\ \A v \in Visits : VisitFresh(v)

LEMMA RulesLast == \A r \in Rules : /\ r.seen \in Nat /\ Lasts(r) \in Nat /\ KeepFor(r) \in Nat
                                    /\ Lasts(r) = r.seen + StoreDelay + KeepFor(r)
  BY RobotsAssumption DEF Rules, Lasts, KeepFor

(* A step that moves one visit at most.                                     *)
LEMMA VisitSteps ==
  ASSUME RobotsInv, NEW v \in Visits, UNCHANGED <<robotsTime, cached>>, RobotsTypeOK',
         \A w \in Visits : w # v => UNCHANGED <<visitAt[w], since[w], rules[w]>>, VisitFresh(v)'
  PROVE  RobotsInv'
<1>1. \A w \in Visits : w # v => VisitFresh(w)'
  BY DEF RobotsInv, VisitFresh, Decided
<1> QED
  BY <1>1 DEF RobotsInv, EntryFresh, CacheKeys, Transports

(* A visit that has found its rules.                                        *)
LEMMA DecidesFresh ==
  ASSUME RobotsInv, NEW v \in Visits, NEW r, Own(r, Transport[v]), robotsTime <= Lasts(r),
         Decides(v, r)
  PROVE  VisitFresh(v)' /\ \A w \in Visits : w # v => UNCHANGED <<visitAt[w], since[w], rules[w]>>
<1>1. /\ rules' = [rules EXCEPT ![v] = r] /\ since' = [since EXCEPT ![v] = robotsTime]
      /\ \E place \in {"allowed", "disallowed"} : visitAt' = [visitAt EXCEPT ![v] = place]
  BY DEF Decides, VisitMoves
<1> QED
  BY <1>1 DEF RobotsInv, RobotsTypeOK, VisitFresh, Decided, Own, Lasts, KeepFor

(* The types after a step of one visit.                                     *)
VisitGoes(v, place, time, r) ==
    /\ place \in {"new", "look", "fetch", "store", "orphan", "allowed", "disallowed", "failed"}
    /\ time \in Nat /\ r \in Rules \cup {NoRules}
    /\ visitAt' = [visitAt EXCEPT ![v] = place] /\ since' = [since EXCEPT ![v] = time]
    /\ rules' = [rules EXCEPT ![v] = r] /\ UNCHANGED <<robotsTime, cached>>

LEMMA VisitTypes ==
  ASSUME RobotsInv, NEW v \in Visits, NEW place, NEW time, NEW r, VisitGoes(v, place, time, r)
  PROVE  /\ RobotsTypeOK'
         /\ visitAt'[v] = place /\ since'[v] = time /\ rules'[v] = r
         /\ \A w \in Visits : w # v => UNCHANGED <<visitAt[w], since[w], rules[w]>>
<1>1. /\ visitAt \in [Visits -> {"new", "look", "fetch", "store", "orphan",
                                 "allowed", "disallowed", "failed"}]
      /\ since \in [Visits -> Nat] /\ rules \in [Visits -> Rules \cup {NoRules}]
  BY DEF RobotsInv, RobotsTypeOK
<1>2. visitAt' \in [Visits -> {"new", "look", "fetch", "store", "orphan",
                               "allowed", "disallowed", "failed"}]
  BY <1>1 DEF VisitGoes
<1>3. since' \in [Visits -> Nat] /\ rules' \in [Visits -> Rules \cup {NoRules}]
  BY <1>1 DEF VisitGoes
<1>4. RobotsTypeOK'
  BY <1>2, <1>3 DEF VisitGoes, RobotsInv, RobotsTypeOK, CacheKeys, Transports, Rules, Found
<1> QED
  BY <1>1, <1>4 DEF VisitGoes

LEMMA RobotsInitInv == RobotsInit => RobotsInv
<1> SUFFICES ASSUME RobotsInit PROVE RobotsInv
  OBVIOUS
<1>1. RobotsTypeOK
  BY DEF RobotsInit, RobotsTypeOK, NoEntry, NoRules
<1>2. \A k \in CacheKeys : EntryFresh(k)
  BY DEF RobotsInit, EntryFresh
<1>3. \A v \in Visits : VisitFresh(v)
  BY DEF RobotsInit, VisitFresh, Decided
<1> QED
  BY <1>1, <1>2, <1>3 DEF RobotsInv

LEMMA AsksKeeps == ASSUME RobotsInv, NEW v \in Visits, AsksRobots(v) PROVE RobotsInv'
<1>1. PICK t \in Nat, r \in Rules \cup {NoRules} : t = robotsTime /\ r = rules[v]
  BY DEF RobotsInv, RobotsTypeOK
<1>2. /\ visitAt' = [visitAt EXCEPT ![v] = "look"] /\ since' = [since EXCEPT ![v] = t]
      /\ rules' = [rules EXCEPT ![v] = r] /\ UNCHANGED <<robotsTime, cached>>
  BY <1>1 DEF AsksRobots, VisitMoves, RobotsInv, RobotsTypeOK
<1>3. /\ RobotsTypeOK' /\ visitAt'[v] = "look"
      /\ \A w \in Visits : w # v => UNCHANGED <<visitAt[w], since[w], rules[w]>>
  BY <1>2, VisitTypes DEF VisitGoes
<1>4. VisitFresh(v)'
  BY <1>3 DEF VisitFresh, Decided
<1> QED
  BY <1>2, <1>3, <1>4, VisitSteps

LEMMA EntryReadKeeps == ASSUME RobotsInv, NEW v \in Visits, EntryRead(v) PROVE RobotsInv'
<1> DEFINE entry == cached[Transport[v]]
<1>1. UNCHANGED <<robotsTime, cached>> /\ Transport[v] \in CacheKeys
  BY DEF EntryRead, CacheKeys, Transports
<1>2. robotsTime \in Nat /\ entry \in [rules : Rules \cup {NoRules}, expire : Nat]
  BY <1>1 DEF RobotsInv, RobotsTypeOK
<1>3. CASE robotsTime < entry.expire
  <2>1. PICK r \in Rules : r = entry.rules /\ Own(r, Transport[v]) /\ robotsTime <= Lasts(r)
    <3>1. entry # NoEntry
      BY <1>2, <1>3 DEF NoEntry
    <3>2. Own(entry.rules, Transport[v]) /\ entry.expire <= Lasts(entry.rules)
      BY <1>1, <3>1 DEF RobotsInv, EntryFresh
    <3>3. entry.rules \in Rules
      BY <3>2 DEF Own
    <3> QED
      BY <1>2, <1>3, <3>2, <3>3, RulesLast
  <2>2. Decides(v, r)
    BY <1>3, <2>1 DEF EntryRead, CacheKey
  <2>3. PICK place \in {"allowed", "disallowed"} :
            /\ visitAt' = [visitAt EXCEPT ![v] = place] /\ since' = [since EXCEPT ![v] = robotsTime]
            /\ rules' = [rules EXCEPT ![v] = r]
    BY <2>2 DEF Decides, VisitMoves
  <2>4. RobotsTypeOK'
    BY <1>1, <1>2, <2>1, <2>3, VisitTypes DEF VisitGoes
  <2> QED
    BY <1>1, <2>1, <2>2, <2>4, DecidesFresh, VisitSteps
<1>4. CASE ~(robotsTime < entry.expire)
  <2>1. PICK t \in Nat, r \in Rules \cup {NoRules} : t = robotsTime /\ r = rules[v]
    BY DEF RobotsInv, RobotsTypeOK
  <2>2. /\ visitAt' = [visitAt EXCEPT ![v] = "fetch"] /\ since' = [since EXCEPT ![v] = t]
        /\ rules' = [rules EXCEPT ![v] = r]
    BY <1>4, <2>1 DEF EntryRead, CacheKey, VisitMoves, RobotsInv, RobotsTypeOK
  <2>3. /\ RobotsTypeOK' /\ visitAt'[v] = "fetch"
        /\ \A w \in Visits : w # v => UNCHANGED <<visitAt[w], since[w], rules[w]>>
    BY <1>1, <2>2, VisitTypes DEF VisitGoes
  <2>4. VisitFresh(v)'
    BY <2>3 DEF VisitFresh, Decided
  <2> QED
    BY <1>1, <2>3, <2>4, VisitSteps
<1> QED
  BY <1>3, <1>4

LEMMA FetchEndsKeeps ==
  ASSUME RobotsInv, NEW v \in Visits, NEW found \in Found, FetchEndsWith(v, found)
  PROVE  RobotsInv'
<1>1. PICK t \in Nat : t = robotsTime
  BY DEF RobotsInv, RobotsTypeOK
<1>2. PICK r \in Rules : r.over = Transport[v] /\ r.seen = t
                         /\ rules' = [rules EXCEPT ![v] = r]
  <2>1. [found |-> found, over |-> Transport[v], seen |-> t] \in Rules
    BY DEF Rules, Transports
  <2> QED
    BY <1>1, <2>1 DEF FetchEndsWith
<1>3. /\ visitAt' = [visitAt EXCEPT ![v] = "store"] /\ since' = [since EXCEPT ![v] = t]
      /\ UNCHANGED <<robotsTime, cached>>
  BY <1>1 DEF FetchEndsWith, VisitMoves
<1>4. /\ RobotsTypeOK' /\ visitAt'[v] = "store" /\ since'[v] = t /\ rules'[v] = r
      /\ \A w \in Visits : w # v => UNCHANGED <<visitAt[w], since[w], rules[w]>>
  <2>1. VisitGoes(v, "store", t, r)
    BY <1>2, <1>3 DEF VisitGoes
  <2> QED
    BY <2>1, VisitTypes
<1>5. VisitFresh(v)'
  BY <1>1, <1>2, <1>3, <1>4, RobotsAssumption DEF VisitFresh, Decided, Own
<1> QED
  BY <1>3, <1>4, <1>5, VisitSteps

(* A visit that ends without rules, or leaves its store behind.             *)
LEMMA StruckKeeps ==
  ASSUME RobotsInv, NEW v \in Visits, FetchFails(v) \/ VisitStruck(v)
  PROVE  RobotsInv'
<1>1. UNCHANGED <<robotsTime, cached>>
  BY DEF FetchFails, VisitStruck
<1>2. CASE VisitFails(v)
  <2>1. /\ RobotsTypeOK' /\ visitAt'[v] = "failed"
        /\ \A w \in Visits : w # v => UNCHANGED <<visitAt[w], since[w], rules[w]>>
    BY <1>1, <1>2, VisitTypes DEF VisitGoes, VisitFails
  <2>2. VisitFresh(v)'
    BY <2>1 DEF VisitFresh, Decided
  <2> QED
    BY <1>1, <2>1, <2>2, VisitSteps
<1>3. CASE ~VisitFails(v)
  <2>1. /\ visitAt[v] = "store" /\ visitAt' = [visitAt EXCEPT ![v] = "orphan"]
        /\ UNCHANGED <<since, rules>>
    BY <1>3 DEF FetchFails, VisitStruck
  <2>2. PICK t \in Nat, r \in Rules \cup {NoRules} : t = since[v] /\ r = rules[v]
    BY DEF RobotsInv, RobotsTypeOK
  <2>3. since' = [since EXCEPT ![v] = t] /\ rules' = [rules EXCEPT ![v] = r]
    BY <2>1, <2>2 DEF RobotsInv, RobotsTypeOK
  <2>4. /\ RobotsTypeOK' /\ visitAt'[v] = "orphan"
        /\ \A w \in Visits : w # v => UNCHANGED <<visitAt[w], since[w], rules[w]>>
    <3>1. VisitGoes(v, "orphan", t, r)
      BY <1>1, <2>1, <2>3 DEF VisitGoes
    <3> QED
      BY <3>1, VisitTypes
  <2>5. VisitFresh(v)
    BY DEF RobotsInv
  <2>6. VisitFresh(v)'
    BY <1>1, <2>1, <2>4, <2>5 DEF VisitFresh, Decided, Own
  <2> QED
    BY <1>1, <2>4, <2>6, VisitSteps
<1> QED
  BY <1>2, <1>3

LEMMA EntryWrittenKeeps == ASSUME RobotsInv, NEW v \in Visits, EntryWritten(v) PROVE RobotsInv'
<1>1. /\ UNCHANGED robotsTime /\ visitAt[v] \in {"store", "orphan"}
      /\ robotsTime \in Nat /\ Transport[v] \in CacheKeys
  BY DEF EntryWritten, RobotsInv, RobotsTypeOK, CacheKeys, Transports
<1>2. PICK r \in Rules : r = rules[v] /\ Own(r, Transport[v]) /\ robotsTime <= r.seen + StoreDelay
  BY <1>1 DEF RobotsInv, VisitFresh, Own
<1>3. /\ r.seen \in Nat /\ StoreDelay \in Nat /\ KeepFor(r) \in Nat
      /\ Lasts(r) = r.seen + StoreDelay + KeepFor(r)
  BY RulesLast, RobotsAssumption
<1>4. robotsTime <= Lasts(r) /\ robotsTime + KeepFor(r) <= Lasts(r) /\ robotsTime + KeepFor(r) \in Nat
  BY <1>1, <1>2, <1>3
<1>5. cached' = [cached EXCEPT ![Transport[v]] = [rules |-> r, expire |-> robotsTime + KeepFor(r)]]
  BY <1>2 DEF EntryWritten, CacheKey
<1>6. cached' \in [CacheKeys -> [rules : Rules \cup {NoRules}, expire : Nat]]
  BY <1>4, <1>5 DEF RobotsInv, RobotsTypeOK
<1>7. \A k \in CacheKeys : EntryFresh(k)'
  <2>1. ASSUME NEW k \in CacheKeys, k = Transport[v] PROVE EntryFresh(k)'
    <3>1. cached'[k].rules = r /\ cached'[k].expire <= Lasts(r)
      BY <1>4, <1>5, <2>1 DEF RobotsInv, RobotsTypeOK
    <3> QED
      BY <1>2, <2>1, <3>1 DEF EntryFresh, Own, Lasts, KeepFor
  <2>2. ASSUME NEW k \in CacheKeys, k # Transport[v] PROVE EntryFresh(k)'
    <3>1. cached'[k] = cached[k]
      BY <1>5, <2>2 DEF RobotsInv, RobotsTypeOK
    <3> QED
      BY <3>1 DEF EntryFresh, RobotsInv, Own, Lasts, KeepFor
  <2> QED
    BY <2>1, <2>2
<1>8. /\ visitAt' \in [Visits -> {"new", "look", "fetch", "store", "orphan",
                                  "allowed", "disallowed", "failed"}]
      /\ since' \in [Visits -> Nat] /\ rules' \in [Visits -> Rules \cup {NoRules}]
      /\ VisitFresh(v)'
      /\ \A w \in Visits : w # v => UNCHANGED <<visitAt[w], since[w], rules[w]>>
  <2>1. CASE visitAt[v] = "store"
    <3>1. Decides(v, r)
      BY <1>2, <2>1 DEF EntryWritten
    <3>2. PICK place \in {"allowed", "disallowed"} :
              /\ visitAt' = [visitAt EXCEPT ![v] = place]
              /\ since' = [since EXCEPT ![v] = robotsTime] /\ rules' = [rules EXCEPT ![v] = r]
      BY <3>1 DEF Decides, VisitMoves
    <3>3. VisitFresh(v)' /\ \A w \in Visits : w # v => UNCHANGED <<visitAt[w], since[w], rules[w]>>
      BY <1>2, <1>4, <3>1, DecidesFresh
    <3> QED
      BY <1>1, <3>2, <3>3 DEF RobotsInv, RobotsTypeOK
  <2>2. CASE visitAt[v] = "orphan"
    <3>1. VisitFails(v)
      BY <2>2 DEF EntryWritten
    <3>2. /\ visitAt' = [visitAt EXCEPT ![v] = "failed"] /\ since' = [since EXCEPT ![v] = 0]
          /\ rules' = [rules EXCEPT ![v] = NoRules]
      BY <3>1 DEF VisitFails
    <3> QED
      BY <3>2 DEF RobotsInv, RobotsTypeOK, VisitFresh, Decided
  <2> QED
    BY <1>1, <2>1, <2>2
<1>9. \A w \in Visits : VisitFresh(w)'
  BY <1>1, <1>8 DEF RobotsInv, VisitFresh, Decided, Own, Lasts, KeepFor
<1> QED
  BY <1>1, <1>6, <1>7, <1>8, <1>9 DEF RobotsInv, RobotsTypeOK, CacheKeys, Transports, Rules

LEMMA RobotsTimeKeeps == ASSUME RobotsInv, RobotsTimePasses PROVE RobotsInv'
<1>1. robotsTime \in Nat /\ robotsTime' = robotsTime + 1 /\ UNCHANGED <<visitAt, since, rules, cached>>
  BY DEF RobotsTimePasses, RobotsInv, RobotsTypeOK
<1>2. RobotsTypeOK'
  BY <1>1 DEF RobotsInv, RobotsTypeOK, CacheKeys, Transports, Rules
<1>3. \A k \in CacheKeys : EntryFresh(k)'
  BY <1>1 DEF RobotsInv, EntryFresh, Own, Lasts, KeepFor
<1>4. ASSUME NEW v \in Visits PROVE VisitFresh(v)'
  <2>1. visitAt[v] \in {"store", "orphan"} => robotsTime' <= since[v] + StoreDelay
    <3>1. since[v] \in Nat /\ StoreDelay \in Nat
      BY RobotsAssumption DEF RobotsInv, RobotsTypeOK
    <3> QED
      BY <1>1, <3>1 DEF RobotsTimePasses
  <2> QED
    BY <1>1, <2>1 DEF RobotsInv, VisitFresh, Decided, Own, Lasts, KeepFor
<1> QED
  BY <1>2, <1>3, <1>4 DEF RobotsInv, CacheKeys, Transports

LEMMA RobotsStepInv == RobotsInv /\ [RobotsNext]_robotsVars => RobotsInv'
<1> SUFFICES ASSUME RobotsInv, [RobotsNext]_robotsVars PROVE RobotsInv'
  OBVIOUS
<1>1. ASSUME NEW v \in Visits,
             AsksRobots(v) \/ EntryRead(v) \/ FetchFails(v) \/ EntryWritten(v) \/ VisitStruck(v)
      PROVE  RobotsInv'
  BY <1>1, AsksKeeps, EntryReadKeeps, EntryWrittenKeeps, StruckKeeps
<1>2. ASSUME NEW v \in Visits, NEW found \in Found, FetchEndsWith(v, found) PROVE RobotsInv'
  BY <1>2, FetchEndsKeeps
<1>3. CASE RobotsTimePasses
  BY <1>3, RobotsTimeKeeps
<1>4. CASE UNCHANGED robotsVars
  BY <1>4 DEF robotsVars, RobotsInv, RobotsTypeOK, EntryFresh, VisitFresh, Decided, Own, Lasts,
     KeepFor, CacheKeys, Transports, Rules
<1> QED
  BY <1>1, <1>2, <1>3, <1>4 DEF RobotsNext

(* RobotsPolicy.allowed: however requests overlap, fail, and store late, a  *)
(* request goes by rules of its own transport that are not out of date.     *)
THEOREM RobotsAreOwnAndRecent == RobotsSpec => []RobotsAnswersOwnAndRecent
<1>1. RobotsInv => RobotsAnswersOwnAndRecent
  <2> SUFFICES ASSUME RobotsInv, NEW v \in Decided
               PROVE  /\ rules[v].over = Transport[v]
                      /\ since[v] <= rules[v].seen + StoreDelay
                            + (IF rules[v].found = "unreachable" THEN RetrySeconds ELSE KeepSeconds)
    BY DEF RobotsAnswersOwnAndRecent
  <2>1. v \in Visits /\ VisitFresh(v)
    BY DEF Decided, RobotsInv
  <2> QED
    BY <2>1 DEF VisitFresh, Own, Lasts, KeepFor
<1> QED
  BY <1>1, RobotsInitInv, RobotsStepInv, PTL DEF RobotsSpec
-----------------------------------------------------------------------------
(* One extraction: what is known of the page, of the conversion and of the  *)
(* answer at each await it stands at.                                       *)
DocKnown ==
    /\ doc \in Documents
    /\ doc.engine = IF renders = 0 THEN "http" ELSE "selenium"
    /\ doc.shot => options.screenshot
ConvertedKnown ==
    /\ converted \in Conversions
    /\ converted.status = "ok" => converted.look # "none"
Hidden == options.anonymize => converted.extras = FALSE /\ doc.shot = FALSE

ExtractInv ==
    /\ options \in ExtractOptions
    /\ renders \in {0, 1} /\ (renders = 1 => options.mode # "fast")
    /\ extractAt \in {"robots", "fetch", "convert", "render", "anonymize", "answer", "ended"}
    /\ extractAt \in {"robots", "fetch", "render"} => renders = 0
    /\ extractAt = "render" => options.mode = "auto"
    /\ extractAt \in {"convert", "render", "anonymize", "answer"} => DocKnown
    /\ extractAt \in {"anonymize", "answer"} => ConvertedKnown
    /\ extractAt = "answer" => Hidden
    /\ extractAt # "ended" => response = NoResponse
    /\ ExtractHonest

(* An extraction that has not ended has no answer to be honest about.       *)
LEMMA NoAnswerYet ==
  ASSUME response = NoResponse, renders = 1 => options.mode # "fast", renders \in {0, 1}
  PROVE  ExtractHonest
<1>1. response.ends # "answer" /\ response # Revalidated
  BY DEF NoResponse, Revalidated
<1> QED
  BY <1>1 DEF ExtractHonest, ReasonsAgree, AnswerWithinOptions

LEMMA ExtractInitInv == ExtractInit => ExtractInv
<1> SUFFICES ASSUME ExtractInit PROVE ExtractInv
  OBVIOUS
<1>1. /\ renders = 0 /\ response = NoResponse
      /\ extractAt = IF options.robots THEN "robots" ELSE "fetch"
  BY DEF ExtractInit
<1>2. ExtractHonest
  BY <1>1, NoAnswerYet
<1> QED
  BY <1>1, <1>2 DEF ExtractInv, ExtractInit

(* A fetch, a worker or the deadline fails.                                 *)
LEMMA FailedKeeps ==
  ASSUME ExtractInv, ExtractionEnds(Failed)
  PROVE  ExtractInv'
<1>1. /\ extractAt' = "ended" /\ response' = Failed
      /\ UNCHANGED <<options, stale, doc, converted, proposed, renders>>
  BY DEF ExtractionEnds
<1>2. response'.ends # "answer" /\ response' # Revalidated
  BY <1>1 DEF Failed, Revalidated
<1>3. ExtractHonest'
  BY <1>1, <1>2 DEF ExtractInv, ExtractHonest, ReasonsAgree, AnswerWithinOptions
<1> QED
  BY <1>1, <1>3 DEF ExtractInv

LEMMA RobotsAnswerKeeps == ASSUME ExtractInv, RobotsAnswer PROVE ExtractInv'
<1>1. CASE ExtractionEnds(Failed)
  BY <1>1, FailedKeeps
<1>2. CASE ~ExtractionEnds(Failed)
  <2>1. /\ extractAt = "robots" /\ extractAt' = "fetch"
        /\ UNCHANGED <<options, stale, doc, converted, proposed, renders, response>>
    BY <1>2 DEF RobotsAnswer
  <2>2. ExtractHonest'
    BY <2>1, NoAnswerYet DEF ExtractInv, ExtractHonest, ReasonsAgree, AnswerWithinOptions,
       FailureReason, Ok
  <2> QED
    BY <2>1, <2>2 DEF ExtractInv
<1> QED
  BY <1>1, <1>2

LEMMA FetchedKeeps == ASSUME ExtractInv, Fetched PROVE ExtractInv'
<1>1. extractAt = "fetch" /\ renders = 0 /\ response = NoResponse
  BY DEF Fetched, ExtractInv
<1>2. PICK d \in (IF options.mode = "js" THEN BrowserDocuments ELSE HttpDocuments) :
         IF options.mode # "js" /\ Unchanged(d) THEN ExtractionEnds(Revalidated)
         ELSE /\ extractAt' = "convert" /\ doc' = d
              /\ renders' = renders + (IF options.mode = "js" THEN 1 ELSE 0)
              /\ UNCHANGED <<options, stale, converted, proposed, response>>
  BY DEF Fetched
<1>3. CASE options.mode # "js" /\ Unchanged(d)
  <2>1. /\ extractAt' = "ended" /\ response' = Revalidated
        /\ UNCHANGED <<options, stale, doc, converted, proposed, renders>>
    BY <1>2, <1>3 DEF ExtractionEnds
  <2>2. response'.ends # "answer"
    BY <2>1 DEF Revalidated
  <2>3. ExtractHonest'
    BY <1>1, <1>3, <2>1, <2>2 DEF ExtractHonest, ReasonsAgree, AnswerWithinOptions, Unchanged
  <2> QED
    BY <1>1, <2>1, <2>3 DEF ExtractInv
<1>4. CASE ~(options.mode # "js" /\ Unchanged(d))
  <2>1. /\ extractAt' = "convert" /\ doc' = d
        /\ renders' = IF options.mode = "js" THEN 1 ELSE 0
        /\ UNCHANGED <<options, stale, converted, proposed, response>>
    BY <1>1, <1>2, <1>4
  <2>2. DocKnown'
    BY <1>2, <2>1 DEF DocKnown, BrowserDocuments, HttpDocuments
  <2>3. ExtractHonest'
    <3>1. response' = NoResponse /\ renders' \in {0, 1} /\ (renders' = 1 => options'.mode # "fast")
      BY <1>1, <2>1
    <3>2. response'.ends # "answer" /\ response' # Revalidated
      BY <3>1 DEF NoResponse, Revalidated
    <3> QED
      BY <3>1, <3>2 DEF ExtractHonest, ReasonsAgree, AnswerWithinOptions
  <2> QED
    BY <1>1, <2>1, <2>2, <2>3 DEF ExtractInv
<1> QED
  BY <1>3, <1>4

(* Whatever a document is converted to, a text that was found is not empty. *)
LEMMA ConversionsKnown ==
  ASSUME options \in ExtractOptions, NEW d \in Documents, NEW c \in ConversionsOf(d)
  PROVE  c \in Conversions /\ (c.status = "ok" => c.look # "none")
<1>1. \A look \in Looks, by \in Converters :
        LET t == TextFound(look, by) IN t \in Conversions /\ (t.status = "ok" => t.look # "none")
  BY DEF TextFound, Conversions
<1>2. \A status \in {"empty", "unsupported", "skipped", "failed"} :
        NoText(status) \in Conversions /\ NoText(status).status # "ok"
  BY DEF NoText, Conversions, Looks
<1>3. HtmlConversions \subseteq {NoText("empty"), NoText("failed")}
                                  \cup {TextFound(look, by) : look \in Looks, by \in Converters}
  <2>1. options.converter \in {"trafilatura", "markitdown", "bs4"}
    BY ExtractAssumption
  <2>2. \A i \in 1..Len(Candidates(options.converter)) : Candidates(options.converter)[i] \in Converters
    BY <2>1 DEF Candidates, Converters
  <2> QED
    BY <2>2 DEF HtmlConversions
<1>4. d.kind \in Kinds
  BY DEF Documents
<1>5. CASE d.kind \in {"html", "untyped"}
  <2>1. c \in HtmlConversions
    BY <1>5 DEF ConversionsOf
  <2> QED
    BY <1>1, <1>2, <1>3, <2>1
<1>6. CASE d.kind \notin {"html", "untyped"}
  <2>1. \/ \E status \in {"empty", "unsupported", "skipped", "failed"} : c = NoText(status)
        \/ \E look \in Looks, by \in Converters : c = TextFound(look, by)
    BY <1>4, <1>6 DEF ConversionsOf, Kinds, Looks, Converters
  <2> QED
    BY <1>1, <1>2, <2>1
<1> QED
  BY <1>5, <1>6

LEMMA PreparedKeeps == ASSUME ExtractInv, Prepared PROVE ExtractInv'
<1>1. /\ extractAt = "convert" /\ DocKnown /\ response = NoResponse
      /\ renders \in {0, 1} /\ (renders = 1 => options.mode # "fast")
  BY DEF Prepared, ExtractInv
<1>2. PICK c \in ConversionsOf(doc) :
         /\ converted' = WithExtras(doc, c)
         /\ proposed' = (options.mode = "auto" /\ NeedsBrowser(doc, c))
         /\ extractAt' = IF renders = 0 /\ proposed' THEN "render"
                         ELSE IF options.anonymize THEN "anonymize" ELSE "answer"
         /\ UNCHANGED <<options, stale, doc, renders, response>>
  BY DEF Prepared
<1>3. ConvertedKnown'
  <2>1. c \in Conversions /\ (c.status = "ok" => c.look # "none")
    BY <1>1, ConversionsKnown DEF DocKnown, ExtractInv
  <2>2. PICK extras \in BOOLEAN : converted' = [c EXCEPT !.extras = extras]
    <3>1. (~options.anonymize /\ doc.kind = "html" /\ options.extras) \in BOOLEAN
      BY Zenon
    <3> QED
      BY <1>2, <3>1 DEF WithExtras
  <2> QED
    BY <2>1, <2>2 DEF ConvertedKnown, Conversions
<1>4. DocKnown'
  BY <1>1, <1>2 DEF DocKnown
<1>5. extractAt' = "answer" => ~options.anonymize
  BY <1>2
<1>6. /\ extractAt' \in {"render", "anonymize", "answer"}
      /\ extractAt' = "render" => renders = 0 /\ options.mode = "auto"
  BY <1>2
<1>7. ExtractHonest'
  <2>1. response'.ends # "answer" /\ response' # Revalidated
    BY <1>1, <1>2 DEF NoResponse, Revalidated
  <2> QED
    BY <1>1, <1>2, <2>1 DEF ExtractHonest, ReasonsAgree, AnswerWithinOptions
<1> QED
  BY <1>1, <1>2, <1>3, <1>4, <1>5, <1>6, <1>7 DEF ExtractInv, Hidden

LEMMA RenderedKeeps == ASSUME ExtractInv, Rendered PROVE ExtractInv'
<1>1. extractAt = "render" /\ renders = 0 /\ options.mode = "auto" /\ response = NoResponse
  BY DEF Rendered, ExtractInv
<1>2. /\ extractAt' = "convert" /\ renders' = 1 /\ doc' \in BrowserDocuments
      /\ UNCHANGED <<options, stale, converted, proposed, response>>
  BY <1>1 DEF Rendered
<1>3. DocKnown'
  BY <1>2 DEF DocKnown, BrowserDocuments
<1>4. ExtractHonest'
  <2>1. response'.ends # "answer" /\ response' # Revalidated
    BY <1>1, <1>2 DEF NoResponse, Revalidated
  <2> QED
    BY <1>1, <1>2, <2>1 DEF ExtractHonest, ReasonsAgree, AnswerWithinOptions
<1> QED
  BY <1>1, <1>2, <1>3, <1>4 DEF ExtractInv

LEMMA AnonymizedKeeps == ASSUME ExtractInv, Anonymized PROVE ExtractInv'
<1>1. /\ extractAt = "anonymize" /\ DocKnown /\ ConvertedKnown /\ response = NoResponse
      /\ renders \in {0, 1} /\ (renders = 1 => options.mode # "fast")
  BY DEF Anonymized, ExtractInv
<1>2. /\ converted' = [converted EXCEPT !.extras = FALSE] /\ doc' = [doc EXCEPT !.shot = FALSE]
      /\ extractAt' = "answer" /\ UNCHANGED <<options, stale, proposed, renders, response>>
  BY DEF Anonymized, Hide
<1>3. DocKnown' /\ doc'.shot = FALSE
  BY <1>1, <1>2 DEF DocKnown, Documents
<1>4. ConvertedKnown' /\ converted'.extras = FALSE
  BY <1>1, <1>2 DEF ConvertedKnown, Conversions
<1>5. ExtractHonest'
  <2>1. response'.ends # "answer" /\ response' # Revalidated
    BY <1>1, <1>2 DEF NoResponse, Revalidated
  <2> QED
    BY <1>1, <1>2, <2>1 DEF ExtractHonest, ReasonsAgree, AnswerWithinOptions
<1> QED
  BY <1>1, <1>2, <1>3, <1>4, <1>5 DEF ExtractInv, Hidden

(* The rule for success and the one for the reason of a failure agree.      *)
LEMMA AnswerKeeps == ASSUME ExtractInv, AnswerGiven PROVE ExtractInv'
<1>1. /\ extractAt = "answer" /\ DocKnown /\ ConvertedKnown /\ Hidden
      /\ renders \in {0, 1} /\ (renders = 1 => options.mode # "fast")
  BY DEF AnswerGiven, ExtractInv
<1> DEFINE extraction == IF Blocked THEN "blocked" ELSE converted.status
<1>2. /\ extractAt' = "ended" /\ UNCHANGED <<options, stale, doc, converted, proposed, renders>>
      /\ response' = [ends |-> "answer", success |-> Success, engine |-> doc.engine,
                      status |-> doc.status, extraction |-> extraction,
                      truncated |-> doc.truncated, converter |-> converted.by,
                      extras |-> converted.extras, shot |-> doc.shot, validators |-> FromHttp]
  BY DEF AnswerGiven, ExtractionEnds
<1>3. /\ response'.ends = "answer" /\ response'.success = Success /\ response'.engine = doc.engine
      /\ response'.status = doc.status /\ response'.extraction = extraction
      /\ response'.truncated = doc.truncated /\ response'.extras = converted.extras
      /\ response'.shot = doc.shot /\ response'.validators = FromHttp
  BY <1>2
<1>4. FailureReason(response)' = IF doc.status = 0 THEN "status unknown"
                                 ELSE IF ~Ok(doc.status) THEN "status"
                                 ELSE IF extraction # "ok" THEN "extraction"
                                 ELSE IF doc.truncated THEN "truncated" ELSE "incomplete"
  BY <1>3 DEF FailureReason, Ok
<1>5. extraction = "ok" <=> converted.status = "ok" /\ ~Blocked
  BY <1>1
<1> HIDE DEF extraction
<1>6. ReasonsAgree'
  <2>1. CASE Success
    <3>1. FailureReason(response)' = "incomplete"
      BY <1>4, <1>5, <2>1 DEF Success
    <3> QED
      BY <1>3, <2>1, <3>1 DEF ReasonsAgree
  <2>2. CASE ~Success
    <3>1. FailureReason(response)' = "incomplete" => ~doc.settled
      <4>1. FailureReason(response)' = "incomplete" =>
              /\ doc.status # 0 /\ Ok(doc.status) /\ extraction = "ok" /\ ~doc.truncated
        BY <1>4
      <4>2. converted.status = "ok" => converted.look # "none"
        BY <1>1 DEF ConvertedKnown
      <4> QED
        BY <1>5, <2>2, <4>1, <4>2 DEF Success
    <3> QED
      BY <1>2, <1>3, <2>2, <3>1 DEF ReasonsAgree
  <2> QED
    BY <2>1, <2>2
<1>7. AnswerWithinOptions'
  <2>1. options.anonymize => ~response'.extras /\ ~response'.shot
    BY <1>1, <1>3 DEF Hidden
  <2>2. response'.shot => options.screenshot
    BY <1>1, <1>3 DEF DocKnown
  <2>3. response'.validators => renders = 0
    BY <1>1, <1>3 DEF DocKnown, FromHttp
  <2>4. response'.engine = "selenium" <=> renders = 1
    BY <1>1, <1>3 DEF DocKnown
  <2>5. response' # Revalidated
    BY <1>3 DEF Revalidated
  <2> QED
    BY <1>1, <1>2, <2>1, <2>2, <2>3, <2>4, <2>5 DEF AnswerWithinOptions
<1> QED
  BY <1>1, <1>2, <1>6, <1>7 DEF ExtractInv, ExtractHonest

LEMMA ExtractStepInv == ExtractInv /\ [ExtractNext]_extractVars => ExtractInv'
<1> SUFFICES ASSUME ExtractInv, [ExtractNext]_extractVars PROVE ExtractInv'
  OBVIOUS
<1>1. CASE RobotsAnswer \/ Fetched \/ Prepared \/ Rendered \/ Anonymized \/ AnswerGiven
  BY <1>1, RobotsAnswerKeeps, FetchedKeeps, PreparedKeeps, RenderedKeeps, AnonymizedKeeps, AnswerKeeps
<1>2. CASE AwaitFails
  BY <1>2, FailedKeeps DEF AwaitFails
<1>3. CASE UNCHANGED extractVars
  BY <1>3 DEF extractVars, ExtractInv, DocKnown, ConvertedKnown, Hidden, ExtractHonest,
     ReasonsAgree, AnswerWithinOptions, FailureReason, Ok
<1> QED
  BY <1>1, <1>2, <1>3 DEF ExtractNext

(* _extract, for any options, pages and failures: success and the reason of *)
(* a failure never contradict each other, and an answer holds only what its *)
(* options allow.                                                           *)
THEOREM AnswersAreHonest == ExtractSpec => []ExtractHonest
<1>1. ExtractInv => ExtractHonest
  BY DEF ExtractInv
<1> QED
  BY <1>1, ExtractInitInv, ExtractStepInv, PTL DEF ExtractSpec
-----------------------------------------------------------------------------
(* Start and stop.  The stack holds the closes of the first parts, in the   *)
(* order of their start; what is open beside them is known to be lost, or   *)
(* is being opened by the storage thread.                                   *)
Begotten(n) == {Parts[i] : i \in 1..n} \ {"stores"}
Opening == CASE thread = "state" -> {"cache"} [] thread = "expire" -> Stores [] OTHER -> {}
Opens == thread \in {"cache", "state", "expire"}

StackKnown(n) ==
    /\ n \in 0..7 /\ Len(stack) = n /\ stack \in Seq(ToSet(Parts))
    /\ \A i \in 1..n : stack[i] = Parts[i]
    /\ phase = "starting" => n = started /\ n < 7
    /\ phase = "serving" => n = 7
    /\ phase \in {"stopped", "failed"} => n = 0
    /\ open = Begotten(n) \cup (open \cap Stores)
    /\ n >= 2 => Stores \subseteq open
    /\ n < 2 => open \cap Stores \subseteq lost \cup Opening
    /\ Opening \subseteq open
    /\ thread = "none" <=> n = 0
    /\ Opens => /\ n = 1 /\ phase \in {"starting", "undoing"}
                /\ startWaits <=> phase = "starting"
    /\ startWaits => Opens

LifeInv ==
    /\ LifeTypeOK
    /\ \E n \in 0..7 : StackKnown(n)
    /\ lost # {} => phase \in {"undoing", "stopping", "stopped", "failed"}

LEMMA PartsAre ==
  /\ Len(Parts) = 7
  /\ Parts[1] = "executor" /\ Parts[2] = "stores" /\ Parts[3] = "guard" /\ Parts[4] = "http"
  /\ Parts[5] = "browsers" /\ Parts[6] = "converters" /\ Parts[7] = "jobs"
  /\ ToSet(Parts) = {"executor", "stores", "guard", "http", "browsers", "converters", "jobs"}
<1>1. Len(Parts) = 7 /\ DOMAIN Parts = 1..7
  BY DEF Parts
<1>2. /\ Parts[1] = "executor" /\ Parts[2] = "stores" /\ Parts[3] = "guard" /\ Parts[4] = "http"
      /\ Parts[5] = "browsers" /\ Parts[6] = "converters" /\ Parts[7] = "jobs"
  BY DEF Parts
<1>3. \A i : i \in 1..7 <=> i = 1 \/ i = 2 \/ i = 3 \/ i = 4 \/ i = 5 \/ i = 6 \/ i = 7
  OBVIOUS
<1>4. ToSet(Parts) = {Parts[1], Parts[2], Parts[3], Parts[4], Parts[5], Parts[6], Parts[7]}
  BY <1>1, <1>3 DEF ToSet
<1> QED
  BY <1>1, <1>2, <1>4

(* One part more, one part less.                                            *)
LEMMA BegottenMore ==
  ASSUME NEW n \in 0..6
  PROVE  /\ n + 1 \in 1..7 /\ Parts[n + 1] \in ToSet(Parts)
         /\ Begotten(n + 1) = Begotten(n) \cup ({Parts[n + 1]} \ {"stores"})
         /\ Parts[n + 1] = "stores" <=> n = 1
         /\ Parts[n + 1] \notin Begotten(n) /\ Parts[n + 1] \notin Stores
         /\ Begotten(n) \cap Stores = {}
         /\ Parts[n + 1] = "executor" <=> n = 0
<1>1. n + 1 \in 1..7 /\ 1..n + 1 = (1..n) \cup {n + 1}
  OBVIOUS
<1>2. \A i, k \in 1..7 : Parts[i] = Parts[k] => i = k
  BY PartsAre
<1>3. \A i \in 1..7 : /\ Parts[i] \in ToSet(Parts) /\ Parts[i] \notin Stores
                      /\ Parts[i] = "stores" <=> i = 2
                      /\ Parts[i] = "executor" <=> i = 1
  BY PartsAre DEF Stores
<1>4. Begotten(n + 1) = Begotten(n) \cup ({Parts[n + 1]} \ {"stores"})
  BY <1>1 DEF Begotten
<1>5. Parts[n + 1] \notin Begotten(n)
  BY <1>1, <1>2 DEF Begotten
<1>6. Begotten(n) \cap Stores = {}
  BY <1>3 DEF Begotten
<1> QED
  BY <1>1, <1>3, <1>4, <1>5, <1>6

LEMMA LifeInitInv == LifeInit => LifeInv
<1> SUFFICES ASSUME LifeInit PROVE LifeInv
  OBVIOUS
<1>1. Begotten(0) = {}
  BY DEF Begotten
<1>2. StackKnown(0)
  BY <1>1, PartsAre DEF LifeInit, StackKnown, Opens, Opening
<1>3. LifeTypeOK
  <2>1. 0 \in 0..Len(Parts)
    BY PartsAre
  <2> QED
    BY <2>1 DEF LifeInit, LifeTypeOK
<1> QED
  BY <1>2, <1>3 DEF LifeInv, LifeInit

LEMMA StartPartKeeps == ASSUME LifeInv, StartPart PROVE LifeInv'
<1>1. PICK n \in 0..7 : StackKnown(n)
  BY DEF LifeInv
<1>2. PICK part : part = Parts[n + 1]
  OBVIOUS
<1>3. /\ n \in 0..6 /\ started = n /\ part # "stores" /\ phase = "starting" /\ n # 1
      /\ started' = n + 1 /\ stack' = Append(stack, part) /\ open' = open \cup {part}
      /\ phase' = IF n + 1 = 7 THEN "serving" ELSE "starting"
      /\ thread' = IF part = "executor" THEN "idle" ELSE thread
      /\ UNCHANGED <<startWaits, orphaned, lost>>
  BY <1>1, <1>2, PartsAre, BegottenMore DEF StartPart, StackKnown, Part, Pushed
<1>4. ~Opens /\ ~startWaits /\ (part = "executor" <=> n = 0)
  BY <1>1, <1>2, <1>3, BegottenMore DEF StackKnown
<1>5. stack' \in Seq(ToSet(Parts)) /\ Len(stack') = n + 1 /\ \A i \in 1..n + 1 : stack'[i] = Parts[i]
  BY <1>1, <1>2, <1>3, BegottenMore DEF StackKnown
<1>6. /\ Begotten(n + 1) = Begotten(n) \cup {part} /\ part \notin Stores
  BY <1>2, <1>3, BegottenMore
<1>7. open' = Begotten(n + 1) \cup (open' \cap Stores) /\ open' \cap Stores = open \cap Stores
  BY <1>1, <1>3, <1>6 DEF StackKnown
<1>8. thread' = "idle" \/ (thread' = thread /\ n # 0 /\ thread # "none")
  BY <1>1, <1>3, <1>4 DEF StackKnown
<1>9. ~Opens' /\ Opening' = {} /\ Opening = {}
  BY <1>3, <1>4 DEF Opens, Opening
<1>10. StackKnown(n + 1)'
  BY <1>1, <1>3, <1>4, <1>5, <1>7, <1>8, <1>9 DEF StackKnown
<1>11. LifeTypeOK'
  BY <1>2, <1>3, <1>8, BegottenMore, PartsAre DEF LifeInv, LifeTypeOK
<1> QED
  BY <1>3, <1>10, <1>11 DEF LifeInv

(* The storage thread opens the stores, for a task that may be gone.        *)
LEMMA ThreadKeeps ==
  ASSUME LifeInv, OpenStores \/ CacheOpens \/ StateOpens \/ StoresOpen \/ StoresFail
  PROVE  LifeInv'
<1>1. PICK n \in 0..7 : StackKnown(n)
  BY DEF LifeInv
<1>2. Begotten(1) \cap Stores = {} /\ Begotten(2) = Begotten(1) /\ Parts[2] = "stores"
  BY PartsAre, BegottenMore DEF Begotten, Stores
<1>3. CASE OpenStores
  <2>1. n = 1 /\ started = 1
    BY <1>1, <1>3, BegottenMore DEF OpenStores, StackKnown, Part
  <2>2. StackKnown(1)'
    BY <1>1, <1>3, <2>1 DEF OpenStores, StackKnown, Opens, Opening
  <2> QED
    BY <1>3, <2>2 DEF OpenStores, LifeInv, LifeTypeOK
<1>4. CASE CacheOpens \/ StateOpens
  <2>1. n = 1
    BY <1>1, <1>4 DEF CacheOpens, StateOpens, StackKnown, Opens
  <2>2. \E store \in Stores : /\ open' = open \cup {store}
                              /\ Opening' = Opening \cup {store}
    BY <1>4 DEF CacheOpens, StateOpens, Opening, Stores
  <2>3. Opens /\ Opens' /\ thread' # "none"
    BY <1>4 DEF CacheOpens, StateOpens, Opens
  <2>4. UNCHANGED <<phase, started, stack, startWaits, orphaned, lost>>
    BY <1>4 DEF CacheOpens, StateOpens
  <2>5. StackKnown(1)'
    BY <1>1, <2>1, <2>2, <2>3, <2>4 DEF StackKnown
  <2>6. LifeTypeOK'
    BY <2>2, <2>3, <2>4 DEF LifeInv, LifeTypeOK, Opens
  <2> QED
    BY <2>4, <2>5, <2>6 DEF LifeInv
<1>5. CASE StoresOpen
  <2>1. n = 1 /\ Opens /\ thread' = "idle" /\ Opening = Stores /\ Opening' = {} /\ ~Opens'
        /\ UNCHANGED <<phase, open, orphaned>>
    BY <1>1, <1>5 DEF StoresOpen, StackKnown, Opens, Opening
  <2>2. CASE startWaits
    <3>1. startWaits' = FALSE /\ started' = started + 1 /\ stack' = Append(stack, "stores")
          /\ UNCHANGED lost
      BY <1>5, <2>2 DEF StoresOpen, Pushed
    <3>2. started = 1 /\ phase = "starting" /\ Stores \subseteq open
      BY <1>1, <2>1, <2>2 DEF StackKnown
    <3>3. stack' \in Seq(ToSet(Parts)) /\ Len(stack') = 2 /\ \A i \in 1..2 : stack'[i] = Parts[i]
      <4>1. stack \in Seq(ToSet(Parts)) /\ Len(stack) = 1 /\ stack[1] = Parts[1]
        BY <1>1, <2>1 DEF StackKnown
      <4>2. "stores" \in ToSet(Parts)
        BY PartsAre
      <4>3. Len(stack') = 2 /\ stack'[1] = Parts[1] /\ stack'[2] = Parts[2]
        <5>1. PICK part : part = "stores"
          OBVIOUS
        <5>2. stack' = Append(stack, part) /\ part \in ToSet(Parts)
          BY <3>1, <4>2, <5>1
        <5>3. Len(stack') = 2 /\ stack'[1] = stack[1] /\ stack'[2] = part
          <6>1. PICK S : S = ToSet(Parts)
            OBVIOUS
          <6>2. stack \in Seq(S) /\ part \in S
            BY <4>1, <5>2, <6>1
          <6>3. /\ Len(stack') = Len(stack) + 1 /\ stack'[Len(stack) + 1] = part
                /\ \A i \in 1..Len(stack) : stack'[i] = stack[i]
            BY <5>2, <6>2
          <6>4. Len(stack) = 1 /\ 1 \in 1..Len(stack)
            BY <4>1
          <6> QED
            BY <6>3, <6>4
        <5> QED
          BY <1>2, <4>1, <5>1, <5>3
      <4>4. \A i \in 1..2 : i = 1 \/ i = 2
        OBVIOUS
      <4> QED
        BY <3>1, <4>1, <4>2, <4>3, <4>4
    <3>4. StackKnown(2)'
      BY <1>1, <1>2, <2>1, <3>1, <3>2, <3>3 DEF StackKnown
    <3>5. LifeTypeOK'
      <4>1. started' \in 0..Len(Parts)
        BY <3>1, <3>2, PartsAre
      <4> QED
        BY <2>1, <3>1, <3>2, <4>1 DEF LifeInv, LifeTypeOK
    <3> QED
      BY <2>1, <3>1, <3>4, <3>5 DEF LifeInv
  <2>3. CASE ~startWaits
    <3>1. lost' = lost \cup Stores /\ UNCHANGED <<startWaits, started, stack>> /\ phase = "undoing"
      BY <1>1, <1>5, <2>1, <2>3 DEF StoresOpen, StackKnown
    <3>2. StackKnown(1)'
      BY <1>1, <2>1, <2>3, <3>1 DEF StackKnown
    <3>3. LifeTypeOK'
      BY <2>1, <3>1 DEF LifeInv, LifeTypeOK
    <3> QED
      BY <2>1, <3>1, <3>2, <3>3 DEF LifeInv
  <2> QED
    BY <2>2, <2>3
<1>6. CASE StoresFail
  <2>1. /\ n = 1 /\ Opens /\ thread' = "idle" /\ Opening' = {} /\ ~Opens'
        /\ open' = open \ {"cache"} /\ startWaits' = FALSE
        /\ phase' = "undoing" /\ UNCHANGED <<started, stack, orphaned>>
    BY <1>1, <1>6 DEF StoresFail, StackKnown, Opens, Opening
  <2>2. lost' = IF thread = "expire" THEN lost \cup {"state"} ELSE lost
    BY <1>6 DEF StoresFail
  <2>3. open' \cap Stores \subseteq lost'
    <3>1. open \cap Stores \subseteq lost \cup Opening
      BY <1>1, <2>1 DEF StackKnown
    <3> QED
      BY <2>1, <2>2, <3>1 DEF Opening, Stores
  <2>4. open' = Begotten(1) \cup (open' \cap Stores)
    BY <1>1, <1>2, <2>1 DEF StackKnown, Stores
  <2>5. StackKnown(1)'
    BY <1>1, <2>1, <2>3, <2>4 DEF StackKnown
  <2>6. LifeTypeOK'
    BY <2>1, <2>2 DEF LifeInv, LifeTypeOK, Stores
  <2> QED
    BY <2>1, <2>5, <2>6 DEF LifeInv
<1> QED
  BY <1>3, <1>4, <1>5, <1>6

(* The start fails or is cancelled, the service is stopped, or all closes   *)
(* have been made.                                                          *)
LEMMA PhaseKeeps == ASSUME LifeInv, StartFails \/ Stop \/ Unwound PROVE LifeInv'
<1>1. PICK n \in 0..7 : StackKnown(n)
  BY DEF LifeInv
<1>2. UNCHANGED <<started, stack, open, thread, lost>> /\ Opening' = Opening /\ (Opens <=> Opens')
  BY DEF StartFails, Stop, Unwound, Opening, Opens
<1>3. /\ phase' \in {"undoing", "stopping", "stopped", "failed"}
      /\ phase' \in {"stopped", "failed"} => n = 0
      /\ Opens => phase' = "undoing" /\ startWaits' = FALSE
      /\ startWaits' => startWaits
  <2>1. CASE StartFails
    BY <2>1 DEF StartFails
  <2>2. CASE Stop
    BY <1>1, <2>2 DEF Stop, StackKnown
  <2>3. CASE Unwound
    <3>1. stack = <<>> /\ UNCHANGED startWaits /\ phase' \in {"stopped", "failed"}
      BY <2>3 DEF Unwound
    <3>2. n = 0
      BY <1>1, <3>1 DEF StackKnown
    <3>3. ~Opens
      BY <1>1, <3>2 DEF StackKnown
    <3> QED
      BY <3>1, <3>2, <3>3
  <2> QED
    BY <2>1, <2>2, <2>3
<1>4. StackKnown(n)'
  BY <1>1, <1>2, <1>3 DEF StackKnown
<1>5. startWaits' \in BOOLEAN /\ orphaned' \in BOOLEAN
  BY DEF StartFails, Stop, Unwound, LifeInv, LifeTypeOK
<1>6. LifeTypeOK'
  BY <1>2, <1>3, <1>5 DEF LifeInv, LifeTypeOK
<1> QED
  BY <1>3, <1>4, <1>6 DEF LifeInv

LEMMA ClosePartKeeps == ASSUME LifeInv, NEW failed \in BOOLEAN, ClosePart(failed) PROVE LifeInv'
<1>1. PICK n \in 0..7 : StackKnown(n)
  BY DEF LifeInv
<1>2. PICK part : part = Last(stack)
  OBVIOUS
<1>3. /\ Unwinding /\ stack # <<>> /\ (part = "executor" => thread = "idle")
      /\ stack' = Front(stack)
      /\ open' = IF part = "stores" /\ failed THEN open \ {"cache"} ELSE open \ Gone(part)
      /\ lost' = IF part = "stores" /\ failed THEN lost \cup {"state"} ELSE lost
      /\ thread' = IF part = "executor" THEN "none" ELSE thread
      /\ UNCHANGED <<phase, started, startWaits, orphaned>>
  BY <1>2 DEF ClosePart, Kept
<1>4. n \in 1..7 /\ n - 1 \in 0..6 /\ part = Parts[n]
  BY <1>1, <1>2, <1>3 DEF StackKnown, Last
<1>5. /\ stack' \in Seq(ToSet(Parts)) /\ Len(stack') = n - 1
      /\ \A i \in 1..n - 1 : stack'[i] = Parts[i]
  <2>1. stack' = SubSeq(stack, 1, n - 1)
    BY <1>1, <1>3 DEF Front, StackKnown
  <2>2. stack \in Seq(ToSet(Parts)) /\ Len(stack) = n /\ \A i \in 1..n : stack[i] = Parts[i]
    BY <1>1 DEF StackKnown
  <2>3. n - 1 <= Len(stack) /\ \A i \in 1..n - 1 : i \in 1..n
    BY <1>4, <2>2
  <2>4. stack' \in Seq(ToSet(Parts)) /\ Len(stack') = n - 1 /\ \A i \in 1..n - 1 : stack'[i] = stack[i]
    BY <1>4, <2>1, <2>2, <2>3
  <2> QED
    BY <2>2, <2>3, <2>4
<1>6. /\ Begotten(n) = Begotten(n - 1) \cup ({part} \ {"stores"}) /\ part \notin Begotten(n - 1)
      /\ part \notin Stores /\ Begotten(n - 1) \cap Stores = {}
      /\ part = "stores" <=> n = 2
      /\ part = "executor" <=> n = 1
  <2>1. PICK m \in 0..6 : m = n - 1 /\ m + 1 = n
    BY <1>4
  <2> QED
    BY <1>4, <2>1, BegottenMore
<1>7. /\ open' = Begotten(n - 1) \cup (open' \cap Stores)
      /\ n - 1 >= 2 => Stores \subseteq open'
      /\ n - 1 < 2 => open' \cap Stores \subseteq lost' \cup Opening
      /\ open' \subseteq open
  <2>1. CASE part = "stores"
    <3>1. Begotten(n) = Begotten(n - 1) /\ n = 2
      BY <1>6, <2>1
    <3> QED
      BY <1>1, <1>3, <1>6, <2>1, <3>1 DEF StackKnown, Gone, Stores
  <2>2. CASE part # "stores"
    <3>1. open' = open \ {part} /\ lost' = lost /\ Begotten(n) = Begotten(n - 1) \cup {part}
      BY <1>3, <1>6, <2>2 DEF Gone
    <3>2. open' \cap Stores = open \cap Stores
      BY <1>6, <3>1
    <3>3. n # 2
      BY <1>6, <2>2
    <3> QED
      BY <1>1, <1>4, <1>6, <3>1, <3>2, <3>3 DEF StackKnown
  <2> QED
    BY <2>1, <2>2
<1>8. ~Opens \/ part = "executor"
  BY <1>1, <1>6 DEF StackKnown
<1>9. ~Opens /\ ~Opens' /\ Opening = {} /\ Opening' = {} /\ ~startWaits
  BY <1>1, <1>3, <1>8 DEF Opens, Opening, StackKnown
<1>10. thread' = "none" <=> n - 1 = 0
  BY <1>1, <1>3, <1>4, <1>6 DEF StackKnown
<1>11. StackKnown(n - 1)'
  BY <1>3, <1>4, <1>5, <1>7, <1>9, <1>10 DEF StackKnown, Unwinding
<1>12. LifeTypeOK' /\ phase' \in {"undoing", "stopping"}
  BY <1>3, <1>7 DEF LifeInv, LifeTypeOK, Unwinding, Stores
<1>13. n - 1 \in 0..7
  BY <1>4
<1> QED
  BY <1>11, <1>12, <1>13 DEF LifeInv

LEMMA LifeStepInv == LifeInv /\ [LifeNext]_lifeVars => LifeInv'
<1> SUFFICES ASSUME LifeInv, [LifeNext]_lifeVars PROVE LifeInv'
  OBVIOUS
<1>1. CASE StartPart
  BY <1>1, StartPartKeeps
<1>2. CASE OpenStores \/ CacheOpens \/ StateOpens \/ StoresOpen \/ StoresFail
  BY <1>2, ThreadKeeps
<1>3. CASE StartFails \/ Stop \/ Unwound
  BY <1>3, PhaseKeeps
<1>4. ASSUME NEW failed \in BOOLEAN, ClosePart(failed) PROVE LifeInv'
  BY <1>4, ClosePartKeeps
<1>5. CASE UNCHANGED lifeVars
  <2>1. LifeTypeOK' /\ (lost' # {} => phase' \in {"undoing", "stopping", "stopped", "failed"})
    BY <1>5 DEF lifeVars, LifeInv, LifeTypeOK
  <2>2. Opening' = Opening /\ Opens' = Opens
    BY <1>5 DEF lifeVars, Opens, Opening
  <2>3. ASSUME NEW n \in 0..7, StackKnown(n) PROVE StackKnown(n)'
    BY <1>5, <2>2, <2>3 DEF lifeVars, StackKnown
  <2> QED
    BY <2>1, <2>3 DEF LifeInv
<1> QED
  BY <1>1, <1>2, <1>3, <1>4, <1>5 DEF LifeNext

(* What a part needs has been started before it, and is closed after it.    *)
LEMMA NeedsStarted ==
  ASSUME NEW n \in 0..7, NEW part \in Begotten(n)
  PROVE  /\ Needs(part) \subseteq Begotten(n) \cup (IF n >= 2 THEN Stores ELSE {})
<1>1. PICK i \in 1..n : part = Parts[i]
  BY DEF Begotten
<1>2. \A k \in 1..i : k # 2 => Parts[k] \in Begotten(n)
  <2>1. \A k \in 1..i : k \in 1..n /\ k \in 1..7
    BY <1>1
  <2>2. \A k \in 1..7 : k # 2 => Parts[k] # "stores"
    BY PartsAre
  <2> QED
    BY <2>1, <2>2 DEF Begotten
<1>3. i # 2
  BY <1>1, PartsAre DEF Begotten
<1>4. i \in {1, 3, 4, 5, 6, 7}
  BY <1>1, <1>3
<1>5. CASE i = 1
  BY <1>1, <1>5, PartsAre DEF Needs
<1>6. CASE i = 3
  <2>1. Needs(part) = {"executor"}
    BY <1>1, <1>6, PartsAre DEF Needs
  <2>2. Parts[1] \in Begotten(n)
    BY <1>2, <1>6
  <2> QED
    BY <2>1, <2>2, PartsAre
<1>7. CASE i \in {4, 5, 6}
  <2>1. Needs(part) = {"guard", "cache", "state", "executor"}
    BY <1>1, <1>7, PartsAre DEF Needs
  <2>2. Parts[1] \in Begotten(n) /\ Parts[3] \in Begotten(n) /\ n >= 2
    BY <1>1, <1>2, <1>7
  <2> QED
    BY <2>1, <2>2, PartsAre DEF Stores
<1>8. CASE i = 7
  <2>1. Needs(part) = {"converters", "browsers", "http", "guard", "cache", "state", "executor"}
    BY <1>1, <1>8, PartsAre DEF Needs
  <2>2. /\ Parts[1] \in Begotten(n) /\ Parts[3] \in Begotten(n) /\ Parts[4] \in Begotten(n)
        /\ Parts[5] \in Begotten(n) /\ Parts[6] \in Begotten(n) /\ n >= 2
    BY <1>1, <1>2, <1>8
  <2> QED
    BY <2>1, <2>2, PartsAre DEF Stores
<1> QED
  BY <1>4, <1>5, <1>6, <1>7, <1>8

(* Resources: in whatever step start or stop fails, no part outlives one it *)
(* needs, and in the end all is closed but, at most, the stores of lost: a  *)
(* store opened for a task that had stopped waiting, or whose expire() or   *)
(* whose companion's close() failed.  Those may stay open.                  *)
THEOREM PartsCloseInOrder == LifeSpec => []PartsOutliveTheirUsers
<1>1. LifeInv => PartsOutliveTheirUsers
  <2> SUFFICES ASSUME LifeInv PROVE PartsOutliveTheirUsers
    OBVIOUS
  <2>1. PICK n \in 0..7 : StackKnown(n)
    BY DEF LifeInv
  <2>2. \A part \in open \ Stores : Needs(part) \subseteq open
    <3>1. open = Begotten(n) \cup (open \cap Stores) /\ (n >= 2 => Stores \subseteq open)
      BY <2>1 DEF StackKnown
    <3>2. \A part \in open \ Stores : part \in Begotten(n)
      BY <3>1
    <3> QED
      BY <3>1, <3>2, NeedsStarted
  <2>3. thread \notin {"none", "idle"} => "executor" \in open
    <3> SUFFICES ASSUME thread \notin {"none", "idle"} PROVE "executor" \in open
      OBVIOUS
    <3>1. n = 1
      BY <2>1 DEF LifeInv, LifeTypeOK, StackKnown, Opens
    <3>2. Parts[1] \in Begotten(1)
      BY PartsAre DEF Begotten
    <3> QED
      BY <2>1, <3>1, <3>2, PartsAre DEF StackKnown
  <2>4. phase \in {"stopped", "failed"} => open \subseteq lost /\ thread = "none"
    <3>1. n = 0 => Begotten(n) = {}
      BY DEF Begotten
    <3> QED
      BY <2>1, <3>1 DEF StackKnown, Opening
  <2>5. phase = "serving" => open = (ToSet(Parts) \ {"stores"}) \cup Stores
    <3>1. Begotten(7) = ToSet(Parts) \ {"stores"}
      BY PartsAre DEF Begotten, ToSet
    <3> QED
      BY <2>1, <3>1 DEF StackKnown
  <2>6. lost \cap open # {} => orphaned \/ Unwinding \/ phase \in {"stopped", "failed"}
    BY DEF LifeInv, Unwinding
  <2> QED
    BY <2>2, <2>3, <2>4, <2>5, <2>6 DEF PartsOutliveTheirUsers
<1> QED
  BY <1>1, LifeInitInv, LifeStepInv, PTL DEF LifeSpec
-----------------------------------------------------------------------------
(* Sums and folds are recursive functions over finite sets.  Induction over *)
(* their elements rests on the strict subset being well-founded, in a form  *)
(* with sets in place of operators.                                         *)

(* Induction over the subsets of a finite set, with the sets for which the  *)
(* claim holds given as a set: the strict subset is well-founded.           *)
LEMMA SmallerSetInduction ==
  ASSUME NEW S, IsFiniteSet(S), NEW G \in SUBSET SUBSET S,
         \A s \in SUBSET S : (\A t \in SUBSET s : t # s => t \in G) => s \in G
  PROVE  \A s \in SUBSET S : s \in G
<1> DEFINE B == (SUBSET S) \ G
<1>1. SUFFICES ASSUME B # {} PROVE FALSE
  OBVIOUS
<1>2. IsWellFoundedOn(StrictSubsetOrdering(S), SUBSET S)
  BY FS_StrictSubsetOrderingWellFounded, FS_FiniteSubsetsOfFinite, Zenon
<1>3. B \subseteq SUBSET S
  OBVIOUS
<1> HIDE DEF B
<1>4. PICK s \in B : \A t \in B : ~(<<t, s>> \in StrictSubsetOrdering(S))
  BY <1>1, <1>2, <1>3, WFMin
<1>5. ASSUME NEW t \in SUBSET s, t # s PROVE t \in G
  <2>1. t \notin B
    BY <1>3, <1>4, <1>5 DEF StrictSubsetOrdering
  <2> QED
    BY <1>3, <2>1 DEF B
<1> QED
  BY <1>3, <1>5 DEF B

(* A family that holds the empty set and, with a set, the set and one more  *)
(* element, holds the whole.                                                *)
LEMMA SubsetInduction ==
  ASSUME NEW S, IsFiniteSet(S), NEW G \in SUBSET SUBSET S, {} \in G,
         \A s \in G : \A x \in S \ s : s \cup {x} \in G
  PROVE  S \in G
<1>1. ASSUME NEW s \in SUBSET S, \A t \in SUBSET s : t # s => t \in G PROVE s \in G
  <2>1. CASE s = {}
    BY <2>1
  <2>2. CASE s # {}
    <3>1. PICK x \in s : TRUE
      BY <2>2
    <3>2. s \ {x} \in G /\ x \in S \ (s \ {x}) /\ (s \ {x}) \cup {x} = s
      BY <1>1, <3>1
    <3> QED
      BY <3>2
  <2> QED
    BY <2>1, <2>2
<1> QED
  BY <1>1, SmallerSetInduction, SMTT(30)

(* Induction over the naturals, for a set of them: n is the size of 1..n.   *)
LEMMA NaturalsInductionSet ==
  ASSUME NEW G \in SUBSET Nat, 0 \in G, \A n \in G : n + 1 \in G
  PROVE  \A n \in Nat : n \in G
<1> SUFFICES ASSUME NEW n \in Nat, n \notin G PROVE FALSE
  OBVIOUS
<1> DEFINE H == {s \in SUBSET (1..n) : \A m \in 0..n : Cardinality(s) = m => m \in G}
<1>1. IsFiniteSet(1..n) /\ Cardinality(1..n) = n
  BY FS_Interval
<1>2. {} \in H
  BY FS_EmptySet
<1>3. ASSUME NEW s \in H, NEW x \in (1..n) \ s PROVE s \cup {x} \in H
  <2>1. IsFiniteSet(s) /\ Cardinality(s) \in Nat
    BY <1>1, <1>3, FS_Subset, FS_CardinalityType
  <2>2. Cardinality(s \cup {x}) = Cardinality(s) + 1
    BY <1>3, <2>1, FS_AddElement
  <2> QED
    BY <1>3, <2>1, <2>2
<1>4. 1..n \in H
  <2> HIDE DEF H
  <2>1. H \in SUBSET SUBSET (1..n)
    BY DEF H
  <2> QED
    BY <1>1, <1>2, <1>3, <2>1, SubsetInduction
<1> QED
  BY <1>1, <1>4

-----------------------------------------------------------------------------
(* SumFunctionOnSet takes the elements out one by one; what it unrolls.     *)
First(s) == CHOOSE x \in s : TRUE
Unrolled(fun, iter, s) == IF s = {} THEN 0 ELSE fun[First(s)] + iter[s \ {First(s)}]
Unrolls(iter, fun, S) == iter = [s \in SUBSET S |-> Unrolled(fun, iter, s)]

(* The function that a sum unrolls exists.                                  *)
LEMMA SumUnrolls ==
  ASSUME NEW fun, NEW S, IsFiniteSet(S)
  PROVE  \E iter : Unrolls(iter, fun, S) /\ SumFunctionOnSet(fun, S) = iter[S]
<1> DEFINE Upto(n) == {s \in SUBSET S : Cardinality(s) <= n}
           G == {n \in Nat : \E g : g = [s \in Upto(n) |-> Unrolled(fun, g, s)]}
<1>1. \A s \in SUBSET S : IsFiniteSet(s) /\ Cardinality(s) \in Nat
  BY FS_Subset, FS_CardinalityType
<1>2. 0 \in G
  <2> DEFINE g == [s \in Upto(0) |-> 0]
  <2>1. \A s \in Upto(0) : s = {}
    BY <1>1, FS_EmptySet
  <2>2. g = [s \in Upto(0) |-> Unrolled(fun, g, s)]
    BY <2>1 DEF Unrolled
  <2> HIDE DEF g
  <2> QED
    BY <2>2
<1>3. ASSUME NEW n \in G PROVE n + 1 \in G
  <2>1. PICK g : g = [s \in Upto(n) |-> Unrolled(fun, g, s)]
    OBVIOUS
  <2> DEFINE h == [s \in Upto(n + 1) |-> Unrolled(fun, g, s)]
  <2>2. ASSUME NEW s \in Upto(n + 1) PROVE Unrolled(fun, g, s) = Unrolled(fun, h, s)
    <3>1. CASE s = {}
      BY <3>1 DEF Unrolled
    <3>2. CASE s # {}
      <4> DEFINE t == s \ {First(s)}
      <4>1. First(s) \in s
        BY <3>2 DEF First
      <4>2. Cardinality(t) = Cardinality(s) - 1
        BY <1>1, <4>1, FS_RemoveElement
      <4>3. t \in Upto(n) /\ t \in Upto(n + 1)
        BY <1>1, <1>3, <4>2
      <4> HIDE DEF t
      <4>4. g[t] = Unrolled(fun, g, t)
        BY <2>1, <4>3
      <4>5. h[t] = Unrolled(fun, g, t)
        BY <4>3
      <4> QED
        BY <3>2, <4>4, <4>5 DEF Unrolled, t
    <3> QED
      BY <3>1, <3>2
  <2>3. h = [s \in Upto(n + 1) |-> Unrolled(fun, h, s)]
    BY <2>2
  <2> HIDE DEF h, Upto
  <2>4. n + 1 \in Nat
    BY <1>3
  <2> QED
    BY <2>3, <2>4
<1>4. Cardinality(S) \in G
  <2> HIDE DEF G
  <2>1. G \in SUBSET Nat
    BY DEF G
  <2> QED
    BY <1>1, <1>2, <1>3, <2>1, NaturalsInductionSet
<1>5. Upto(Cardinality(S)) = SUBSET S
  BY <1>1, FS_Subset
<1>6. \E g : g = [s \in SUBSET S |-> Unrolled(fun, g, s)]
  BY <1>4, <1>5
<1>7. SumFunctionOnSet(fun, S) = (CHOOSE g : g = [s \in SUBSET S |-> Unrolled(fun, g, s)])[S]
  BY DEF SumFunctionOnSet, FoldFunctionOnSet, MapThenFoldSet, Unrolled, First
<1> QED
  BY <1>6, <1>7 DEF Unrolls

(* Two unrollings of a sum agree where both are defined.                    *)
LEMMA UnrollingsAgree ==
  ASSUME NEW fun, NEW S, IsFiniteSet(S), NEW T \in SUBSET S,
         NEW g, Unrolls(g, fun, S), NEW h, Unrolls(h, fun, T)
  PROVE  g[T] = h[T]
<1> DEFINE G == {s \in SUBSET T : g[s] = h[s]}
<1>1. IsFiniteSet(T)
  BY FS_Subset
<1>2. \A s \in SUBSET T : g[s] = Unrolled(fun, g, s) /\ h[s] = Unrolled(fun, h, s)
  BY DEF Unrolls
<1>3. ASSUME NEW s \in SUBSET T, \A t \in SUBSET s : t # s => t \in G PROVE s \in G
  <2>1. CASE s = {}
    BY <1>2, <2>1 DEF Unrolled
  <2>2. CASE s # {}
    <3> DEFINE t == s \ {First(s)}
    <3>1. t \in SUBSET s /\ t # s
      BY <2>2 DEF First
    <3>2. g[t] = h[t]
      BY <1>3, <3>1
    <3> QED
      BY <1>2, <2>2, <3>2 DEF Unrolled
  <2> QED
    BY <2>1, <2>2
<1>4. G \in SUBSET SUBSET T
  OBVIOUS
<1> HIDE DEF G
<1>5. T \in G
  BY <1>1, <1>3, <1>4, SmallerSetInduction
<1> QED
  BY <1>5 DEF G

(* The sum over no element.                                                 *)
LEMMA SumEmpty ==
  ASSUME NEW fun
  PROVE  SumFunctionOnSet(fun, {}) = 0
<1>1. PICK g : Unrolls(g, fun, {}) /\ SumFunctionOnSet(fun, {}) = g[{}]
  BY FS_EmptySet, SumUnrolls
<1> QED
  BY <1>1 DEF Unrolls, Unrolled

(* The sum as its definition computes it: the chosen element first.         *)
LEMMA SumFirst ==
  ASSUME NEW fun, NEW S, IsFiniteSet(S), S # {}
  PROVE  SumFunctionOnSet(fun, S) = fun[First(S)] + SumFunctionOnSet(fun, S \ {First(S)})
<1> DEFINE T == S \ {First(S)}
<1>1. IsFiniteSet(T) /\ T \in SUBSET S
  BY FS_Subset
<1> HIDE DEF T
<1>2. PICK g : Unrolls(g, fun, S) /\ SumFunctionOnSet(fun, S) = g[S]
  BY SumUnrolls
<1>3. PICK h : Unrolls(h, fun, T) /\ SumFunctionOnSet(fun, T) = h[T]
  BY <1>1, SumUnrolls
<1>4. g[T] = h[T]
  BY <1>1, <1>2, <1>3, UnrollingsAgree
<1>5. g[S] = fun[First(S)] + g[T]
  BY <1>2 DEF Unrolls, Unrolled, T
<1> QED
  BY <1>2, <1>3, <1>4, <1>5 DEF T

(* A sum of naturals is one.                                                *)
LEMMA SumNat ==
  ASSUME NEW S, IsFiniteSet(S), NEW fun, \A x \in S : fun[x] \in Nat
  PROVE  \A s \in SUBSET S : SumFunctionOnSet(fun, s) \in Nat
<1> DEFINE G == {s \in SUBSET S : SumFunctionOnSet(fun, s) \in Nat}
<1>1. \A s \in SUBSET S : IsFiniteSet(s)
  BY FS_Subset
<1>2. ASSUME NEW s \in SUBSET S, \A t \in SUBSET s : t # s => t \in G PROVE s \in G
  <2>1. CASE s = {}
    BY <2>1, SumEmpty
  <2>2. CASE s # {}
    <3> DEFINE c == First(s)
    <3>1. c \in s
      BY <2>2 DEF First
    <3>2. SumFunctionOnSet(fun, s) = fun[c] + SumFunctionOnSet(fun, s \ {c})
      BY <1>1, <2>2, SumFirst
    <3> HIDE DEF c
    <3>3. s \ {c} \in SUBSET s /\ s \ {c} # s
      BY <3>1
    <3> QED
      BY <1>2, <3>1, <3>2, <3>3
  <2> QED
    BY <2>1, <2>2
<1>3. G \in SUBSET SUBSET S
  OBVIOUS
<1> HIDE DEF G
<1>4. \A s \in SUBSET S : s \in G
  BY <1>2, <1>3, SmallerSetInduction
<1> QED
  BY <1>4 DEF G

(* The order does not matter: any element may be taken out.                 *)
LEMMA SumTake ==
  ASSUME NEW S, IsFiniteSet(S), NEW fun, \A x \in S : fun[x] \in Nat
  PROVE  \A x \in S : SumFunctionOnSet(fun, S) = fun[x] + SumFunctionOnSet(fun, S \ {x})
<1> DEFINE Good(s) == \A x \in s : SumFunctionOnSet(fun, s) = fun[x] + SumFunctionOnSet(fun, s \ {x})
           G == {s \in SUBSET S : Good(s)}
<1>1. \A s \in SUBSET S : IsFiniteSet(s) /\ SumFunctionOnSet(fun, s) \in Nat
  BY FS_Subset, SumNat
<1>2. ASSUME NEW s \in SUBSET S, \A t \in SUBSET s : t # s => Good(t) PROVE Good(s)
  <2> SUFFICES ASSUME NEW x \in s
               PROVE  SumFunctionOnSet(fun, s) = fun[x] + SumFunctionOnSet(fun, s \ {x})
    OBVIOUS
  <2> DEFINE c == First(s)
  <2>1. c \in s
    BY DEF First
  <2>2. SumFunctionOnSet(fun, s) = fun[c] + SumFunctionOnSet(fun, s \ {c})
    BY <1>1, SumFirst
  <2> HIDE DEF c
  <2>3. CASE x = c
    BY <2>2, <2>3
  <2>4. CASE x # c
    <3> DEFINE rest == SumFunctionOnSet(fun, (s \ {x}) \ {c})
    <3>1. Good(s \ {x}) /\ Good(s \ {c})
      <4>1. s \ {x} \in SUBSET s /\ s \ {x} # s /\ s \ {c} \in SUBSET s /\ s \ {c} # s
        BY <2>1
      <4> HIDE DEF Good
      <4> QED
        BY <1>2, <4>1
    <3>2. (s \ {c}) \ {x} = (s \ {x}) \ {c}
      OBVIOUS
    <3>3. SumFunctionOnSet(fun, s \ {c}) = fun[x] + rest
      BY <2>4, <3>1, <3>2
    <3>4. SumFunctionOnSet(fun, s \ {x}) = fun[c] + rest
      BY <2>1, <2>4, <3>1
    <3>5. rest \in Nat /\ fun[x] \in Nat /\ fun[c] \in Nat
      BY <1>1, <2>1
    <3> HIDE DEF rest
    <3> QED
      BY <2>2, <3>3, <3>4, <3>5
  <2> QED
    BY <2>3, <2>4
<1> HIDE DEF Good
<1>3. G \in SUBSET SUBSET S
  OBVIOUS
<1>4. \A s \in SUBSET S : (\A t \in SUBSET s : t # s => t \in G) => s \in G
  BY <1>2
<1> HIDE DEF G
<1>5. S \in G
  BY <1>3, <1>4, SmallerSetInduction
<1> QED
  BY <1>5 DEF G, Good

(* Sums that are equal, or add up, element by element.                      *)
LEMMA SumAdds ==
  ASSUME NEW S, IsFiniteSet(S), NEW f, NEW g, NEW h,
         \A x \in S : f[x] \in Nat /\ g[x] \in Nat /\ h[x] = f[x] + g[x]
  PROVE  SumFunctionOnSet(h, S) = SumFunctionOnSet(f, S) + SumFunctionOnSet(g, S)
<1> DEFINE G == {s \in SUBSET S : SumFunctionOnSet(h, s) = SumFunctionOnSet(f, s) + SumFunctionOnSet(g, s)}
<1>1. \A s \in SUBSET S : /\ IsFiniteSet(s) /\ SumFunctionOnSet(f, s) \in Nat
                          /\ SumFunctionOnSet(g, s) \in Nat
  BY FS_Subset, SumNat
<1>2. {} \in G
  BY SumEmpty
<1>3. ASSUME NEW s \in SUBSET S, NEW x \in S \ s,
             SumFunctionOnSet(h, s) = SumFunctionOnSet(f, s) + SumFunctionOnSet(g, s)
      PROVE  s \cup {x} \in G
  <2> DEFINE t == s \cup {x}
  <2>1. IsFiniteSet(t) /\ x \in t /\ t \ {x} = s /\ t \in SUBSET S
    BY <1>1, <1>3
  <2> HIDE DEF t
  <2>2. \A y \in t : f[y] \in Nat /\ g[y] \in Nat /\ h[y] \in Nat
    BY <2>1
  <2>3. SumFunctionOnSet(f, t) = f[x] + SumFunctionOnSet(f, s)
    BY <2>1, <2>2, SumTake
  <2>4. SumFunctionOnSet(g, t) = g[x] + SumFunctionOnSet(g, s)
    BY <2>1, <2>2, SumTake
  <2>5. SumFunctionOnSet(h, t) = h[x] + SumFunctionOnSet(h, s)
    BY <2>1, <2>2, SumTake
  <2>6. SumFunctionOnSet(f, s) \in Nat /\ SumFunctionOnSet(g, s) \in Nat
    BY <1>1
  <2>7. h[x] = f[x] + g[x] /\ f[x] \in Nat /\ g[x] \in Nat
    OBVIOUS
  <2>8. SumFunctionOnSet(h, t) = SumFunctionOnSet(f, t) + SumFunctionOnSet(g, t)
    BY <1>3, <2>3, <2>4, <2>5, <2>6, <2>7
  <2> QED
    BY <2>1, <2>8 DEF t
<1>4. G \in SUBSET SUBSET S
  OBVIOUS
<1>5. \A s \in G : \A x \in S \ s : s \cup {x} \in G
  BY <1>3
<1> HIDE DEF G
<1>6. S \in G
  BY <1>2, <1>4, <1>5, SubsetInduction
<1> QED
  BY <1>6 DEF G

(* Where nothing is counted, the sum is nothing.                            *)
LEMMA SumZero ==
  ASSUME NEW S, IsFiniteSet(S), NEW f, \A x \in S : f[x] = 0
  PROVE  SumFunctionOnSet(f, S) = 0
<1> DEFINE total == SumFunctionOnSet(f, S)
<1>1. \A x \in S : f[x] \in Nat /\ f[x] = f[x] + f[x]
  OBVIOUS
<1>2. total = total + total
  BY <1>1, SumAdds
<1>3. total \in Nat
  BY <1>1, SumNat
<1> HIDE DEF total
<1>4. total = 0
  BY <1>2, <1>3
<1> QED
  BY <1>4 DEF total

(* Only the values on the set matter.                                       *)
LEMMA SumSame ==
  ASSUME NEW S, IsFiniteSet(S), NEW f, NEW h, \A x \in S : f[x] \in Nat /\ h[x] = f[x]
  PROVE  SumFunctionOnSet(h, S) = SumFunctionOnSet(f, S)
<1> DEFINE z == [x \in S |-> 0]
<1>1. SumFunctionOnSet(z, S) = 0
  BY SumZero
<1>2. \A x \in S : z[x] \in Nat /\ h[x] = f[x] + z[x]
  OBVIOUS
<1> HIDE DEF z
<1>3. SumFunctionOnSet(h, S) = SumFunctionOnSet(f, S) + SumFunctionOnSet(z, S)
  BY <1>2, SumAdds
<1>4. SumFunctionOnSet(f, S) \in Nat
  BY SumNat
<1> QED
  BY <1>1, <1>3, <1>4

(* One element grows.                                                       *)
LEMMA SumGrows ==
  ASSUME NEW S, IsFiniteSet(S), NEW f, NEW h, NEW c \in S, NEW d \in Nat,
         \A x \in S : f[x] \in Nat /\ h[x] = IF x = c THEN f[x] + d ELSE f[x]
  PROVE  SumFunctionOnSet(h, S) = SumFunctionOnSet(f, S) + d
<1>1. IsFiniteSet(S \ {c}) /\ \A x \in S : h[x] \in Nat
  BY FS_Subset
<1>2. SumFunctionOnSet(h, S \ {c}) = SumFunctionOnSet(f, S \ {c})
  BY <1>1, SumSame
<1>3. SumFunctionOnSet(f, S) = f[c] + SumFunctionOnSet(f, S \ {c})
  BY SumTake
<1>4. SumFunctionOnSet(h, S) = h[c] + SumFunctionOnSet(h, S \ {c})
  BY <1>1, SumTake
<1>5. SumFunctionOnSet(f, S \ {c}) \in Nat
  BY SumNat
<1> QED
  BY <1>2, <1>3, <1>4, <1>5

(* Of more elements, no less.                                               *)
LEMMA SumMonotone ==
  ASSUME NEW S, IsFiniteSet(S), NEW T \in SUBSET S, NEW f, \A x \in S : f[x] \in Nat
  PROVE  SumFunctionOnSet(f, T) <= SumFunctionOnSet(f, S)
<1> DEFINE D == S \ T
           G == {s \in SUBSET D : SumFunctionOnSet(f, T) <= SumFunctionOnSet(f, T \cup s)}
<1>1. IsFiniteSet(D) /\ \A s \in SUBSET S : IsFiniteSet(s) /\ SumFunctionOnSet(f, s) \in Nat
  BY FS_Subset, SumNat
<1>2. {} \in G
  <2>1. T \cup {} = T
    OBVIOUS
  <2> QED
    BY <1>1, <2>1
<1>3. ASSUME NEW s \in SUBSET D, NEW x \in D \ s,
             SumFunctionOnSet(f, T) <= SumFunctionOnSet(f, T \cup s)
      PROVE  s \cup {x} \in G
  <2> DEFINE t == T \cup (s \cup {x})
  <2>1. x \in t /\ t \ {x} = T \cup s /\ t \in SUBSET S /\ IsFiniteSet(t)
    BY <1>1
  <2> HIDE DEF t, D
  <2>2. SumFunctionOnSet(f, t) = f[x] + SumFunctionOnSet(f, T \cup s)
    BY <2>1, SumTake
  <2>3. f[x] \in Nat /\ SumFunctionOnSet(f, T) \in Nat /\ SumFunctionOnSet(f, T \cup s) \in Nat
    BY <1>1, <1>3, <2>1 DEF D
  <2>4. SumFunctionOnSet(f, T) <= SumFunctionOnSet(f, t)
    BY <1>3, <2>2, <2>3
  <2> QED
    BY <2>4 DEF t
<1>4. G \in SUBSET SUBSET D
  OBVIOUS
<1>5. \A s \in G : \A x \in D \ s : s \cup {x} \in G
  BY <1>3
<1>6. T \cup D = S
  OBVIOUS
<1> HIDE DEF G, D
<1>7. D \in G
  BY <1>1, <1>2, <1>4, <1>5, SubsetInduction
<1> QED
  BY <1>6, <1>7 DEF G

-----------------------------------------------------------------------------
(* The ring and what stats() reads of it.                                   *)
Counts == [requests : Nat, histogram : [DOMAIN Bounds -> Nat], max : Nat, exact : [Latencies -> Nat]]
Rows == [minute : 0..NoMinute, requests : Nat, histogram : [DOMAIN Bounds -> Nat], max : Nat,
         exact : [Latencies -> Nat]]
Minutes == 0..MaxMinute
Within(i) == {l \in Latencies : BoundOf(l) <= i}

(* The histogram is that of the latencies, and max is the largest of them.  *)
ByLatency(row) ==
    /\ \A i \in DOMAIN Bounds : UpTo(row, i) = SumFunctionOnSet(row.exact, Within(i))
    /\ \A l \in Latencies : row.exact[l] > 0 => l <= row.max
    /\ row.max = 0 \/ (row.max \in Latencies /\ row.exact[row.max] > 0)

RequestsOf(rows) == [m \in Minutes |-> rows[m].requests]

MetricsTyped ==
    /\ minuteNow \in Minutes
    /\ minuteOf \in [Recorders -> 0..NoMinute]
    /\ bucket \in [Buckets -> Rows]
    /\ totals \in Counts
    /\ history \in [Minutes -> Counts]
    /\ reader \in [at : 0..Ring, minute : 0..NoMinute, sums : Counts,
                   throughput : [Buckets -> Nat], before : [Minutes -> Counts]]

(* A recorder is never so late that its bucket is in use for a later hour.  *)
RecordersInTime ==
    \A p \in Recorders : minuteOf[p] # NoMinute =>
        minuteOf[p] <= minuteNow /\ minuteNow <= minuteOf[p] + Patience

TotalsHold == totals.requests = SumFunctionOnSet(RequestsOf(history), Minutes)

(* A bucket holds all of one minute, and the latest of those it stands for. *)
BucketsHold ==
    \A i \in Buckets : bucket[i].minute # NoMinute =>
        /\ bucket[i].minute <= minuteNow /\ bucket[i].minute % Ring = i
        /\ bucket[i].requests = history[bucket[i].minute].requests

HistoryKept ==
    \A m \in Minutes : history[m].requests > 0 =>
        /\ m <= minuteNow
        /\ bucket[m % Ring].minute # NoMinute /\ bucket[m % Ring].minute >= m

(* What stats() has read so far.                                            *)
ReaderAdds == reader.sums.requests = SumFunctionOnSet(reader.throughput, Buckets)

ReadSoFar ==
    reader.minute # NoMinute =>
        /\ reader.minute <= minuteNow
        /\ \A m \in Minutes : reader.before[m].requests <= history[m].requests
        /\ \A m \in Minutes : reader.before[m].requests > 0 => m <= reader.minute
        /\ \A age \in Buckets : reader.throughput[age] > 0 =>
              /\ reader.minute - age >= 0 /\ (reader.minute - age) % Ring < reader.at
              /\ reader.throughput[age] <= history[reader.minute - age].requests
        /\ \A age \in Buckets :
              (/\ reader.minute - age >= 0 /\ (reader.minute - age) % Ring < reader.at
               /\ minuteNow - (reader.minute - age) < Ring)
              => reader.throughput[age] >= reader.before[reader.minute - age].requests

ReaderStopped == reader.minute = NoMinute => reader.at = Ring

MetricsInv ==
    /\ MetricsTyped /\ RecordersInTime /\ TotalsHold /\ BucketsHold /\ HistoryKept
    /\ ReaderAdds /\ ReadSoFar /\ ReaderStopped
    /\ ByLatency(reader.sums) /\ \A i \in Buckets : ByLatency(bucket[i])

-----------------------------------------------------------------------------
(* Least and greatest of a set.                                             *)
LEMMA LeastNatural ==
  ASSUME NEW T \in SUBSET Nat, T # {}
  PROVE  Min(T) \in T /\ \A m \in T : Min(T) <= m
<1> PICK n \in T : TRUE
  OBVIOUS
<1> DEFINE G == {m \in Nat : \A k \in T : m <= k}
<1>1. n + 1 \notin G
  OBVIOUS
<1>2. 0 \in G
  OBVIOUS
<1>3. G \in SUBSET Nat
  OBVIOUS
<1>4. \E m \in G : m + 1 \notin G
  <2> HIDE DEF G
  <2> SUFFICES ASSUME \A m \in G : m + 1 \in G PROVE FALSE
    OBVIOUS
  <2> QED
    BY <1>1, <1>2, <1>3, NaturalsInductionSet
<1>5. PICK m \in Nat : (\A k \in T : m <= k) /\ ~(\A k \in T : m + 1 <= k)
  BY <1>4
<1>6. m \in T
  BY <1>5
<1> QED
  BY <1>5, <1>6 DEF Min

(* A set within 0..n that is not empty has a greatest element.              *)
LEMMA GreatestNatural ==
  ASSUME NEW n \in Nat, NEW T \in SUBSET (0..n), T # {}
  PROVE  \E m \in T : \A k \in T : k <= m
<1> DEFINE D == {n - k : k \in T}
<1>0. \A k \in T : k \in 0..n /\ n - k \in Nat
  OBVIOUS
<1>1. D \in SUBSET Nat /\ D # {}
  <2>1. D \subseteq Nat
    BY <1>0
  <2>2. PICK k \in T : TRUE
    OBVIOUS
  <2>3. n - k \in D
    BY <2>2
  <2> QED
    BY <2>1, <2>3
<1> HIDE DEF D
<1>2. Min(D) \in D /\ \A d \in D : Min(D) <= d
  BY <1>1, LeastNatural
<1>3. PICK m \in T : Min(D) = n - m
  BY <1>2 DEF D
<1>4. \A k \in T : n - m <= n - k
  BY <1>2, <1>3 DEF D
<1> QED
  BY <1>3, <1>4

(* One element grows by one: what a record does to every count.             *)
LEMMA SumGrowsByOne ==
  ASSUME NEW S, IsFiniteSet(S), NEW f, NEW h, NEW c \in S,
         \A x \in S : f[x] \in Nat /\ h[x] = IF x = c THEN f[x] + 1 ELSE f[x]
  PROVE  SumFunctionOnSet(h, S) = SumFunctionOnSet(f, S) + 1
<1>1. \A d \in Nat : d = 1 => \A x \in S : f[x] \in Nat /\ h[x] = IF x = c THEN f[x] + d ELSE f[x]
  OBVIOUS
<1>2. ASSUME NEW d \in Nat, d = 1 PROVE SumFunctionOnSet(h, S) = SumFunctionOnSet(f, S) + d
  BY <1>1, <1>2, SumGrows
<1> QED
  BY <1>2

(* The minutes of one bucket are hours apart.                               *)
LEMMA SameBucket ==
  ASSUME NEW m \in Nat, NEW b \in Nat, m % Ring = b % Ring, m < b
  PROVE  m + Ring <= b
<1>0. Ring \in Nat \ {0}
  BY MetricsAssumption
<1> DEFINE p == m \div Ring
           q == b \div Ring
           r == m % Ring
<1>1. m = Ring * p + r /\ p \in Int
  BY <1>0
<1>2. b = Ring * q + r /\ q \in Int
  BY <1>0
<1>3. r \in 0..Ring - 1
  BY <1>0
<1> HIDE DEF p, q, r
<1>4. p < q
  <2> SUFFICES ASSUME q <= p PROVE FALSE
    BY <1>1, <1>2
  <2>1. Ring * q <= Ring * p
    BY <1>0, <1>1, <1>2
  <2> QED
    BY <1>0, <1>1, <1>2, <1>3, <2>1
<1>5. Ring * q >= Ring * (p + 1)
  BY <1>0, <1>1, <1>2, <1>4
<1>6. Ring * (p + 1) = Ring * p + Ring
  BY <1>0, <1>1
<1> QED
  BY <1>0, <1>1, <1>2, <1>3, <1>5, <1>6

(* The bucket of a minute is one of the ring.                               *)
LEMMA BucketOf ==
  ASSUME NEW m \in Nat
  PROVE  m % Ring \in Buckets
BY MetricsAssumption DEF Buckets

(* What the assumption on the constants says of the sets summed over.       *)
LEMMA MetricsSets ==
  /\ Ring \in Nat \ {0} /\ MaxMinute \in Nat /\ Patience \in Nat /\ Patience < Ring
  /\ Len(Bounds) \in Nat \ {0} /\ DOMAIN Bounds = 1..Len(Bounds)
  /\ \A i \in 1..Len(Bounds) : Bounds[i] \in Nat
  /\ Latencies \subseteq 0..Bounds[Len(Bounds)]
  /\ IsFiniteSet(Latencies) /\ IsFiniteSet(Buckets) /\ IsFiniteSet(Minutes)
<1>1. Len(Bounds) \in Nat \ {0}
  BY MetricsAssumption, EmptySeq
<1>2. Bounds[Len(Bounds)] \in Nat
  BY <1>1, MetricsAssumption
<1>3. Latencies \subseteq 0..Bounds[Len(Bounds)]
  BY <1>2, MetricsAssumption
<1>4. IsFiniteSet(Latencies) /\ IsFiniteSet(Buckets) /\ IsFiniteSet(Minutes)
  <2>1. IsFiniteSet(0..Bounds[Len(Bounds)]) /\ IsFiniteSet(0..Ring - 1) /\ IsFiniteSet(0..MaxMinute)
    <3>1. Bounds[Len(Bounds)] \in Int /\ Ring - 1 \in Int /\ MaxMinute \in Int /\ 0 \in Int
      BY <1>2, MetricsAssumption
    <3> QED
      BY <3>1, FS_Interval
  <2> QED
    BY <1>3, <2>1, FS_Subset DEF Buckets, Minutes
<1> QED
  BY <1>1, <1>3, <1>4, MetricsAssumption

(* The histogram bucket of a latency, or of another time below the bounds.  *)
LEMMA BoundOfIs ==
  ASSUME NEW l \in Nat, NEW i \in DOMAIN Bounds, l <= Bounds[i]
  PROVE  /\ BoundOf(l) \in DOMAIN Bounds /\ BoundOf(l) <= i /\ l <= Bounds[BoundOf(l)]
         /\ \A j \in DOMAIN Bounds : l <= Bounds[j] => BoundOf(l) <= j
<1> DEFINE T == {j \in DOMAIN Bounds : l <= Bounds[j]}
<1>1. T \in SUBSET Nat /\ i \in T
  BY MetricsSets
<1> HIDE DEF T
<1>2. Min(T) \in T /\ \A m \in T : Min(T) <= m
  BY <1>1, LeastNatural
<1> QED
  BY <1>1, <1>2 DEF T, BoundOf

-----------------------------------------------------------------------------
(* What a row counts.                                                       *)
LEMMA WithinGrows ==
  ASSUME NEW i \in DOMAIN Bounds, NEW row, row.exact \in [Latencies -> Nat]
  PROVE  /\ IsFiniteSet(Within(i)) /\ Within(i) \subseteq Latencies /\ \A l \in Within(i) : row.exact[l] \in Nat
         /\ IsFiniteSet(1..i) /\ 1..i \subseteq DOMAIN Bounds
<1>1. Within(i) \subseteq Latencies
  BY DEF Within
<1>2. IsFiniteSet(Within(i))
  BY <1>1, MetricsSets, FS_Subset
<1>3. i \in 1..Len(Bounds)
  BY MetricsSets
<1>4. IsFiniteSet(1..i) /\ 1..i \subseteq DOMAIN Bounds
  <2>1. 1 \in Int /\ i \in Int
    BY <1>3, MetricsSets
  <2>2. IsFiniteSet(1..i)
    BY <2>1, FS_Interval
  <2> QED
    BY <1>3, <2>2, MetricsSets
<1> QED
  BY <1>1, <1>2, <1>4

(* A row without a record agrees with its latencies.                        *)
LEMMA NothingByLatency ==
  ASSUME NEW row \in Counts \cup Rows, row.histogram = NoCounts.histogram, row.max = 0,
         row.exact = NoCounts.exact
  PROVE  ByLatency(row)
<1>1. \A l \in Latencies : row.exact[l] = 0
  BY DEF NoCounts
<1>2. \A i \in DOMAIN Bounds : row.histogram[i] = 0
  BY DEF NoCounts
<1>3. ASSUME NEW i \in DOMAIN Bounds PROVE UpTo(row, i) = SumFunctionOnSet(row.exact, Within(i))
  <2>0. row.exact \in [Latencies -> Nat]
    BY DEF Counts, Rows
  <2>1. SumFunctionOnSet(row.exact, Within(i)) = 0
    BY <1>1, <2>0, WithinGrows, SumZero
  <2>2. SumFunctionOnSet(row.histogram, 1..i) = 0
    BY <1>2, <2>0, WithinGrows, SumZero
  <2> QED
    BY <2>1, <2>2 DEF UpTo
<1> QED
  BY <1>1, <1>3 DEF ByLatency

(* A request that is not timed, and one that is.                            *)
LEMMA AddedUntimed ==
  ASSUME NEW row \in Counts \cup Rows
  PROVE  /\ row \in Counts => Added(row, {}) \in Counts
         /\ row \in Rows => Added(row, {}) \in Rows /\ Added(row, {}).minute = row.minute
         /\ Added(row, {}).requests = row.requests + 1
         /\ Added(row, {}).histogram = row.histogram /\ Added(row, {}).max = row.max
         /\ Added(row, {}).exact = row.exact
<1>1. \A i \in DOMAIN Bounds : Cardinality({l \in {} : BoundOf(l) = i}) = 0
  <2>1. \A i : {l \in {} : BoundOf(l) = i} = {}
    OBVIOUS
  <2> QED
    BY <2>1, FS_EmptySet
<1>2. row.histogram \in [DOMAIN Bounds -> Nat] /\ row.exact \in [Latencies -> Nat] /\ row.requests \in Nat
  BY DEF Counts, Rows
<1>3. [i \in DOMAIN row.histogram |-> row.histogram[i] + Cardinality({l \in {} : BoundOf(l) = i})] = row.histogram
  BY <1>1, <1>2
<1>4. [l \in Latencies |-> row.exact[l] + IF l \in {} THEN 1 ELSE 0] = row.exact
  BY <1>2
<1>5. Added(row, {}) = [row EXCEPT !.requests = row.requests + 1, !.histogram = row.histogram,
                                   !.max = row.max, !.exact = row.exact]
  BY <1>3, <1>4 DEF Added
<1>6. row.requests + 1 \in Nat
  BY <1>2
<1> DEFINE new == Added(row, {})
<1>7. ASSUME row \in Counts
      PROVE  /\ new \in Counts /\ new.requests = row.requests + 1
             /\ new.histogram = row.histogram /\ new.max = row.max /\ new.exact = row.exact
  BY <1>5, <1>6, <1>7 DEF Counts
<1>8. ASSUME row \in Rows
      PROVE  /\ new \in Rows /\ new.minute = row.minute /\ new.requests = row.requests + 1
             /\ new.histogram = row.histogram /\ new.max = row.max /\ new.exact = row.exact
  BY <1>5, <1>6, <1>8 DEF Rows
<1> HIDE DEF new
<1> QED
  BY <1>7, <1>8 DEF new

(* Adding a record that has a latency.                                      *)
LEMMA AddedTimed ==
  ASSUME NEW row \in Counts \cup Rows, NEW c \in Latencies
  PROVE  /\ row \in Counts => Added(row, {c}) \in Counts
         /\ row \in Rows => Added(row, {c}) \in Rows /\ Added(row, {c}).minute = row.minute
         /\ Added(row, {c}).requests = row.requests + 1
         /\ \A i \in DOMAIN Bounds : Added(row, {c}).histogram[i] =
               IF i = BoundOf(c) THEN row.histogram[i] + 1 ELSE row.histogram[i]
         /\ Added(row, {c}).max = Larger(row.max, c)
         /\ \A l \in Latencies : Added(row, {c}).exact[l] =
               IF l = c THEN row.exact[l] + 1 ELSE row.exact[l]
<1> DEFINE H == [i \in DOMAIN Bounds |-> IF i = BoundOf(c) THEN row.histogram[i] + 1 ELSE row.histogram[i]]
           E == [l \in Latencies |-> IF l = c THEN row.exact[l] + 1 ELSE row.exact[l]]
<1>1. \A i \in DOMAIN Bounds : Cardinality({l \in {c} : BoundOf(l) = i}) = IF i = BoundOf(c) THEN 1 ELSE 0
  <2>1. \A i : {l \in {c} : BoundOf(l) = i} = IF i = BoundOf(c) THEN {c} ELSE {}
    OBVIOUS
  <2> QED
    BY <2>1, FS_EmptySet, FS_Singleton
<1>2. /\ row.histogram \in [DOMAIN Bounds -> Nat] /\ row.exact \in [Latencies -> Nat]
      /\ row.requests \in Nat /\ row.max \in Nat /\ c \in Nat
  BY MetricsSets, SMTT(30) DEF Counts, Rows
<1>3. [i \in DOMAIN row.histogram |-> row.histogram[i] + Cardinality({l \in {c} : BoundOf(l) = i})] = H
  BY <1>1, <1>2
<1>4. [l \in Latencies |-> row.exact[l] + IF l \in {c} THEN 1 ELSE 0] = E
  BY <1>2
<1>5. Max({c}) = c
  BY <1>2 DEF Max
<1>6. Larger(row.max, c) \in Nat
  BY <1>2 DEF Larger
<1>7. Added(row, {c}) = [row EXCEPT !.requests = row.requests + 1, !.histogram = H,
                                    !.max = Larger(row.max, c), !.exact = E]
  BY <1>3, <1>4, <1>5 DEF Added
<1>8. H \in [DOMAIN Bounds -> Nat] /\ E \in [Latencies -> Nat]
  BY <1>2
<1>9. /\ \A i \in DOMAIN Bounds : H[i] = IF i = BoundOf(c) THEN row.histogram[i] + 1 ELSE row.histogram[i]
      /\ \A l \in Latencies : E[l] = IF l = c THEN row.exact[l] + 1 ELSE row.exact[l]
  OBVIOUS
<1>10. row.requests + 1 \in Nat
  BY <1>2
<1> DEFINE new == Added(row, {c})
           larger == Larger(row.max, c)
<1> HIDE DEF H, E, larger
<1>11. ASSUME row \in Counts
       PROVE  /\ new \in Counts /\ new.requests = row.requests + 1
              /\ new.histogram = H /\ new.max = larger /\ new.exact = E
  BY <1>6, <1>7, <1>8, <1>10, <1>11 DEF Counts, larger
<1>12. ASSUME row \in Rows
       PROVE  /\ new \in Rows /\ new.minute = row.minute /\ new.requests = row.requests + 1
              /\ new.histogram = H /\ new.max = larger /\ new.exact = E
  BY <1>6, <1>7, <1>8, <1>10, <1>12 DEF Rows, larger
<1> HIDE DEF new
<1> QED
  BY <1>9, <1>11, <1>12 DEF new, larger

(* A record puts its latency into the bucket of the histogram it belongs    *)
(* to, and moves max only up.                                               *)
LEMMA TimedByLatency ==
  ASSUME NEW row \in Counts \cup Rows, NEW c \in Latencies, ByLatency(row)
  PROVE  ByLatency(Added(row, {c}))
<1> DEFINE new == Added(row, {c})
<1>1. /\ new \in Counts \cup Rows /\ new.max = Larger(row.max, c)
      /\ \A i \in DOMAIN Bounds : new.histogram[i] =
            IF i = BoundOf(c) THEN row.histogram[i] + 1 ELSE row.histogram[i]
      /\ \A l \in Latencies : new.exact[l] = IF l = c THEN row.exact[l] + 1 ELSE row.exact[l]
  BY AddedTimed, ZenonT(40)
<1> HIDE DEF new
<1>2. /\ row.histogram \in [DOMAIN Bounds -> Nat] /\ row.exact \in [Latencies -> Nat] /\ row.max \in Nat
      /\ new.histogram \in [DOMAIN Bounds -> Nat] /\ new.exact \in [Latencies -> Nat]
      /\ c \in Nat /\ Latencies \subseteq Nat
  BY <1>1, MetricsSets, SMTT(30) DEF Counts, Rows
<1>3. BoundOf(c) \in DOMAIN Bounds
  BY MetricsSets, BoundOfIs
<1>4. ASSUME NEW i \in DOMAIN Bounds PROVE UpTo(new, i) = SumFunctionOnSet(new.exact, Within(i))
  <2>1. /\ IsFiniteSet(Within(i)) /\ Within(i) \subseteq Latencies
        /\ IsFiniteSet(1..i) /\ 1..i \subseteq DOMAIN Bounds /\ i \in Nat /\ BoundOf(c) \in Nat /\ BoundOf(c) >= 1
    BY <1>2, <1>3, WithinGrows, MetricsSets, SMTT(30)
  <2>2. UpTo(row, i) = SumFunctionOnSet(row.exact, Within(i))
    BY DEF ByLatency
  <2>3. CASE BoundOf(c) <= i
    <3>1. c \in Within(i) /\ BoundOf(c) \in 1..i
      BY <2>1, <2>3 DEF Within
    <3>2. SumFunctionOnSet(new.exact, Within(i)) = SumFunctionOnSet(row.exact, Within(i)) + 1
      <4>1. \A l \in Within(i) : row.exact[l] \in Nat
                                 /\ new.exact[l] = IF l = c THEN row.exact[l] + 1 ELSE row.exact[l]
        BY <1>1, <1>2, <2>1
      <4> QED
        BY <2>1, <3>1, <4>1, SumGrowsByOne
    <3>3. SumFunctionOnSet(new.histogram, 1..i) = SumFunctionOnSet(row.histogram, 1..i) + 1
      <4>1. \A j \in 1..i : row.histogram[j] \in Nat
                   /\ new.histogram[j] = IF j = BoundOf(c) THEN row.histogram[j] + 1 ELSE row.histogram[j]
        BY <1>1, <1>2, <2>1
      <4> QED
        BY <2>1, <3>1, <4>1, SumGrowsByOne
    <3> QED
      BY <2>2, <3>2, <3>3 DEF UpTo
  <2>4. CASE ~(BoundOf(c) <= i)
    <3>1. c \notin Within(i) /\ BoundOf(c) \notin 1..i
      BY <2>1, <2>4 DEF Within
    <3>2. SumFunctionOnSet(new.exact, Within(i)) = SumFunctionOnSet(row.exact, Within(i))
      <4>1. \A l \in Within(i) : row.exact[l] \in Nat /\ new.exact[l] = row.exact[l]
        BY <1>1, <1>2, <2>1, <3>1
      <4> QED
        BY <2>1, <4>1, SumSame
    <3>3. SumFunctionOnSet(new.histogram, 1..i) = SumFunctionOnSet(row.histogram, 1..i)
      <4>1. \A j \in 1..i : row.histogram[j] \in Nat /\ new.histogram[j] = row.histogram[j]
        BY <1>1, <1>2, <2>1, <3>1
      <4> QED
        BY <2>1, <4>1, SumSame
    <3> QED
      BY <2>2, <3>2, <3>3 DEF UpTo
  <2> QED
    BY <2>3, <2>4
<1>5. \A l \in Latencies : new.exact[l] > 0 => l <= new.max
  BY <1>1, <1>2 DEF ByLatency, Larger
<1>6. new.max = 0 \/ (new.max \in Latencies /\ new.exact[new.max] > 0)
  <2>1. CASE row.max >= c
    BY <1>1, <1>2, <2>1 DEF ByLatency, Larger
  <2>2. CASE ~(row.max >= c)
    <3>1. new.max = c
      BY <1>1, <2>2 DEF Larger
    <3>2. new.exact[c] > 0
      BY <1>1, <1>2
    <3> QED
      BY <3>1, <3>2
  <2> QED
    BY <2>1, <2>2
<1>7. ByLatency(new)
  BY <1>4, <1>5, <1>6 DEF ByLatency
<1> QED
  BY <1>7 DEF new

(* Whatever a request adds.                                                 *)
LEMMA AddedKeeps ==
  ASSUME NEW row \in Counts \cup Rows, NEW latencies, latencies = {} \/ \E c \in Latencies : latencies = {c}
  PROVE  /\ row \in Counts => Added(row, latencies) \in Counts
         /\ row \in Rows => Added(row, latencies) \in Rows /\ Added(row, latencies).minute = row.minute
         /\ Added(row, latencies).requests = row.requests + 1
         /\ ByLatency(row) => ByLatency(Added(row, latencies))
<1>1. CASE latencies = {}
  <2> DEFINE new == Added(row, {})
  <2>1. /\ row \in Counts => new \in Counts
        /\ row \in Rows => new \in Rows /\ new.minute = row.minute
        /\ new.requests = row.requests + 1
        /\ new.histogram = row.histogram /\ new.max = row.max /\ new.exact = row.exact
    BY AddedUntimed
  <2> HIDE DEF new
  <2>2. ByLatency(row) => ByLatency(new)
    BY <2>1 DEF ByLatency, UpTo
  <2> QED
    BY <1>1, <2>1, <2>2 DEF new
<1>2. CASE \E c \in Latencies : latencies = {c}
  <2> PICK c \in Latencies : latencies = {c}
    BY <1>2
  <2> QED
    BY AddedTimed, TimedByLatency
<1> QED
  BY <1>1, <1>2

(* Two rows together.                                                       *)
LEMMA SumKeeps ==
  ASSUME NEW row \in Counts, NEW other \in Rows
  PROVE  /\ Sum(row, other) \in Counts
         /\ Sum(row, other).requests = row.requests + other.requests
         /\ ByLatency(row) /\ ByLatency(other) => ByLatency(Sum(row, other))
<1> DEFINE new == Sum(row, other)
           H == [i \in DOMAIN Bounds |-> row.histogram[i] + other.histogram[i]]
           E == [l \in Latencies |-> row.exact[l] + other.exact[l]]
<1>1. /\ row.histogram \in [DOMAIN Bounds -> Nat] /\ row.exact \in [Latencies -> Nat]
      /\ row.requests \in Nat /\ row.max \in Nat
      /\ other.histogram \in [DOMAIN Bounds -> Nat] /\ other.exact \in [Latencies -> Nat]
      /\ other.requests \in Nat /\ other.max \in Nat
  BY DEF Counts, Rows
<1>2. new = [requests |-> row.requests + other.requests, histogram |-> H,
             max |-> Larger(row.max, other.max), exact |-> E]
  BY DEF Sum
<1>3. H \in [DOMAIN Bounds -> Nat] /\ E \in [Latencies -> Nat] /\ Larger(row.max, other.max) \in Nat
  BY <1>1 DEF Larger
<1>4. /\ \A i \in DOMAIN Bounds : H[i] = row.histogram[i] + other.histogram[i]
      /\ \A l \in Latencies : E[l] = row.exact[l] + other.exact[l]
  OBVIOUS
<1> HIDE DEF new, H, E
<1>5. new \in Counts /\ new.requests = row.requests + other.requests
  BY <1>1, <1>2, <1>3 DEF Counts
<1>6. new.histogram = H /\ new.exact = E /\ new.max = Larger(row.max, other.max)
  BY <1>2
<1>7. ASSUME ByLatency(row), ByLatency(other) PROVE ByLatency(new)
  <2>1. ASSUME NEW i \in DOMAIN Bounds PROVE UpTo(new, i) = SumFunctionOnSet(new.exact, Within(i))
    <3>1. /\ IsFiniteSet(Within(i)) /\ Within(i) \subseteq Latencies
          /\ IsFiniteSet(1..i) /\ 1..i \subseteq DOMAIN Bounds
      BY <1>1, WithinGrows
    <3>2. \A j \in 1..i : row.histogram[j] \in Nat /\ other.histogram[j] \in Nat
                          /\ H[j] = row.histogram[j] + other.histogram[j]
      BY <1>1, <1>4, <3>1
    <3>3. \A l \in Within(i) : row.exact[l] \in Nat /\ other.exact[l] \in Nat
                               /\ E[l] = row.exact[l] + other.exact[l]
      BY <1>1, <1>4, <3>1
    <3>4. SumFunctionOnSet(H, 1..i) = SumFunctionOnSet(row.histogram, 1..i) + SumFunctionOnSet(other.histogram, 1..i)
      BY <3>1, <3>2, SumAdds
    <3>5. SumFunctionOnSet(E, Within(i)) = SumFunctionOnSet(row.exact, Within(i)) + SumFunctionOnSet(other.exact, Within(i))
      BY <3>1, <3>3, SumAdds
    <3>6. /\ UpTo(row, i) = SumFunctionOnSet(row.exact, Within(i))
          /\ UpTo(other, i) = SumFunctionOnSet(other.exact, Within(i))
      BY <1>7 DEF ByLatency
    <3> QED
      BY <1>6, <3>4, <3>5, <3>6 DEF UpTo
  <2>2. \A l \in Latencies : E[l] > 0 => l <= Larger(row.max, other.max)
    BY <1>1, <1>4, <1>7, MetricsSets DEF ByLatency, Larger
  <2>3. \/ Larger(row.max, other.max) = 0
        \/ Larger(row.max, other.max) \in Latencies /\ E[Larger(row.max, other.max)] > 0
    BY <1>1, <1>4, <1>7, MetricsSets DEF ByLatency, Larger
  <2> QED
    BY <1>6, <2>1, <2>2, <2>3 DEF ByLatency
<1> QED
  BY <1>5, <1>7 DEF new

-----------------------------------------------------------------------------
(* The percentiles of a row with a histogram of its latencies.              *)
Below(l) == {k \in Latencies : k <= l}

(* The latency of a rank is one that was recorded.                          *)
LEMMA TruePercentileIs ==
  ASSUME NEW row \in Counts, NEW share, Rank(row, share) \in 1..Timed(row)
  PROVE  LET t == TruePercentile(row, share)
         IN  /\ t \in Latencies /\ row.exact[t] > 0
             /\ SumFunctionOnSet(row.exact, Below(t)) >= Rank(row, share)
             /\ \A l \in Latencies : SumFunctionOnSet(row.exact, Below(l)) >= Rank(row, share) => t <= l
<1> DEFINE t == TruePercentile(row, share)
           r == Rank(row, share)
           T == {l \in Latencies : SumFunctionOnSet(row.exact, Below(l)) >= r}
           top == Bounds[Len(Bounds)]
<1>1. row.exact \in [Latencies -> Nat] /\ IsFiniteSet(Latencies) /\ Latencies \subseteq 0..top /\ top \in Nat
  BY MetricsSets DEF Counts
<1>2. /\ \A s \in SUBSET Latencies : IsFiniteSet(s) /\ SumFunctionOnSet(row.exact, s) \in Nat
  BY <1>1, SumNat, FS_Subset
<1>3. SumFunctionOnSet(row.exact, Latencies) >= r /\ r \in Nat /\ r > 0
  BY <1>2 DEF Timed
<1> HIDE DEF top, r
(* A set of latencies that has the rank has a greatest one.                 *)
<1>4. ASSUME NEW s \in SUBSET Latencies, SumFunctionOnSet(row.exact, s) >= r
      PROVE  \E m \in s : m \in T
  <2>1. s # {}
    BY <1>3, <1>4, SumEmpty
  <2>2. PICK m \in s : \A k \in s : k <= m
    BY <1>1, <2>1, GreatestNatural
  <2>3. s \subseteq Below(m) /\ Below(m) \in SUBSET Latencies /\ m \in Latencies
    BY <2>2 DEF Below
  <2>4. SumFunctionOnSet(row.exact, s) <= SumFunctionOnSet(row.exact, Below(m))
    <3>1. IsFiniteSet(Below(m)) /\ s \in SUBSET Below(m) /\ \A x \in Below(m) : row.exact[x] \in Nat
      BY <1>1, <1>2, <2>3
    <3> QED
      BY <3>1, SumMonotone
  <2>5. SumFunctionOnSet(row.exact, Below(m)) >= r
    BY <1>2, <1>3, <1>4, <2>3, <2>4
  <2> QED
    BY <2>3, <2>5
<1>5. T \in SUBSET Nat /\ T # {}
  <2>1. \E m \in Latencies : m \in T
    BY <1>3, <1>4
  <2>2. T \subseteq Latencies
    OBVIOUS
  <2> HIDE DEF T
  <2>3. \A l \in T : l \in Nat
    BY <1>1, <2>2
  <2> QED
    BY <2>1, <2>3
<1>6. t = Min(T)
  BY DEF TruePercentile, Below, r
<1>7. t \in T /\ \A l \in T : t <= l
  <2> HIDE DEF T, t
  <2> QED
    BY <1>5, <1>6, LeastNatural
<1> HIDE DEF t
<1>8. ASSUME row.exact[t] = 0 PROVE FALSE
  <2> DEFINE s == Below(t) \ {t}
  <2>1. t \in Below(t) /\ Below(t) \in SUBSET Latencies /\ s \in SUBSET Latencies /\ t \in Nat
    BY <1>1, <1>7 DEF Below
  <2>2. SumFunctionOnSet(row.exact, Below(t)) = row.exact[t] + SumFunctionOnSet(row.exact, s)
    <3>1. IsFiniteSet(Below(t)) /\ \A x \in Below(t) : row.exact[x] \in Nat
      BY <1>1, <1>2, <2>1
    <3> QED
      BY <2>1, <3>1, SumTake
  <2>3. SumFunctionOnSet(row.exact, s) >= r
    BY <1>2, <1>3, <1>7, <1>8, <2>1, <2>2
  <2>4. PICK m \in s : m \in T
    BY <1>4, <2>1, <2>3
  <2>5. m \in Nat /\ m <= t /\ m # t
    BY <1>1, <2>1, <2>4 DEF Below
  <2> QED
    BY <1>7, <2>1, <2>4, <2>5
<1>9. row.exact[t] \in Nat
  BY <1>1, <1>7
<1> QED
  BY <1>7, <1>8, <1>9 DEF t, r

(* The types that percentile() works on.                                    *)
LEMMA CountsAre ==
  ASSUME NEW row \in Counts
  PROVE  /\ row.exact \in [Latencies -> Nat] /\ row.max \in Nat /\ Timed(row) \in Nat
         /\ \A s \in SUBSET Latencies :
               /\ IsFiniteSet(s) /\ SumFunctionOnSet(row.exact, s) \in Nat
               /\ \A x \in s : row.exact[x] \in Nat
<1>1. row.exact \in [Latencies -> Nat] /\ row.max \in Nat
  BY DEF Counts
<1>2. IsFiniteSet(Latencies)
  BY MetricsSets
<1>3. \A s \in SUBSET Latencies : SumFunctionOnSet(row.exact, s) \in Nat
  BY <1>1, <1>2, SumNat
<1>4. \A s \in SUBSET Latencies : IsFiniteSet(s)
  BY <1>2, FS_Subset
<1> QED
  BY <1>1, <1>3, <1>4 DEF Timed

(* The rank looked for is that of some record.                              *)
LEMMA RankIs ==
  ASSUME NEW row \in Counts, Timed(row) > 0, NEW share \in {50, 95}
  PROVE  Rank(row, share) \in 1..Timed(row)
<1>1. Timed(row) \in Nat
  BY CountsAre
<1>2. CASE share = 50
  BY <1>1, <1>2 DEF Rank
<1>3. CASE share = 95
  BY <1>1, <1>3 DEF Rank
<1> QED
  BY <1>2, <1>3

(* percentile() does not fall short of the true one, nor exceed the largest *)
(* latency, and names a bound of the bucket the true one is in.             *)
LEMMA PercentileIsClose ==
  ASSUME NEW row \in Counts, ByLatency(row), Timed(row) > 0, NEW share \in {50, 95}
  PROVE  /\ TruePercentile(row, share) <= Percentile(row, share)
         /\ Percentile(row, share) <= Max({l \in Latencies : row.exact[l] > 0})
         /\ BoundOf(Percentile(row, share)) = BoundOf(TruePercentile(row, share))
<1> DEFINE t == TruePercentile(row, share)
           r == Rank(row, share)
           T == {i \in DOMAIN Bounds : UpTo(row, i) >= r}
           b == BoundOf(t)
           q == Percentile(row, share)
<1>0. \A l \in Latencies : row.exact[l] \in Nat
  BY CountsAre
<1>1. r \in 1..Timed(row) /\ Timed(row) \in Nat
  BY RankIs, CountsAre
<1>2. /\ t \in Latencies /\ row.exact[t] > 0
      /\ SumFunctionOnSet(row.exact, Below(t)) >= r
      /\ \A l \in Latencies : SumFunctionOnSet(row.exact, Below(l)) >= r => t <= l
  BY <1>1, TruePercentileIs
<1>3. /\ row.exact \in [Latencies -> Nat] /\ row.max \in Nat /\ Latencies \subseteq Nat
      /\ \A s \in SUBSET Latencies :
            /\ IsFiniteSet(s) /\ SumFunctionOnSet(row.exact, s) \in Nat
            /\ \A x \in s : row.exact[x] \in Nat
      /\ \A l \in Latencies : l <= Bounds[Len(Bounds)]
      /\ Len(Bounds) \in DOMAIN Bounds /\ DOMAIN Bounds \subseteq Nat
  <2>1. Latencies \subseteq Nat /\ \A l \in Latencies : l <= Bounds[Len(Bounds)]
    BY MetricsAssumption
  <2>2. Len(Bounds) \in DOMAIN Bounds /\ DOMAIN Bounds \subseteq Nat
    BY MetricsSets
  <2> QED
    BY <2>1, <2>2, CountsAre, ZenonT(40)
<1>4. \A l \in Latencies : /\ BoundOf(l) \in DOMAIN Bounds /\ l <= Bounds[BoundOf(l)]
                           /\ \A j \in DOMAIN Bounds : l <= Bounds[j] => BoundOf(l) <= j
  <2> SUFFICES ASSUME NEW l \in Latencies
               PROVE  /\ BoundOf(l) \in DOMAIN Bounds /\ l <= Bounds[BoundOf(l)]
                      /\ \A j \in DOMAIN Bounds : l <= Bounds[j] => BoundOf(l) <= j
    OBVIOUS
  <2>1. l \in Nat /\ Len(Bounds) \in DOMAIN Bounds /\ l <= Bounds[Len(Bounds)]
    BY <1>3
  <2> QED
    BY <2>1, BoundOfIs
<1>5. \A i \in DOMAIN Bounds : UpTo(row, i) = SumFunctionOnSet(row.exact, Within(i))
  BY DEF ByLatency
<1>6. \A i \in DOMAIN Bounds : Within(i) \in SUBSET Latencies
  BY DEF Within
<1>7. \A l \in Latencies : Below(l) \in SUBSET Latencies
  BY DEF Below
<1>8. q = Capped(row, Min(T))
  BY DEF Percentile
<1> HIDE DEF t, r, q, b
<1>9. b \in T
  <2>1. ASSUME NEW k \in Below(t) PROVE k \in Within(b)
    <3>1. k \in Latencies /\ k <= t /\ k \in Nat /\ t \in Nat
      BY <1>2, <1>3 DEF Below
    <3>2. k <= Bounds[b]
      BY <1>2, <1>4, <3>1, MetricsSets DEF b
    <3>3. BoundOf(k) <= b
      BY <1>2, <1>4, <3>1, <3>2 DEF b
    <3> QED
      BY <3>1, <3>3 DEF Within
  <2>2. b \in DOMAIN Bounds
    BY <1>2, <1>4 DEF b
  <2>3. SumFunctionOnSet(row.exact, Below(t)) <= SumFunctionOnSet(row.exact, Within(b))
    <3>1. IsFiniteSet(Within(b)) /\ Below(t) \in SUBSET Within(b) /\ \A x \in Within(b) : row.exact[x] \in Nat
      <4>1. Within(b) \in SUBSET Latencies /\ Below(t) \subseteq Within(b)
        BY <1>6, <2>1, <2>2
      <4> QED
        <5>1. IsFiniteSet(Within(b))
          BY <1>3, <4>1, Zenon
        <5>2. \A x \in Within(b) : row.exact[x] \in Nat
          BY <1>0, <4>1
        <5> QED
          BY <4>1, <5>1, <5>2
    <3> QED
      BY <3>1, SumMonotone
  <2>4. r \in Nat /\ SumFunctionOnSet(row.exact, Below(t)) \in Nat /\ SumFunctionOnSet(row.exact, Within(b)) \in Nat
    BY <1>1, <1>2, <1>3, <1>6, <1>7, <2>2
  <2> QED
    BY <1>2, <1>5, <2>2, <2>3, <2>4
<1>10. ASSUME NEW i \in T PROVE b <= i
  <2>1. i \in DOMAIN Bounds /\ SumFunctionOnSet(row.exact, Within(i)) >= r
    BY <1>5
  <2>2. Within(i) # {}
    BY <1>1, <2>1, SumEmpty
  <2>3. PICK n \in Nat : Within(i) \in SUBSET (0..n)
    <3>1. Within(i) \subseteq Latencies
      BY <1>6, <2>1
    <3> DEFINE top == Bounds[Len(Bounds)]
    <3>2. Latencies \subseteq 0..top /\ top \in Nat
      BY <1>3, MetricsSets
    <3> HIDE DEF top
    <3>3. Within(i) \in SUBSET (0..top)
      BY <3>1, <3>2, Zenon
    <3> QED
      BY <3>2, <3>3, Zenon
  <2>4. PICK m \in Within(i) : \A k \in Within(i) : k <= m
    BY <2>2, <2>3, GreatestNatural
  <2>5. m \in Latencies /\ BoundOf(m) <= i /\ Within(i) \subseteq Below(m)
    BY <2>4 DEF Within, Below
  <2>6. SumFunctionOnSet(row.exact, Within(i)) <= SumFunctionOnSet(row.exact, Below(m))
    <3>1. IsFiniteSet(Below(m)) /\ Within(i) \in SUBSET Below(m) /\ \A x \in Below(m) : row.exact[x] \in Nat
      <4>1. Below(m) \in SUBSET Latencies /\ Within(i) \subseteq Below(m)
        BY <1>7, <2>5
      <4> QED
        <5>1. IsFiniteSet(Below(m))
          BY <1>3, <4>1, Zenon
        <5>2. \A x \in Below(m) : row.exact[x] \in Nat
          BY <1>0, <4>1
        <5> QED
          BY <4>1, <5>1, <5>2
    <3> QED
      BY <3>1, SumMonotone
  <2>7. r \in Nat /\ SumFunctionOnSet(row.exact, Within(i)) \in Nat /\ SumFunctionOnSet(row.exact, Below(m)) \in Nat
    BY <1>1, <1>3, <1>6, <1>7, <2>1, <2>5
  <2>8. t <= m
    BY <1>2, <2>1, <2>5, <2>6, <2>7
  <2>9. t <= Bounds[BoundOf(m)]
    BY <1>2, <1>3, <1>4, <2>5, <2>8, MetricsSets
  <2>10. b <= BoundOf(m)
    BY <1>2, <1>4, <2>5, <2>9 DEF b
  <2> QED
    BY <1>2, <1>3, <1>4, <2>1, <2>5, <2>10 DEF b
<1>11. Min(T) = b
  <2>1. T \subseteq Nat
    BY <1>3
  <2> HIDE DEF T
  <2>2. Min(T) \in T /\ \A m \in T : Min(T) <= m
    BY <1>9, <2>1, LeastNatural
  <2>3. b <= Min(T) /\ Min(T) <= b
    BY <1>9, <1>10, <2>2
  <2> QED
    <3>1. Min(T) \in Nat /\ b \in Nat
      BY <1>9, <2>1, <2>2
    <3> QED
      BY <2>3, <3>1
<1>12. q = Smaller(Bounds[b], row.max)
  BY <1>8, <1>11 DEF Capped
<1>13. /\ b \in DOMAIN Bounds /\ Bounds[b] \in Nat /\ t \in Nat /\ t <= Bounds[b] /\ t <= row.max
       /\ \A j \in DOMAIN Bounds : t <= Bounds[j] => b <= j
  BY <1>2, <1>3, <1>4, MetricsSets DEF b, ByLatency
<1>14. q \in Nat /\ t <= q /\ q <= Bounds[b] /\ q <= row.max
  BY <1>3, <1>12, <1>13 DEF Smaller
<1>15. BoundOf(q) = b
  <2>1. /\ BoundOf(q) \in DOMAIN Bounds /\ BoundOf(q) <= b /\ q <= Bounds[BoundOf(q)]
    BY <1>13, <1>14, BoundOfIs
  <2>2. t <= Bounds[BoundOf(q)]
    BY <1>13, <1>14, <2>1, MetricsSets
  <2>3. b <= BoundOf(q)
    BY <1>13, <2>1, <2>2
  <2> QED
    BY <1>3, <1>13, <2>1, <2>3
<1>16. row.max = Max({l \in Latencies : row.exact[l] > 0})
  <2> DEFINE L == {l \in Latencies : row.exact[l] > 0}
  <2>1. \A l \in L : l <= row.max /\ l \in Nat
    BY <1>3 DEF ByLatency
  <2>2. row.max \in L
    <3>1. CASE row.max = 0
      <4>1. t = 0
        BY <1>13, <3>1
      <4> QED
        BY <1>2, <3>1, <4>1
    <3>2. CASE row.max # 0
      BY <3>2 DEF ByLatency
    <3> QED
      BY <3>1, <3>2
  <2> HIDE DEF L
  <2>3. \A x \in L : (\A y \in L : x >= y) => x = row.max
    BY <1>3, <2>1, <2>2
  <2>4. \A y \in L : row.max >= y
    BY <1>3, <2>1
  <2> QED
    BY <2>2, <2>3, <2>4 DEF Max, L
<1> QED
  BY <1>14, <1>15, <1>16 DEF t, q, b

-----------------------------------------------------------------------------
(* A row that was never written.                                            *)
LEMMA NoRowIs ==
  /\ NoRow \in Rows /\ NoRow.minute = NoMinute /\ NoRow.requests = 0 /\ NoRow.max = 0
  /\ NoRow.histogram = NoCounts.histogram /\ NoRow.exact = NoCounts.exact
BY MetricsSets DEF NoRow, NoCounts, Rows, NoMinute

(* The ring is empty at first.                                              *)
LEMMA MetricsInitInv == MetricsInit => MetricsInv
<1> SUFFICES ASSUME MetricsInit PROVE MetricsInv
  OBVIOUS
<1>1. NoCounts \in Counts /\ NoCounts.requests = 0 /\ NoCounts.max = 0
  BY DEF NoCounts, Counts
<1>2. /\ NoRow \in Rows /\ NoRow.minute = NoMinute /\ NoRow.max = 0
      /\ NoRow.histogram = NoCounts.histogram /\ NoRow.exact = NoCounts.exact
  BY NoRowIs
<1>3. ByLatency(NoCounts) /\ ByLatency(NoRow)
  <2>1. ByLatency(NoCounts)
    BY <1>1, NothingByLatency
  <2>2. ByLatency(NoRow)
    BY <1>2, NothingByLatency
  <2> QED
    BY <2>1, <2>2
<1>4. /\ Idle \in [at : 0..Ring, minute : 0..NoMinute, sums : Counts,
                  throughput : [Buckets -> Nat], before : [Minutes -> Counts]]
      /\ Idle.minute = NoMinute /\ Idle.at = Ring /\ Idle.sums = NoCounts
      /\ \A age \in Buckets : Idle.throughput[age] = 0
  BY <1>1, MetricsSets DEF Idle, Minutes, NoMinute
<1>5. MetricsTyped
  BY <1>1, <1>2, <1>4, MetricsSets DEF MetricsInit, MetricsTyped, Minutes, NoMinute
<1>6. TotalsHold
  <2> DEFINE f == [m \in Minutes |-> history[m].requests]
  <2>1. \A m \in Minutes : f[m] = 0
    BY <1>1 DEF MetricsInit, Minutes
  <2> HIDE DEF f
  <2>2. SumFunctionOnSet(f, Minutes) = 0
    BY <2>1, MetricsSets, SumZero
  <2> QED
    BY <1>1, <2>2 DEF MetricsInit, TotalsHold, RequestsOf, f
<1>7. ReaderAdds
  BY <1>1, <1>4, MetricsSets, SumZero DEF MetricsInit, ReaderAdds
<1>8. RecordersInTime /\ BucketsHold /\ ReadSoFar /\ ReaderStopped
  BY <1>2, <1>4 DEF MetricsInit, RecordersInTime, BucketsHold, ReadSoFar, ReaderStopped
<1>9. HistoryKept
  BY <1>1 DEF MetricsInit, HistoryKept, Minutes
<1>10. ByLatency(reader.sums) /\ \A i \in Buckets : ByLatency(bucket[i])
  BY <1>3, <1>4 DEF MetricsInit
<1> QED
  BY <1>5, <1>6, <1>7, <1>8, <1>9, <1>10 DEF MetricsInv

(* Time: no recorder is left behind by more than its patience.              *)
LEMMA MinutePassesKeeps ==
  ASSUME MetricsInv, MinutePasses
  PROVE  MetricsInv'
<1>1. /\ minuteNow \in Nat /\ minuteNow' = minuteNow + 1 /\ minuteNow' \in Minutes
      /\ minuteOf' = minuteOf /\ bucket' = bucket /\ totals' = totals /\ reader' = reader /\ history' = history
  BY MetricsSets DEF MetricsInv, MetricsTyped, MinutePasses, Minutes
<1>2. MetricsTyped'
  BY <1>1 DEF MetricsInv, MetricsTyped
<1>3. RecordersInTime'
  BY <1>1, MetricsSets DEF MetricsInv, MetricsTyped, MinutePasses, RecordersInTime, Minutes, NoMinute
<1>4. TotalsHold' /\ ReaderAdds' /\ ReaderStopped' /\ ByLatency(reader.sums)'
      /\ \A i \in Buckets : ByLatency(bucket[i])'
  BY <1>1 DEF MetricsInv, TotalsHold, RequestsOf, ReaderAdds, ReaderStopped, ByLatency, UpTo
<1>5. BucketsHold'
  BY <1>1 DEF MetricsInv, MetricsTyped, BucketsHold, Rows
<1>6. HistoryKept'
  BY <1>1 DEF MetricsInv, HistoryKept, Minutes
<1>7. ReadSoFar'
  <2>1. reader.minute \in Int /\ \A age \in Buckets : age \in Int
    BY DEF MetricsInv, MetricsTyped, Buckets
  <2>2. Ring \in Nat
    BY MetricsSets
  <2> QED
    BY <1>1, <2>1, <2>2 DEF MetricsInv, ReadSoFar
<1> QED
  BY <1>2, <1>3, <1>4, <1>5, <1>6, <1>7 DEF MetricsInv

(* A recorder that reads the clock or is lost changes no count.             *)
LEMMA RecorderMovesKeeps ==
  ASSUME MetricsInv, NEW p \in Recorders, ReadsClock(p) \/ RecordLost(p)
  PROVE  MetricsInv'
<1>1. /\ minuteNow' = minuteNow /\ bucket' = bucket /\ totals' = totals /\ reader' = reader /\ history' = history
      /\ minuteOf' = [minuteOf EXCEPT ![p] = minuteNow] \/ minuteOf' = [minuteOf EXCEPT ![p] = NoMinute]
  BY DEF ReadsClock, RecordLost
<1>2. MetricsTyped'
  <2>1. minuteNow \in 0..NoMinute /\ NoMinute \in 0..NoMinute
    BY MetricsSets DEF MetricsInv, MetricsTyped, Minutes, NoMinute
  <2>2. minuteOf' \in [Recorders -> 0..NoMinute]
    BY <1>1, <2>1 DEF MetricsInv, MetricsTyped
  <2> QED
    BY <1>1, <2>2 DEF MetricsInv, MetricsTyped
<1>3. RecordersInTime'
  BY <1>1, MetricsSets DEF MetricsInv, MetricsTyped, RecordersInTime, Minutes
<1>4. TotalsHold' /\ ReaderAdds' /\ ReaderStopped' /\ ByLatency(reader.sums)'
      /\ \A i \in Buckets : ByLatency(bucket[i])'
  BY <1>1 DEF MetricsInv, TotalsHold, RequestsOf, ReaderAdds, ReaderStopped, ByLatency, UpTo
<1>5. BucketsHold' /\ HistoryKept' /\ ReadSoFar'
  BY <1>1 DEF MetricsInv, BucketsHold, HistoryKept, ReadSoFar
<1> QED
  BY <1>2, <1>3, <1>4, <1>5 DEF MetricsInv

(* What one recorder changes: one minute of history, its bucket, the totals. *)
LEMMA RecordChanges ==
  ASSUME MetricsInv, NEW p \in Recorders, NEW latencies,
         latencies = {} \/ \E c \in Latencies : latencies = {c},
         Record(p, latencies)
  PROVE  \E mn \in Minutes :
            /\ mn <= minuteNow /\ minuteNow < mn + Ring
            /\ minuteOf' \in [Recorders -> 0..NoMinute]
            /\ \A q \in Recorders : minuteOf'[q] \in {minuteOf[q], NoMinute}
            /\ bucket' \in [Buckets -> Rows] /\ mn % Ring \in Buckets
            /\ \A i \in Buckets : i # mn % Ring => bucket'[i] = bucket[i]
            /\ bucket'[mn % Ring].minute = mn
            /\ bucket'[mn % Ring].requests =
                  IF bucket[mn % Ring].minute = mn THEN bucket[mn % Ring].requests + 1 ELSE 1
            /\ ByLatency(bucket'[mn % Ring])
            /\ totals' \in Counts /\ totals'.requests = totals.requests + 1
            /\ history' \in [Minutes -> Counts]
            /\ \A m \in Minutes : history'[m].requests =
                  IF m = mn THEN history[m].requests + 1 ELSE history[m].requests
            /\ minuteNow' = minuteNow /\ reader' = reader
<1> PICK mn : mn = minuteOf[p]
  OBVIOUS
<1> PICK i : i = mn % Ring
  OBVIOUS
<1>1. mn \in Minutes /\ mn <= minuteNow /\ minuteNow < mn + Ring /\ mn \in Nat
  <2>1. mn # NoMinute
    BY DEF Record
  <2>2. mn \in 0..NoMinute /\ minuteNow \in 0..MaxMinute
    BY DEF MetricsInv, MetricsTyped, Minutes
  <2>3. mn <= minuteNow /\ minuteNow <= mn + Patience
    BY <2>1 DEF MetricsInv, RecordersInTime
  <2> QED
    BY <2>1, <2>2, <2>3, MetricsSets DEF Minutes, NoMinute
<1>2. i \in Buckets
  BY <1>1, BucketOf
<1> DEFINE old == bucket[i]
           row == CurrentRow(old, mn)
           new == Added(row, latencies)
           sum == Added(totals, latencies)
           past == Added(history[mn], latencies)
<1>3. /\ bucket' = [bucket EXCEPT ![i] = new] /\ totals' = sum
      /\ history' = [history EXCEPT ![mn] = past]
      /\ minuteOf' = [minuteOf EXCEPT ![p] = NoMinute]
      /\ minuteNow' = minuteNow /\ reader' = reader
  BY DEF Record
<1>4. /\ old \in Rows /\ ByLatency(old) /\ totals \in Counts /\ history \in [Minutes -> Counts]
      /\ bucket \in [Buckets -> Rows] /\ minuteOf \in [Recorders -> 0..NoMinute] /\ history[mn] \in Counts
  BY <1>1, <1>2 DEF MetricsInv, MetricsTyped
<1>5. /\ row \in Rows /\ row.minute = mn /\ ByLatency(row)
      /\ row.requests = IF old.minute = mn THEN old.requests ELSE 0
  <2>1. CASE old.minute = mn
    BY <1>4, <2>1 DEF CurrentRow
  <2>2. CASE old.minute # mn
    <3>1. row = [NoRow EXCEPT !.minute = mn]
      BY <2>2 DEF CurrentRow
    <3>2. /\ row \in Rows /\ row.minute = mn /\ row.requests = 0 /\ row.max = 0
          /\ row.histogram = NoCounts.histogram /\ row.exact = NoCounts.exact
      <4>1. mn \in 0..NoMinute
        BY <1>1, MetricsSets DEF Minutes, NoMinute
      <4> QED
        BY <3>1, <4>1, NoRowIs DEF Rows
    <3>3. ByLatency(row)
      BY <3>2, NothingByLatency
    <3> QED
      BY <2>2, <3>2, <3>3
  <2> QED
    BY <2>1, <2>2
<1> HIDE DEF row
<1>6. new \in Rows /\ new.minute = mn /\ new.requests = row.requests + 1 /\ ByLatency(new)
  BY <1>5, AddedKeeps
<1>7. sum \in Counts /\ sum.requests = totals.requests + 1
  BY <1>4, AddedKeeps
<1>8. past \in Counts /\ past.requests = history[mn].requests + 1
  BY <1>4, AddedKeeps
<1> HIDE DEF new, sum, past
<1>9. /\ bucket' \in [Buckets -> Rows] /\ bucket'[i] = new
      /\ \A j \in Buckets : j # i => bucket'[j] = bucket[j]
  BY <1>2, <1>3, <1>4, <1>6
<1>10. new.requests = IF old.minute = mn THEN old.requests + 1 ELSE 1
  BY <1>4, <1>5, <1>6 DEF Rows
<1>11. /\ history' \in [Minutes -> Counts]
       /\ \A m \in Minutes : history'[m].requests =
             IF m = mn THEN history[m].requests + 1 ELSE history[m].requests
  BY <1>1, <1>3, <1>4, <1>8
<1>12. /\ minuteOf' \in [Recorders -> 0..NoMinute]
       /\ \A q \in Recorders : minuteOf'[q] \in {minuteOf[q], NoMinute}
  BY <1>3, <1>4, MetricsSets DEF NoMinute
<1> QED
  BY <1>1, <1>2, <1>3, <1>6, <1>7, <1>9, <1>10, <1>11, <1>12

(* The types that stats() works on while it runs.                           *)
LEMMA ReaderTypes ==
  ASSUME MetricsInv, reader.minute # NoMinute
  PROVE  /\ reader.minute \in Minutes /\ \A age \in Buckets : age \in Nat /\ reader.throughput[age] \in Nat
         /\ \A m \in Minutes : reader.before[m].requests \in Nat
<1>1. /\ reader.minute \in 0..NoMinute /\ reader.throughput \in [Buckets -> Nat]
      /\ reader.before \in [Minutes -> Counts]
  BY DEF MetricsInv, MetricsTyped
<1>2. reader.minute \in Minutes
  BY <1>1, MetricsSets DEF Minutes, NoMinute
<1>3. \A m \in Minutes : reader.before[m].requests \in Nat
  BY <1>1 DEF Counts
<1>4. \A age \in Buckets : reader.throughput[age] \in Nat
  BY <1>1
<1>5. \A age \in Buckets : age \in Nat
  BY MetricsSets DEF Buckets
<1> QED
  BY <1>2, <1>3, <1>4, <1>5

(* The transaction of _record: the bucket is taken over from an hour        *)
(* before, or grows with its minute; row and totals move together.          *)
LEMMA RecordKeeps ==
  ASSUME MetricsInv, NEW p \in Recorders, NEW latencies,
         latencies = {} \/ \E c \in Latencies : latencies = {c},
         Record(p, latencies)
  PROVE  MetricsInv'
<1> PICK mn \in Minutes :
            /\ mn <= minuteNow /\ minuteNow < mn + Ring
            /\ minuteOf' \in [Recorders -> 0..NoMinute]
            /\ \A q \in Recorders : minuteOf'[q] \in {minuteOf[q], NoMinute}
            /\ bucket' \in [Buckets -> Rows] /\ mn % Ring \in Buckets
            /\ \A i \in Buckets : i # mn % Ring => bucket'[i] = bucket[i]
            /\ bucket'[mn % Ring].minute = mn
            /\ bucket'[mn % Ring].requests =
                  IF bucket[mn % Ring].minute = mn THEN bucket[mn % Ring].requests + 1 ELSE 1
            /\ ByLatency(bucket'[mn % Ring])
            /\ totals' \in Counts /\ totals'.requests = totals.requests + 1
            /\ history' \in [Minutes -> Counts]
            /\ \A m \in Minutes : history'[m].requests =
                  IF m = mn THEN history[m].requests + 1 ELSE history[m].requests
            /\ minuteNow' = minuteNow /\ reader' = reader
  BY RecordChanges
<1> PICK i : i = mn % Ring
  OBVIOUS
<1>1. /\ \A m \in Minutes : m \in Nat /\ history[m].requests \in Nat /\ m % Ring \in Buckets
      /\ \A j \in Buckets : bucket[j].minute \in 0..NoMinute /\ bucket[j].requests \in Nat
      /\ minuteNow \in Nat /\ Ring \in Nat \ {0} /\ i \in Buckets
      /\ \A j \in Buckets : bucket[j].minute # NoMinute => bucket[j].minute \in Minutes
  <2>1. \A m \in Minutes : m \in Nat /\ m % Ring \in Buckets
    BY BucketOf DEF Minutes
  <2>2. \A m \in Minutes : history[m].requests \in Nat
    BY DEF MetricsInv, MetricsTyped, Counts
  <2>3. \A j \in Buckets : bucket[j].minute \in 0..NoMinute /\ bucket[j].requests \in Nat
    BY DEF MetricsInv, MetricsTyped, Rows
  <2>4. minuteNow \in Nat
    BY DEF MetricsInv, MetricsTyped, Minutes
  <2>5. \A j \in Buckets : bucket[j].minute # NoMinute => bucket[j].minute \in Minutes
    BY <2>3, MetricsSets DEF Minutes, NoMinute
  <2>6. Ring \in Nat \ {0}
    BY MetricsSets
  <2> QED
    BY <2>1, <2>2, <2>3, <2>4, <2>5, <2>6
<1>2. MetricsTyped'
  BY DEF MetricsInv, MetricsTyped
<1>3. RecordersInTime'
  BY DEF MetricsInv, RecordersInTime
<1>4. TotalsHold'
  <2> DEFINE f == RequestsOf(history)
             h == [m \in Minutes |-> history'[m].requests]
  <2>1. \A m \in Minutes : f[m] \in Nat /\ h[m] = IF m = mn THEN f[m] + 1 ELSE f[m]
    BY <1>1 DEF RequestsOf
  <2>2. totals.requests = SumFunctionOnSet(f, Minutes)
    BY DEF MetricsInv, TotalsHold
  <2> HIDE DEF f, h
  <2>3. SumFunctionOnSet(h, Minutes) = SumFunctionOnSet(f, Minutes) + 1
    BY <2>1, MetricsSets, SumGrowsByOne
  <2>4. totals'.requests = SumFunctionOnSet(h, Minutes)
    BY <2>2, <2>3
  <2> QED
    BY <2>4 DEF TotalsHold, RequestsOf, h
(* An older minute gives way; a later one of the same bucket is not there.  *)
<1>5. bucket[i].minute # NoMinute => bucket[i].minute <= mn
  <2> SUFFICES ASSUME bucket[i].minute # NoMinute, bucket[i].minute > mn PROVE FALSE
    BY <1>1
  <2> PICK b : b = bucket[i].minute
    OBVIOUS
  <2>1. b \in Nat /\ b <= minuteNow /\ b % Ring = i
    BY <1>1 DEF MetricsInv, BucketsHold
  <2>2. mn + Ring <= b
    BY <1>1, <2>1, SameBucket
  <2> QED
    BY <1>1, <2>1, <2>2
<1>6. bucket[i].minute # mn => history[mn].requests = 0
  <2> SUFFICES ASSUME bucket[i].minute # mn, history[mn].requests > 0 PROVE FALSE
    BY <1>1
  <2>1. bucket[i].minute # NoMinute /\ bucket[i].minute >= mn
    BY DEF MetricsInv, HistoryKept
  <2>2. bucket[i].minute <= mn
    BY <1>5, <2>1
  <2>3. bucket[i].minute \in Nat /\ mn \in Nat
    BY <1>1, <2>1
  <2> QED
    BY <2>1, <2>2, <2>3
<1>7. BucketsHold'
  <2> SUFFICES ASSUME NEW j \in Buckets, bucket'[j].minute # NoMinute
               PROVE  /\ bucket'[j].minute <= minuteNow /\ bucket'[j].minute % Ring = j
                      /\ bucket'[j].requests = history'[bucket'[j].minute].requests
    BY DEF BucketsHold
  <2>1. CASE j = i
    <3>1. bucket'[j].minute = mn
      BY <2>1
    <3>2. CASE bucket[i].minute = mn
      <4>1. bucket[i].requests = history[mn].requests
        <5>1. mn # NoMinute
          BY MetricsSets DEF Minutes, NoMinute
        <5> QED
          BY <1>1, <3>2, <5>1 DEF MetricsInv, BucketsHold
      <4> QED
        BY <2>1, <3>1, <3>2, <4>1
    <3>3. CASE bucket[i].minute # mn
      BY <1>6, <2>1, <3>1, <3>3
    <3> QED
      BY <3>2, <3>3
  <2>2. CASE j # i
    <3>1. /\ bucket[j].minute <= minuteNow /\ bucket[j].minute % Ring = j
          /\ bucket[j].requests = history[bucket[j].minute].requests /\ bucket[j].minute \in Minutes
      BY <1>1, <2>2 DEF MetricsInv, BucketsHold
    <3>2. bucket[j].minute # mn
      BY <2>2, <3>1
    <3> QED
      BY <2>2, <3>1, <3>2
  <2> QED
    BY <2>1, <2>2
<1>8. HistoryKept'
  <2> SUFFICES ASSUME NEW m \in Minutes, history'[m].requests > 0
               PROVE  /\ m <= minuteNow
                      /\ bucket'[m % Ring].minute # NoMinute /\ bucket'[m % Ring].minute >= m
    BY DEF HistoryKept
  <2>1. mn # NoMinute
    BY MetricsSets DEF Minutes, NoMinute
  <2>2. CASE m = mn
    BY <1>1, <2>1, <2>2
  <2>3. CASE m # mn
    <3>1. m <= minuteNow /\ bucket[m % Ring].minute # NoMinute /\ bucket[m % Ring].minute >= m
      BY <2>3 DEF MetricsInv, HistoryKept
    <3>2. CASE m % Ring = i
      <4>1. bucket[i].minute <= mn /\ bucket[i].minute >= m
        BY <1>5, <3>1, <3>2
      <4> QED
        BY <1>1, <2>1, <3>1, <3>2, <4>1
    <3>3. CASE m % Ring # i
      BY <1>1, <3>1, <3>3
    <3> QED
      BY <3>2, <3>3
  <2> QED
    BY <2>2, <2>3
<1>9. ReaderAdds' /\ ReaderStopped' /\ ByLatency(reader.sums)'
  BY DEF MetricsInv, ReaderAdds, ReaderStopped, ByLatency, UpTo
<1>10. \A j \in Buckets : ByLatency(bucket[j])'
  <2> SUFFICES ASSUME NEW j \in Buckets PROVE ByLatency(bucket'[j])
    BY DEF ByLatency, UpTo
  <2>1. CASE j = i
    BY <2>1
  <2>2. CASE j # i
    BY <2>2 DEF MetricsInv
  <2> QED
    BY <2>1, <2>2
<1>11. ReadSoFar'
  <2> SUFFICES ASSUME reader.minute # NoMinute
      PROVE
        /\ reader.minute <= minuteNow
        /\ \A m \in Minutes : reader.before[m].requests <= history'[m].requests
        /\ \A m \in Minutes : reader.before[m].requests > 0 => m <= reader.minute
        /\ \A age \in Buckets : reader.throughput[age] > 0 =>
              /\ reader.minute - age >= 0 /\ (reader.minute - age) % Ring < reader.at
              /\ reader.throughput[age] <= history'[reader.minute - age].requests
        /\ \A age \in Buckets :
              (/\ reader.minute - age >= 0 /\ (reader.minute - age) % Ring < reader.at
               /\ minuteNow - (reader.minute - age) < Ring)
              => reader.throughput[age] >= reader.before[reader.minute - age].requests
    BY DEF ReadSoFar
  <2>1. /\ reader.minute \in Minutes /\ \A age \in Buckets : age \in Nat /\ reader.throughput[age] \in Nat
        /\ \A m \in Minutes : reader.before[m].requests \in Nat
    BY ReaderTypes
  <2>2. \A m \in Minutes : history[m].requests <= history'[m].requests /\ history'[m].requests \in Nat
    BY <1>1
  <2>3. \A age \in Buckets : reader.minute - age >= 0 => reader.minute - age \in Minutes
    BY <2>1, MetricsSets DEF Minutes
  <2>4. ReadSoFar
    BY DEF MetricsInv
  <2>5. \A m \in Minutes : reader.before[m].requests <= history'[m].requests
    BY <1>1, <2>1, <2>2, <2>4 DEF ReadSoFar
  <2>6. ASSUME NEW age \in Buckets, reader.throughput[age] > 0
        PROVE  /\ reader.minute - age >= 0 /\ (reader.minute - age) % Ring < reader.at
               /\ reader.throughput[age] <= history'[reader.minute - age].requests
    <3>1. /\ reader.minute - age >= 0 /\ (reader.minute - age) % Ring < reader.at
          /\ reader.throughput[age] <= history[reader.minute - age].requests
      BY <2>4, <2>6 DEF ReadSoFar
    <3> PICK m : m = reader.minute - age
      OBVIOUS
    <3>2. m \in Minutes
      BY <2>3, <3>1
    <3>3. history[m].requests <= history'[m].requests /\ history'[m].requests \in Nat /\ history[m].requests \in Nat
      BY <1>1, <2>2, <3>2
    <3> QED
      BY <2>1, <3>1, <3>3
  <2> QED
    BY <2>4, <2>5, <2>6 DEF ReadSoFar
<1> QED
  BY <1>2, <1>3, <1>4, <1>7, <1>8, <1>9, <1>10, <1>11 DEF MetricsInv

(* stats() begins with nothing read.                                        *)
LEMMA StatsBeginsKeeps ==
  ASSUME MetricsInv, StatsBegins
  PROVE  MetricsInv'
<1>1. /\ reader' = [Idle EXCEPT !.at = 0, !.minute = minuteNow, !.before = history]
      /\ minuteNow' = minuteNow /\ minuteOf' = minuteOf /\ bucket' = bucket /\ totals' = totals /\ history' = history
  BY DEF StatsBegins
<1>2. /\ reader'.at = 0 /\ reader'.minute = minuteNow /\ reader'.before = history /\ reader'.sums = NoCounts
      /\ \A age \in Buckets : reader'.throughput[age] = 0
  BY <1>1 DEF Idle
<1>3. reader' \in [at : 0..Ring, minute : 0..NoMinute, sums : Counts,
                  throughput : [Buckets -> Nat], before : [Minutes -> Counts]]
  <2>1. NoCounts \in Counts
    BY DEF NoCounts, Counts
  <2>2. minuteNow \in 0..NoMinute /\ 0 \in 0..Ring /\ history \in [Minutes -> Counts]
    BY MetricsSets DEF MetricsInv, MetricsTyped, Minutes, NoMinute
  <2> QED
    BY <1>1, <2>1, <2>2 DEF Idle
<1>4. MetricsTyped'
  BY <1>1, <1>3 DEF MetricsInv, MetricsTyped
<1>5. RecordersInTime' /\ BucketsHold' /\ HistoryKept'
  BY <1>1 DEF MetricsInv, RecordersInTime, BucketsHold, HistoryKept
<1>6. TotalsHold' /\ \A i \in Buckets : ByLatency(bucket[i])'
  BY <1>1 DEF MetricsInv, TotalsHold, RequestsOf, ByLatency, UpTo
<1>7. ReaderAdds'
  <2>1. SumFunctionOnSet(reader'.throughput, Buckets) = 0
    BY <1>2, MetricsSets, SumZero
  <2> QED
    BY <1>2, <2>1 DEF ReaderAdds, NoCounts
<1>8. ByLatency(reader.sums)'
  <2>1. NoCounts \in Counts /\ NoCounts.max = 0
    BY DEF NoCounts, Counts
  <2>2. ByLatency(NoCounts)
    BY <2>1, NothingByLatency
  <2>3. ByLatency(reader'.sums)
    BY <1>2, <2>2
  <2> QED
    BY <2>3 DEF ByLatency, UpTo
<1>9. ReaderStopped'
  BY <1>2, MetricsSets DEF MetricsInv, MetricsTyped, ReaderStopped, Minutes, NoMinute
<1>10. ReadSoFar'
  <2>1. \A m \in Minutes : history[m].requests \in Nat /\ (history[m].requests > 0 => m <= minuteNow)
    BY DEF MetricsInv, MetricsTyped, HistoryKept, Counts
  <2>2. minuteNow \in Minutes /\ \A age \in Buckets : age \in Nat
    BY DEF MetricsInv, MetricsTyped, Buckets
  <2>3. \A age \in Buckets : ~((minuteNow - age) % Ring < 0)
    BY <2>2, MetricsSets DEF Minutes
  <2> QED
    BY <1>1, <1>2, <2>1, <2>2, <2>3 DEF ReadSoFar, Minutes
<1> QED
  BY <1>4, <1>5, <1>6, <1>7, <1>8, <1>9, <1>10 DEF MetricsInv

(* One minute is added to what stats() has summed.                          *)
LEMMA ThroughputGrows ==
  ASSUME NEW f, NEW h, NEW age \in Buckets, NEW d \in Nat,
         \A a \in Buckets : f[a] \in Nat /\ h[a] = IF a = age THEN f[a] + d ELSE f[a]
  PROVE  SumFunctionOnSet(h, Buckets) = SumFunctionOnSet(f, Buckets) + d
<1>1. IsFiniteSet(Buckets)
  BY MetricsSets
<1> QED
  BY <1>1, SumGrows

(* A bucket is read: it is added, in the window's place for its minute, or  *)
(* it belongs to another hour.                                              *)
LEMMA StatsReadsKeeps ==
  ASSUME MetricsInv, StatsReads
  PROVE  MetricsInv'
<1> PICK at : at = reader.at
  OBVIOUS
<1> PICK row : row = bucket[at]
  OBVIOUS
<1> PICK minute : minute = reader.minute
  OBVIOUS
<1> PICK b : b = row.minute
  OBVIOUS
<1>1. /\ minuteNow' = minuteNow /\ minuteOf' = minuteOf /\ bucket' = bucket /\ totals' = totals /\ history' = history
      /\ at < Ring
  BY DEF StatsReads
<1>2. at \in Buckets /\ at \in Nat /\ at + 1 \in 0..Ring /\ Ring \in Nat \ {0}
  BY <1>1, MetricsSets DEF MetricsInv, MetricsTyped, Buckets
<1>3. minute # NoMinute
  BY <1>1, MetricsSets DEF MetricsInv, ReaderStopped
<1>4. /\ minute \in Minutes /\ minute \in Nat /\ minute <= minuteNow /\ minuteNow \in Nat
      /\ row \in Rows /\ b \in 0..NoMinute /\ b \in Nat /\ row.requests \in Nat
      /\ b # NoMinute => b <= minuteNow /\ b % Ring = at /\ b \in Minutes /\ row.requests = history[b].requests
  <2>1. minute \in Minutes /\ minute <= minuteNow
    BY <1>3, ReaderTypes DEF MetricsInv, ReadSoFar
  <2>2. row \in Rows
    BY <1>2 DEF MetricsInv, MetricsTyped
  <2>3. b # NoMinute => b <= minuteNow /\ b % Ring = at /\ row.requests = history[b].requests
    BY <1>2 DEF MetricsInv, BucketsHold
  <2>4. b \in 0..NoMinute /\ row.requests \in Nat
    BY <2>2 DEF Rows
  <2>5. minuteNow \in Nat /\ minute \in Nat /\ b \in Nat /\ (b # NoMinute => b \in Minutes)
    BY <2>1, <2>4, MetricsSets DEF MetricsInv, MetricsTyped, Minutes, NoMinute
  <2> QED
    BY <2>1, <2>2, <2>3, <2>4, <2>5
<1>8. /\ \A m \in Minutes : m \in Nat /\ reader.before[m].requests \in Nat /\ history[m].requests \in Nat
      /\ \A age \in Buckets : age \in Nat /\ reader.throughput[age] \in Nat
      /\ \A age \in Buckets : minute - age >= 0 => minute - age \in Minutes
  <2>1. \A m \in Minutes : reader.before[m].requests \in Nat
    BY <1>3, ReaderTypes
  <2>2. \A age \in Buckets : age \in Nat /\ reader.throughput[age] \in Nat
    BY <1>3, ReaderTypes
  <2>3. \A m \in Minutes : m \in Nat /\ history[m].requests \in Nat
    <3>1. \A m \in Minutes : history[m].requests \in Nat
      BY DEF MetricsInv, MetricsTyped, Counts
    <3>2. \A m \in Minutes : m \in Nat
      BY DEF Minutes
    <3> QED
      BY <3>1, <3>2
  <2>4. \A age \in Buckets : minute - age >= 0 => minute - age \in Minutes
    BY <1>4, <2>2, MetricsSets DEF Minutes
  <2> QED
    BY <2>1, <2>2, <2>3, <2>4
<1>9. /\ \A m \in Minutes : reader.before[m].requests <= history[m].requests
      /\ \A age \in Buckets : reader.throughput[age] > 0 =>
            /\ minute - age >= 0 /\ (minute - age) % Ring < at
            /\ reader.throughput[age] <= history[minute - age].requests
      /\ \A age \in Buckets :
            (minute - age >= 0 /\ (minute - age) % Ring < at /\ minuteNow - (minute - age) < Ring)
            => reader.throughput[age] >= reader.before[minute - age].requests
      /\ \A m \in Minutes : reader.before[m].requests > 0 => m <= minute
  BY <1>3 DEF MetricsInv, ReadSoFar
(* A minute that was recorded in and is still held is the bucket's.         *)
<1>10. ASSUME NEW m \in Minutes, m % Ring = at, minuteNow - m < Ring, reader.before[m].requests > 0
       PROVE  b = m
  <2>1. history[m].requests > 0
    BY <1>8, <1>9, <1>10
  <2>2. b # NoMinute /\ b >= m
    BY <1>10, <2>1 DEF MetricsInv, HistoryKept
  <2>3. ASSUME b > m PROVE FALSE
    <3>1. m \in Nat /\ b % Ring = m % Ring
      BY <1>4, <1>8, <1>10, <2>2
    <3>2. m + Ring <= b
      BY <1>4, <2>3, <3>1, SameBucket
    <3> QED
      BY <1>2, <1>4, <1>10, <2>2, <3>1, <3>2
  <2> QED
    BY <1>4, <1>8, <2>2, <2>3
<1>11. ASSUME NEW m \in Minutes, m % Ring < at + 1, ~(m % Ring < at) PROVE m % Ring = at
  <2>1. m % Ring \in Nat
    BY <1>8, BucketOf DEF Buckets
  <2> QED
    BY <1>2, <1>11, <2>1
<1>12. ASSUME b # NoMinute, InWindow(row, minute)
       PROVE  MetricsTyped' /\ ReaderStopped' /\ ReaderAdds' /\ ReadSoFar' /\ ByLatency(reader.sums)'
  <2> PICK age : age = minute - b
    OBVIOUS
  <2>1. age \in Buckets /\ minute - age = b /\ b \in Minutes /\ b % Ring = at
    BY <1>2, <1>4, <1>12 DEF InWindow, Buckets
  <2>2. reader' = [reader EXCEPT !.at = at + 1, !.sums = Sum(reader.sums, row), !.throughput[age] = row.requests]
    BY <1>12 DEF StatsReads
  <2>3. /\ reader.sums \in Counts /\ ByLatency(reader.sums) /\ ByLatency(row)
        /\ reader \in [at : 0..Ring, minute : 0..NoMinute, sums : Counts,
                       throughput : [Buckets -> Nat], before : [Minutes -> Counts]]
    BY <1>2 DEF MetricsInv, MetricsTyped
  <2> DEFINE sums == Sum(reader.sums, row)
  <2>4. sums \in Counts /\ sums.requests = reader.sums.requests + row.requests /\ ByLatency(sums)
    BY <1>4, <2>3, SumKeeps
  <2> HIDE DEF sums
  <2>5. /\ reader'.at = at + 1 /\ reader'.minute = minute /\ reader'.before = reader.before
        /\ reader'.sums = sums /\ reader'.throughput \in [Buckets -> Nat]
        /\ \A a \in Buckets : reader'.throughput[a] = IF a = age THEN row.requests ELSE reader.throughput[a]
    BY <1>4, <2>1, <2>2, <2>3 DEF sums
  <2>6. reader' \in [at : 0..Ring, minute : 0..NoMinute, sums : Counts,
                    throughput : [Buckets -> Nat], before : [Minutes -> Counts]]
    BY <1>2, <1>4, <2>1, <2>2, <2>3, <2>4 DEF sums
  <2>7. MetricsTyped'
    BY <1>1, <2>6 DEF MetricsInv, MetricsTyped
  <2>8. ReaderStopped'
    BY <1>3, <2>5 DEF ReaderStopped
  <2>9. ByLatency(reader.sums)'
    <3>1. ByLatency(reader'.sums)
      BY <2>4, <2>5
    <3> QED
      BY <3>1 DEF ByLatency, UpTo
  <2>10. reader.throughput[age] = 0
    BY <1>2, <1>8, <1>9, <2>1
  <2>11. ReaderAdds'
    <3>1. reader.sums.requests = SumFunctionOnSet(reader.throughput, Buckets)
      BY DEF MetricsInv, ReaderAdds
    <3> DEFINE f == reader.throughput
               h == reader'.throughput
               d == row.requests
    <3>2. \A a \in Buckets : f[a] \in Nat /\ h[a] = IF a = age THEN f[a] + d ELSE f[a]
      BY <1>8, <2>5, <2>10
    <3>3. SumFunctionOnSet(h, Buckets) = SumFunctionOnSet(f, Buckets) + d
      <4>1. age \in Buckets /\ d \in Nat
        BY <1>4, <2>1
      <4> HIDE DEF f, h, d
      <4> QED
        BY <3>2, <4>1, ThroughputGrows, Zenon
    <3> QED
      BY <2>4, <2>5, <3>1, <3>3 DEF ReaderAdds
  <2>12. ReadSoFar'
    <3>1. ASSUME NEW a \in Buckets, reader'.throughput[a] > 0
          PROVE  /\ minute - a >= 0 /\ (minute - a) % Ring < at + 1
                 /\ reader'.throughput[a] <= history[minute - a].requests
      <4>1. CASE a = age
        <5>1. minute - a = b /\ b >= 0 /\ b % Ring < at + 1
          BY <1>2, <1>4, <2>1, <4>1
        <5>2. reader'.throughput[a] = row.requests /\ row.requests = history[b].requests
          BY <1>4, <1>12, <2>5, <4>1
        <5>3. row.requests <= history[b].requests
          BY <1>4, <5>2
        <5> QED
          BY <5>1, <5>2, <5>3
      <4>2. CASE a # age
        <5>1. /\ minute - a >= 0 /\ (minute - a) % Ring < at
              /\ reader'.throughput[a] <= history[minute - a].requests
          BY <1>9, <2>5, <3>1, <4>2
        <5>2. (minute - a) % Ring \in Nat
          BY <1>8, <5>1, BucketOf DEF Buckets
        <5> QED
          BY <1>2, <5>1, <5>2
      <4> QED
        BY <4>1, <4>2
    <3>2. ASSUME NEW a \in Buckets, minute - a >= 0, (minute - a) % Ring < at + 1,
                 minuteNow - (minute - a) < Ring
          PROVE  reader'.throughput[a] >= reader.before[minute - a].requests
      <4> PICK m : m = minute - a
        OBVIOUS
      <4>1. m \in Minutes /\ reader.before[m].requests \in Nat /\ m \in Nat
        BY <1>8, <3>2
      <4>2. CASE a = age
        <5>1. m = b
          BY <2>1, <4>2
        <5>2. reader'.throughput[a] = history[m].requests
          BY <1>4, <1>12, <2>5, <4>2, <5>1
        <5>3. reader.before[m].requests <= history[m].requests /\ history[m].requests \in Nat
          BY <1>8, <1>9, <4>1
        <5> QED
          BY <4>1, <5>2, <5>3
      <4>3. CASE a # age /\ m % Ring < at
        BY <1>9, <2>5, <3>2, <4>1, <4>3
      <4>4. CASE a # age /\ ~(m % Ring < at)
        <5>1. m % Ring = at
          BY <1>11, <3>2, <4>1, <4>4
        <5>2. m # b
          BY <1>4, <1>8, <4>4
        <5>3. ~(reader.before[m].requests > 0)
          BY <1>10, <3>2, <4>1, <5>1, <5>2
        <5>4. reader'.throughput[a] \in Nat
          BY <2>5
        <5> QED
          BY <4>1, <5>3, <5>4
      <4> QED
        BY <4>2, <4>3, <4>4
    <3> QED
      BY <1>1, <1>4, <1>9, <2>5, <3>1, <3>2 DEF ReadSoFar
  <2> QED
    BY <2>7, <2>8, <2>9, <2>11, <2>12
<1>13. ASSUME ~(b # NoMinute /\ InWindow(row, minute))
       PROVE  MetricsTyped' /\ ReaderStopped' /\ ReaderAdds' /\ ReadSoFar' /\ ByLatency(reader.sums)'
  <2>1. reader' = [reader EXCEPT !.at = at + 1]
    BY <1>13 DEF StatsReads
  <2>2. reader \in [at : 0..Ring, minute : 0..NoMinute, sums : Counts,
                   throughput : [Buckets -> Nat], before : [Minutes -> Counts]]
    BY DEF MetricsInv, MetricsTyped
  <2>3. /\ reader'.at = at + 1 /\ reader'.minute = minute /\ reader'.before = reader.before
        /\ reader'.sums = reader.sums /\ reader'.throughput = reader.throughput
    BY <2>1, <2>2
  <2>4. reader' \in [at : 0..Ring, minute : 0..NoMinute, sums : Counts,
                    throughput : [Buckets -> Nat], before : [Minutes -> Counts]]
    BY <1>2, <2>1, <2>2
  <2>5. MetricsTyped'
    BY <1>1, <2>4 DEF MetricsInv, MetricsTyped
  <2>6. ReaderStopped' /\ ReaderAdds' /\ ByLatency(reader.sums)'
    BY <1>3, <2>3 DEF MetricsInv, ReaderStopped, ReaderAdds, ByLatency, UpTo
  <2>7. ASSUME NEW a \in Buckets, reader.throughput[a] > 0
        PROVE  /\ minute - a >= 0 /\ (minute - a) % Ring < at + 1
               /\ reader.throughput[a] <= history[minute - a].requests
    <3>1. /\ minute - a >= 0 /\ (minute - a) % Ring < at
          /\ reader.throughput[a] <= history[minute - a].requests
      BY <1>9, <2>7
    <3>2. (minute - a) % Ring \in Nat
      BY <1>8, <3>1, BucketOf DEF Buckets
    <3> QED
      BY <1>2, <3>1, <3>2
  <2>8. ASSUME NEW a \in Buckets, minute - a >= 0, (minute - a) % Ring < at + 1,
               minuteNow - (minute - a) < Ring
        PROVE  reader.throughput[a] >= reader.before[minute - a].requests
    <3> PICK m : m = minute - a
      OBVIOUS
    <3>1. m \in Minutes /\ reader.before[m].requests \in Nat /\ reader.throughput[a] \in Nat /\ m \in Nat
      BY <1>8, <2>8
    <3>2. CASE m % Ring < at
      BY <1>9, <2>8, <3>2
    <3>3. CASE ~(m % Ring < at)
      <4>1. m % Ring = at
        BY <1>11, <2>8, <3>1, <3>3
      <4>2. ASSUME b = m PROVE FALSE
        <5>1. m # NoMinute
          BY <3>1, MetricsSets DEF Minutes, NoMinute
        <5>2. InWindow(row, minute)
          <6>1. a \in 0..Ring - 1
            BY DEF Buckets
          <6> QED
            BY <1>2, <1>4, <3>1, <4>2, <6>1 DEF InWindow
        <5> QED
          BY <1>13, <4>2, <5>1, <5>2
      <4>3. ~(reader.before[m].requests > 0)
        BY <1>10, <2>8, <3>1, <4>1, <4>2
      <4> QED
        BY <3>1, <4>3
    <3> QED
      BY <3>2, <3>3
  <2>9. ReadSoFar'
    BY <1>1, <1>4, <1>9, <2>3, <2>7, <2>8 DEF ReadSoFar
  <2> QED
    BY <2>5, <2>6, <2>9
<1>5. MetricsTyped' /\ ReaderStopped' /\ ReaderAdds' /\ ReadSoFar' /\ ByLatency(reader.sums)'
  BY <1>12, <1>13
<1>6. RecordersInTime' /\ BucketsHold' /\ HistoryKept'
  BY <1>1 DEF MetricsInv, RecordersInTime, BucketsHold, HistoryKept
<1>7. TotalsHold' /\ \A i \in Buckets : ByLatency(bucket[i])'
  BY <1>1 DEF MetricsInv, TotalsHold, RequestsOf, ByLatency, UpTo
<1> QED
  BY <1>5, <1>6, <1>7 DEF MetricsInv

(* Every step keeps the invariant.                                          *)
LEMMA MetricsStepInv ==
  ASSUME MetricsInv, [MetricsNext]_metricsVars
  PROVE  MetricsInv'
<1>1. CASE MinutePasses
  BY <1>1, MinutePassesKeeps
<1>2. ASSUME NEW p \in Recorders, ReadsClock(p) \/ RecordLost(p)
      PROVE  MetricsInv'
  BY <1>2, RecorderMovesKeeps
<1>3. ASSUME NEW p \in Recorders, Record(p, {}) PROVE MetricsInv'
  BY <1>3, RecordKeeps
<1>4. ASSUME NEW p \in Recorders, NEW l \in Latencies, Record(p, {l}) PROVE MetricsInv'
  BY <1>4, RecordKeeps
<1>5. CASE StatsBegins
  BY <1>5, StatsBeginsKeeps
<1>6. CASE StatsReads
  BY <1>6, StatsReadsKeeps
<1>7. CASE UNCHANGED metricsVars
  <2>1. MetricsTyped' /\ RecordersInTime' /\ BucketsHold' /\ HistoryKept' /\ ReadSoFar' /\ ReaderStopped'
    BY <1>7 DEF metricsVars, MetricsInv, MetricsTyped, RecordersInTime, BucketsHold, HistoryKept,
                ReadSoFar, ReaderStopped
  <2>2. TotalsHold' /\ ReaderAdds' /\ ByLatency(reader.sums)' /\ \A i \in Buckets : ByLatency(bucket[i])'
    BY <1>7 DEF metricsVars, MetricsInv, TotalsHold, RequestsOf, ReaderAdds, ByLatency, UpTo
  <2> QED
    BY <2>1, <2>2 DEF MetricsInv
<1> QED
  BY <1>1, <1>2, <1>3, <1>4, <1>5, <1>6, <1>7 DEF MetricsNext

(* What stats() returns, once it has read the whole ring.                   *)
LEMMA MetricsInvHonest == MetricsInv => MetricsHonest
<1> SUFFICES ASSUME MetricsInv PROVE MetricsHonest
  OBVIOUS
<1>1. totals.requests = SumFunction([m \in 0..MaxMinute |-> history[m].requests])
  BY DEF MetricsInv, TotalsHold, RequestsOf, SumFunction, Minutes
<1>2. StatsPercentiles
  <2> SUFFICES ASSUME Timed(reader.sums) > 0, NEW share \in {50, 95}
      PROVE  /\ TruePercentile(reader.sums, share) <= Percentile(reader.sums, share)
             /\ Percentile(reader.sums, share) <= Max({l \in Latencies : reader.sums.exact[l] > 0})
             /\ BoundOf(Percentile(reader.sums, share)) = BoundOf(TruePercentile(reader.sums, share))
    BY DEF StatsPercentiles
  <2>1. reader.sums \in Counts /\ ByLatency(reader.sums)
    BY DEF MetricsInv, MetricsTyped
  <2> QED
    BY <2>1, PercentileIsClose
<1>3. StatsCount
  <2> SUFFICES ASSUME reader.at = Ring, reader.minute # NoMinute
      PROVE  /\ reader.sums.requests = SumFunction(reader.throughput)
             /\ \A age \in Buckets :
                  LET m == reader.minute - age
                  IN IF m < 0 THEN reader.throughput[age] = 0
                     ELSE /\ reader.throughput[age] <= history[m].requests
                          /\ minuteNow - m < Ring =>
                               reader.throughput[age] >= reader.before[m].requests
    BY DEF StatsCount
  <2>1. reader.sums.requests = SumFunction(reader.throughput)
    <3>1. DOMAIN reader.throughput = Buckets
      BY DEF MetricsInv, MetricsTyped
    <3> QED
      BY <3>1 DEF MetricsInv, ReaderAdds, SumFunction
  <2> SUFFICES ASSUME NEW age \in Buckets
      PROVE  IF reader.minute - age < 0 THEN reader.throughput[age] = 0
             ELSE /\ reader.throughput[age] <= history[reader.minute - age].requests
                  /\ minuteNow - (reader.minute - age) < Ring =>
                       reader.throughput[age] >= reader.before[reader.minute - age].requests
    BY <2>1
  <2>2. age \in Nat /\ reader.throughput[age] \in Nat /\ reader.minute \in Minutes /\ reader.minute \in Nat
    BY ReaderTypes DEF Minutes
  <2>3. reader.throughput[age] > 0 =>
           reader.minute - age >= 0 /\ reader.throughput[age] <= history[reader.minute - age].requests
    BY DEF MetricsInv, ReadSoFar
  <2> PICK m : m = reader.minute - age
    OBVIOUS
  <2>4. CASE m < 0
    BY <2>2, <2>3, <2>4
  <2>5. CASE ~(m < 0)
    <3>1. m \in Minutes /\ m \in Nat /\ m % Ring < reader.at
      <4>1. m \in Minutes /\ m \in Nat
        BY <2>2, <2>5, MetricsSets DEF Minutes
      <4>2. m % Ring \in Buckets
        BY <4>1, BucketOf
      <4> QED
        BY <4>1, <4>2, MetricsSets DEF Buckets
    <3>2. history[m].requests \in Nat
      BY <3>1 DEF MetricsInv, MetricsTyped, Counts
    <3>3. reader.throughput[age] <= history[m].requests
      BY <2>2, <2>3, <3>2
    <3>4. minuteNow - m < Ring => reader.throughput[age] >= reader.before[m].requests
      BY <3>1 DEF MetricsInv, ReadSoFar
    <3> QED
      BY <2>5, <3>3, <3>4
  <2> QED
    BY <2>4, <2>5
<1> QED
  BY <1>1, <1>2, <1>3 DEF MetricsHonest

(* Metrics: for any ring, bounds and number of recorders that are no later  *)
(* than it is long, the totals are those of all minutes, what stats()       *)
(* returns counts every record stored before it began that is still in its  *)
(* window and none twice or of another hour, and its percentiles lie in the *)
(* bucket of the true ones.                                                 *)
THEOREM MetricsAreHonest == MetricsSpec => []MetricsHonest
<1>1. MetricsInit => MetricsInv
  BY MetricsInitInv
<1>2. MetricsInv /\ [MetricsNext]_metricsVars => MetricsInv'
  BY MetricsStepInv
<1>3. MetricsInv => MetricsHonest
  BY MetricsInvHonest
<1> QED
  BY <1>1, <1>2, <1>3, PTL DEF MetricsSpec

-----------------------------------------------------------------------------
(* Response bodies.  The loop over a chunk is a fold over its units; what   *)
(* is true of it after n units of the wire is said without chunks.          *)

(* The decoder has taken the first n units: it is at its member's end       *)
(* exactly where the wire says so.                                          *)
DecoderAfter(state, n) ==
    Compressed /\ n > 0 => state = IF wire[n] = "end" THEN "eof" ELSE "inside"

(* What the loop over a chunk knows after the first n units of the wire.    *)
Fed(so, n) ==
    /\ so \in [ends : {"reading", "truncated", "error"},
               state : {"none", "open", "inside", "eof"}, size : 0..ByteLimit]
    /\ so.ends = "reading" =>
          /\ Valid(n) /\ so.size = Size(n) /\ DecoderAfter(so.state, n)
          /\ Compressed /\ n = 0 => so.state = "open"
    /\ so.ends = "truncated" =>
          so.size = ByteLimit /\ \E i \in 0..n : Valid(i) /\ Size(i) > ByteLimit
    /\ so.ends = "error" => ~Valid(n)

(* The whole wire is valid, and ends a member.                              *)
Whole == Valid(Len(wire)) /\ (Compressed => Len(wire) > 0 /\ wire[Len(wire)] = "end")

(* What an answer that was given says of the wire.                          *)
BodyDecided ==
    \/ verdict.ends = "complete" /\ Whole /\ verdict.size = Size(Len(wire))
    \/ /\ verdict.ends = "truncated" /\ verdict.size = ByteLimit
       /\ \E i \in 0..Len(wire) : Valid(i) /\ Size(i) > ByteLimit
    \/ /\ verdict.ends = "truncated" /\ verdict.size = Size(WireLimit)
       /\ Len(wire) > WireLimit /\ Valid(WireLimit)
    \/ verdict.ends = "error" /\ (breaks \/ encoding = "unsupported" \/ ~Whole)

(* The argument: as long as the answer is open, everything read so far is a *)
(* valid beginning, decoded completely and within the limit.                *)
BodyInv ==
    /\ BodyTypeOK
    /\ wire \in Seq(Units)
    /\ read <= WireLimit
    /\ \/ /\ verdict = Reading /\ Valid(read) /\ data = Size(read)
          /\ DecoderAfter(decoder, read)
          /\ read = 0 => decoder = "none"
       \/ BodyDecided

-----------------------------------------------------------------------------
(* FoldLeft folds from the greatest position down; what it unrolls.         *)
Top(s) == CHOOSE x \in s : \A y \in s : x >= y
FedUpTo(g, start, chunk, s) ==
    IF s = {} THEN start ELSE Feed(g[s \ {Top(s)}], chunk[Top(s)])

(* What FoldLeft computes over a chunk: the loop's state unit by unit.      *)
LEMMA LoopUnfolds ==
  ASSUME NEW start, NEW chunk \in Seq(Units)
  PROVE  \E st : /\ st = [k \in 0..Len(chunk) |-> st[k]]
                 /\ st[0] = start
                 /\ \A k \in 1..Len(chunk) : st[k] = Feed(st[k - 1], chunk[k])
                 /\ FoldLeft(Feed, start, chunk) = st[Len(chunk)]
<1> DEFINE D == 1..Len(chunk)
           Upto(n) == {s \in SUBSET D : Cardinality(s) <= n}
           G == {n \in Nat : \E g : g = [s \in Upto(n) |-> FedUpTo(g, start, chunk, s)]}
<1>0. Len(chunk) \in Nat /\ DOMAIN chunk = D
  OBVIOUS
<1>1. IsFiniteSet(D) /\ \A s \in SUBSET D : IsFiniteSet(s) /\ Cardinality(s) \in Nat
  <2>1. IsFiniteSet(D)
    <3>1. 1 \in Int /\ Len(chunk) \in Int
      BY <1>0
    <3> QED
      BY <3>1, FS_Interval
  <2> QED
    BY <2>1, FS_Subset, FS_CardinalityType
<1>t. ASSUME NEW s \in SUBSET D, s # {}
      PROVE  Top(s) \in s /\ \A y \in s : Top(s) >= y
  <2>1. s \in SUBSET (0..Len(chunk))
    BY <1>0
  <2>2. PICK x \in s : \A y \in s : y <= x
    BY <1>0, <1>t, <2>1, GreatestNatural
  <2>3. \A y \in s : x >= y
    BY <2>1, <2>2
  <2> HIDE DEF D
  <2> QED
    BY <2>3 DEF Top
<1> HIDE DEF D
<1>2. 0 \in G
  <2> DEFINE g == [s \in Upto(0) |-> start]
  <2>1. \A s \in Upto(0) : s = {}
    BY <1>1, FS_EmptySet
  <2>2. g = [s \in Upto(0) |-> FedUpTo(g, start, chunk, s)]
    BY <2>1 DEF FedUpTo
  <2> HIDE DEF g
  <2> QED
    BY <2>2
<1>3. ASSUME NEW n \in G PROVE n + 1 \in G
  <2>1. PICK g : g = [s \in Upto(n) |-> FedUpTo(g, start, chunk, s)]
    OBVIOUS
  <2> DEFINE h == [s \in Upto(n + 1) |-> FedUpTo(g, start, chunk, s)]
  <2>2. ASSUME NEW s \in Upto(n + 1) PROVE FedUpTo(g, start, chunk, s) = FedUpTo(h, start, chunk, s)
    <3>1. CASE s = {}
      BY <3>1 DEF FedUpTo
    <3>2. CASE s # {}
      <4> DEFINE t == s \ {Top(s)}
      <4>1. Top(s) \in s
        BY <1>t, <3>2
      <4>2. Cardinality(t) = Cardinality(s) - 1
        BY <1>1, <4>1, FS_RemoveElement
      <4>3. t \in Upto(n) /\ t \in Upto(n + 1)
        BY <1>1, <1>3, <4>2
      <4> HIDE DEF t
      <4>4. g[t] = h[t]
        BY <2>1, <4>3
      <4> QED
        BY <3>2, <4>4 DEF FedUpTo, t
    <3> QED
      BY <3>1, <3>2
  <2>3. h = [s \in Upto(n + 1) |-> FedUpTo(h, start, chunk, s)]
    BY <2>2
  <2> HIDE DEF h, Upto
  <2>4. n + 1 \in Nat
    BY <1>3
  <2> QED
    BY <2>3, <2>4
<1>4. Cardinality(D) \in G
  <2> HIDE DEF G
  <2>1. G \in SUBSET Nat
    BY DEF G
  <2> QED
    BY <1>1, <1>2, <1>3, <2>1, NaturalsInductionSet
<1>5. Upto(Cardinality(D)) = SUBSET D
  BY <1>1, FS_Subset
<1>6. \E g : g = [s \in SUBSET D |-> FedUpTo(g, start, chunk, s)]
  BY <1>4, <1>5
<1>7. FoldLeft(Feed, start, chunk)
        = (CHOOSE g : g = [s \in SUBSET D |-> FedUpTo(g, start, chunk, s)])[D]
  <2>1. FoldLeft(Feed, start, chunk)
        = (CHOOSE g : g = [s \in SUBSET DOMAIN chunk |-> FedUpTo(g, start, chunk, s)])[DOMAIN chunk]
    BY DEF FoldLeft, MapThenFoldSet, Max, FedUpTo, Top
  <2> QED
    BY <1>0, <2>1
<1> DEFINE g == CHOOSE g : g = [s \in SUBSET D |-> FedUpTo(g, start, chunk, s)]
<1>8. g = [s \in SUBSET D |-> FedUpTo(g, start, chunk, s)] /\ FoldLeft(Feed, start, chunk) = g[D]
  BY <1>6, <1>7
<1> HIDE DEF g
<1> DEFINE st == [k \in 0..Len(chunk) |-> g[1..k]]
<1>9. st[0] = start
  <2>1. 1..0 = {}
    OBVIOUS
  <2>2. g[{}] = start
    BY <1>8 DEF FedUpTo
  <2> QED
    BY <1>0, <2>1, <2>2
<1>10. ASSUME NEW k \in 1..Len(chunk) PROVE st[k] = Feed(st[k - 1], chunk[k])
  <2>1. 1..k \in SUBSET D /\ 1..k # {} /\ k \in 1..k /\ k \in Nat
    <3>1. k \in Nat /\ 1 <= k /\ k <= Len(chunk)
      BY <1>0
    <3>2. ASSUME NEW y \in 1..k PROVE y \in 1..Len(chunk)
      BY <1>0, <3>1
    <3>3. k \in 1..k
      BY <3>1
    <3> QED
      BY <3>1, <3>2, <3>3 DEF D
  <2>2. Top(1..k) = k
    <3>1. Top(1..k) \in 1..k /\ \A y \in 1..k : Top(1..k) >= y
      BY <1>t, <2>1
    <3>2. Top(1..k) >= k /\ Top(1..k) <= k /\ Top(1..k) \in Int
      BY <2>1, <3>1
    <3> QED
      BY <2>1, <3>2
  <2>3. (1..k) \ {k} = 1..(k - 1)
    BY <2>1
  <2>4. g[1..k] = Feed(g[1..(k - 1)], chunk[k])
    BY <1>8, <2>1, <2>2, <2>3 DEF FedUpTo
  <2> QED
    BY <1>0, <2>4
<1>11. FoldLeft(Feed, start, chunk) = st[Len(chunk)]
  BY <1>0, <1>8 DEF D
<1>12. st = [k \in 0..Len(chunk) |-> st[k]]
  OBVIOUS
<1> HIDE DEF st
<1> QED
  BY <1>9, <1>10, <1>11, <1>12

-----------------------------------------------------------------------------
(* The units of a kind are counted.                                         *)
LEMMA OfType == ASSUME NEW unit, NEW n \in Nat PROVE Of(unit, n) \in Nat
<1>1. IsFiniteSet(1..n)
  <2>1. 1 \in Int /\ n \in Int
    OBVIOUS
  <2> QED
    BY <2>1, FS_Interval
<1> QED
  BY <1>1, FS_Subset, FS_CardinalityType DEF Of

(* The next unit counts, or not.                                            *)
LEMMA OfNext ==
  ASSUME NEW unit, NEW n \in Nat
  PROVE  Of(unit, n + 1) = IF wire[n + 1] = unit THEN Of(unit, n) + 1 ELSE Of(unit, n)
<1> DEFINE S == {i \in 1..n : wire[i] = unit}
           T == {i \in 1..(n + 1) : wire[i] = unit}
<1>1. IsFiniteSet(S)
  <2>1. 1 \in Int /\ n \in Int
    OBVIOUS
  <2>2. IsFiniteSet(1..n)
    BY <2>1, FS_Interval
  <2> QED
    BY <2>2, FS_Subset
<1>2. CASE wire[n + 1] = unit
  <2>1. T = S \cup {n + 1} /\ n + 1 \notin S
    BY <1>2
  <2> HIDE DEF S, T
  <2>2. Cardinality(T) = Cardinality(S) + 1
    BY <1>1, <2>1, FS_AddElement
  <2> QED
    BY <1>2, <2>2 DEF Of, S, T
<1>3. CASE wire[n + 1] # unit
  <2>1. T = S
    BY <1>3
  <2> QED
    BY <1>3, <2>1 DEF Of
<1> QED
  BY <1>2, <1>3

(* More of the wire holds no fewer of them.                                 *)
LEMMA OfGrows ==
  ASSUME NEW unit, NEW n \in Nat, NEW m \in 0..n
  PROVE  Of(unit, m) <= Of(unit, n)
<1> DEFINE S == {i \in 1..m : wire[i] = unit}
           T == {i \in 1..n : wire[i] = unit}
<1>1. IsFiniteSet(T)
  <2>1. 1 \in Int /\ n \in Int
    OBVIOUS
  <2>2. IsFiniteSet(1..n)
    BY <2>1, FS_Interval
  <2> QED
    BY <2>2, FS_Subset
<1>2. S \subseteq T
  OBVIOUS
<1> HIDE DEF S, T
<1>3. Cardinality(S) <= Cardinality(T)
  BY <1>1, <1>2, FS_Subset
<1> QED
  BY <1>3 DEF Of, S, T

(* The bytes that the next unit becomes.                                    *)
Becomes(unit) == IF unit = "one" THEN 1 ELSE IF unit = "many" THEN Many ELSE 0

(* One unit more: the size grows by what it becomes.                        *)
LEMMA SizeNext ==
  ASSUME NEW n \in Nat
  PROVE  /\ Size(n) \in Nat
         /\ Compressed => Size(n + 1) = Size(n) + Becomes(wire[n + 1])
         /\ ~Compressed => Size(n + 1) = Size(n) + 1
<1> DEFINE a == Of("one", n)
           b == Of("many", n)
           c == Of("one", n + 1)
           d == Of("many", n + 1)
<1>1. a \in Nat /\ b \in Nat /\ Many \in Nat
  BY OfType, BodyReaderAssumption
<1>2. /\ c = IF wire[n + 1] = "one" THEN a + 1 ELSE a
      /\ d = IF wire[n + 1] = "many" THEN b + 1 ELSE b
  BY OfNext, Zenon
<1> HIDE DEF a, b, c, d
<1>3. Many * b \in Nat /\ Many * (b + 1) = Many * b + Many
  BY <1>1
<1>4. c + Many * d = (a + Many * b) + Becomes(wire[n + 1])
  <2>1. CASE wire[n + 1] = "many"
    BY <1>1, <1>2, <1>3, <2>1 DEF Becomes
  <2>2. CASE wire[n + 1] # "many"
    BY <1>1, <1>2, <1>3, <2>2 DEF Becomes
  <2> QED
    BY <2>1, <2>2
<1>5. a + Many * b \in Nat
  BY <1>1, <1>3
<1> QED
  BY <1>4, <1>5 DEF Size, a, b, c, d

(* More of the wire is no smaller.                                          *)
LEMMA SizeGrows ==
  ASSUME NEW n \in Nat, NEW m \in 0..n
  PROVE  Size(m) <= Size(n)
<1> DEFINE a == Of("one", m)
           b == Of("many", m)
           c == Of("one", n)
           d == Of("many", n)
<1>1. a \in Nat /\ b \in Nat /\ c \in Nat /\ d \in Nat /\ Many \in Nat
  BY OfType, BodyReaderAssumption
<1>2. a <= c /\ b <= d
  BY OfGrows
<1> HIDE DEF a, b, c, d
<1>3. PICK e \in Nat : d = b + e
  BY <1>1, <1>2
<1>4. Many * d = Many * b + Many * e /\ Many * e \in Nat /\ Many * b \in Nat
  BY <1>1, <1>3
<1>5. a + Many * b <= c + Many * d
  BY <1>1, <1>2, <1>4
<1> QED
  BY <1>5 DEF Size, a, b, c, d

(* A beginning of a valid beginning is valid.                               *)
LEMMA ValidBefore ==
  ASSUME NEW n \in Nat, NEW m \in 0..n, Valid(n)
  PROVE  Valid(m)
BY DEF Valid

(* A valid beginning stays valid exactly with the unit that fits.           *)
LEMMA ValidNext ==
  ASSUME NEW n \in Nat, Valid(n), Compressed
  PROVE  Valid(n + 1) <=> /\ wire[n + 1] # "junk"
                          /\ Begins(n + 1) <=> wire[n + 1] = "open"
                          /\ encoding = "deflate" => \A e \in Ends : e >= n + 1
<1>1. 1..(n + 1) = (1..n) \cup {n + 1}
  OBVIOUS
<1> QED
  BY <1>1 DEF Valid

(* A member begins where the one before has ended.                          *)
LEMMA BeginsNext ==
  ASSUME NEW n \in Nat
  PROVE  Begins(n + 1) <=> n = 0 \/ wire[n] = "end"
BY DEF Begins

(* One unit: whatever the loop makes of it is what the wire says.           *)
LEMMA FeedKeeps ==
  ASSUME wire \in Seq(Units), encoding \in Encodings, NEW n \in Nat, n < Len(wire),
         NEW so, Fed(so, n)
  PROVE  Fed(Feed(so, wire[n + 1]), n + 1)
<1> DEFINE u == wire[n + 1]
           S == Size(n)
<1>1. u \in Units /\ Len(wire) \in Nat /\ n + 1 \in Nat /\ n \in 0..(n + 1) /\ n + 1 \in 1..Len(wire)
  OBVIOUS
<1>2. /\ S \in Nat
      /\ Compressed => Size(n + 1) = S + Becomes(u)
      /\ ~Compressed => Size(n + 1) = S + 1
  BY SizeNext, Zenon
<1>3. ByteLimit \in Nat /\ Many \in Nat
  BY BodyReaderAssumption
<1>4. /\ so \in [ends : {"reading", "truncated", "error"},
                 state : {"none", "open", "inside", "eof"}, size : 0..ByteLimit]
      /\ so = [ends |-> so.ends, state |-> so.state, size |-> so.size]
  BY DEF Fed
<1>5. CASE so.ends # "reading"
  <2>1. Feed(so, u) = so
    BY <1>5 DEF Feed
  <2>2. so.ends = "truncated" =>
          so.size = ByteLimit /\ \E i \in 0..(n + 1) : Valid(i) /\ Size(i) > ByteLimit
    BY DEF Fed
  <2>3. so.ends = "error" => ~Valid(n + 1)
    BY <1>1, ValidBefore DEF Fed
  <2> HIDE DEF u
  <2> QED
    BY <1>4, <1>5, <2>1, <2>2, <2>3 DEF Fed, u
<1>6. CASE so.ends = "reading" /\ ~Compressed
  <2>1. Valid(n + 1)
    BY <1>6 DEF Valid
  <2>2. so.size = S /\ S <= ByteLimit
    BY <1>4, <1>6 DEF Fed
  <2>3. CASE S + 1 > ByteLimit
    <3>1. Feed(so, u) = [so EXCEPT !.ends = "truncated"]
      BY <1>6, <2>2, <2>3 DEF Feed
    <3>2. Size(n + 1) > ByteLimit /\ S = ByteLimit
      BY <1>2, <1>3, <1>6, <2>2, <2>3
    <3> HIDE DEF u, S
    <3> QED
      BY <1>1, <1>4, <2>1, <2>2, <3>1, <3>2 DEF Fed, u
  <2>4. CASE S + 1 <= ByteLimit
    <3>1. Feed(so, u) = [so EXCEPT !.size = S + 1]
      BY <1>2, <1>3, <1>6, <2>2, <2>4 DEF Feed
    <3>2. S + 1 \in 0..ByteLimit /\ Size(n + 1) = S + 1
      BY <1>2, <1>3, <1>6, <2>4
    <3> HIDE DEF u, S
    <3> QED
      BY <1>4, <1>6, <2>1, <3>1, <3>2 DEF Fed, u, DecoderAfter
  <2> QED
    BY <1>2, <1>3, <2>3, <2>4
<1>7. CASE so.ends = "reading" /\ Compressed
  <2>0. encoding \in {"gzip", "deflate"}
    BY <1>7 DEF Compressed
  <2>1. Valid(n) /\ so.size = S /\ S <= ByteLimit
    BY <1>4, <1>7 DEF Fed
  <2>2. /\ n = 0 => so.state = "open"
        /\ n > 0 => so.state = IF wire[n] = "end" THEN "eof" ELSE "inside"
    BY <1>7 DEF Fed, DecoderAfter
  <2>3. /\ Valid(n + 1) <=> /\ u # "junk"
                            /\ Begins(n + 1) <=> u = "open"
                            /\ encoding = "deflate" => \A e \in Ends : e >= n + 1
        /\ Begins(n + 1) <=> n = 0 \/ wire[n] = "end"
    BY <1>7, <2>1, ValidNext, BeginsNext
  <2>4. CASE so.state = "eof" /\ encoding # "gzip"
    <3>1. Feed(so, u) = [so EXCEPT !.ends = "error"]
      BY <1>7, <2>4 DEF Feed
    <3>2. n > 0 /\ wire[n] = "end"
      BY <2>2, <2>4
    <3>3. n \in Ends
      BY <1>1, <3>2 DEF Ends
    <3>4. ~Valid(n + 1)
      BY <2>0, <2>3, <2>4, <3>3
    <3> HIDE DEF u, S
    <3> QED
      BY <1>4, <3>1, <3>4 DEF Fed, u
  <2>5. CASE ~(so.state = "eof" /\ encoding # "gzip")
    <3> DEFINE step == Inflated(NextMember(so.state), u)
    <3>1. Feed(so, u) = IF step.state = "error" THEN [so EXCEPT !.ends = "error"]
                        ELSE IF so.size + step.out > ByteLimit
                             THEN [so EXCEPT !.ends = "truncated", !.size = ByteLimit]
                        ELSE [so EXCEPT !.state = step.state, !.size = so.size + step.out]
      BY <1>7, <2>5 DEF Feed
    <3>2. NextMember(so.state) = IF Begins(n + 1) THEN "open" ELSE "inside"
      BY <1>4, <2>2, <2>3 DEF NextMember
    <3>3. CASE step.state = "error"
      <4>1. ~Valid(n + 1)
        <5>1. ~(u # "junk" /\ (Begins(n + 1) <=> u = "open"))
          BY <1>1, <3>2, <3>3 DEF Inflated, Units
        <5> QED
          BY <2>3, <5>1
      <4> HIDE DEF u, S, step
      <4> QED
        BY <1>4, <3>1, <3>3, <4>1 DEF Fed, u
    <3>4. CASE step.state # "error"
      <4>1. /\ u # "junk" /\ (Begins(n + 1) <=> u = "open")
            /\ step.state = IF u = "end" THEN "eof" ELSE "inside"
            /\ step.out = Becomes(u)
        BY <1>1, <3>2, <3>4 DEF Inflated, Units, Becomes
      <4>2. ASSUME encoding = "deflate", NEW e \in Ends PROVE e >= n + 1
        <5>1. e \in 1..Len(wire) /\ wire[e] = "end"
          BY <4>2 DEF Ends
        <5>2. CASE n = 0
          BY <5>1, <5>2
        <5>3. CASE n > 0
          <6>1. e >= n
            <7>1. n \in 1..n
              BY <5>3
            <7> QED
              BY <1>7, <2>1, <4>2, <7>1 DEF Valid
          <6>2. wire[n] # "end"
            BY <2>2, <2>5, <4>2, <5>3
          <6> QED
            BY <5>1, <6>1, <6>2
        <5> QED
          BY <5>2, <5>3
      <4>3. Valid(n + 1)
        BY <2>3, <4>1, <4>2
      <4>4. Becomes(u) \in Nat /\ Size(n + 1) = S + Becomes(u)
        BY <1>2, <1>3, <1>7 DEF Becomes
      <4> HIDE DEF u, S, step
      <4>5. CASE S + Becomes(u) > ByteLimit
        <5>1. Feed(so, u) = [so EXCEPT !.ends = "truncated", !.size = ByteLimit]
          BY <2>1, <3>1, <3>4, <4>1, <4>5
        <5>2. \E i \in 0..(n + 1) : Valid(i) /\ Size(i) > ByteLimit
          BY <1>1, <4>3, <4>4, <4>5
        <5>3. ByteLimit \in 0..ByteLimit
          BY <1>3
        <5> QED
          BY <1>4, <5>1, <5>2, <5>3 DEF Fed, u
      <4>6. CASE S + Becomes(u) <= ByteLimit
        <5>1. Feed(so, u) = [so EXCEPT !.state = step.state, !.size = S + Becomes(u)]
          BY <1>2, <1>3, <2>1, <3>1, <3>4, <4>1, <4>4, <4>6
        <5>2. S + Becomes(u) \in 0..ByteLimit
          BY <1>2, <1>3, <4>4, <4>6
        <5>3. DecoderAfter(step.state, n + 1)
          BY <4>1 DEF DecoderAfter, u
        <5>4. step.state \in {"eof", "inside"} /\ n + 1 # 0
          BY <4>1
        <5> HIDE DEF DecoderAfter
        <5> QED
          BY <1>4, <1>7, <4>3, <4>4, <5>1, <5>2, <5>3, <5>4 DEF Fed, u
      <4> QED
        BY <1>2, <1>3, <4>4, <4>5, <4>6
    <3> QED
      BY <3>3, <3>4
  <2> QED
    BY <2>4, <2>5
<1> QED
  BY <1>5, <1>6, <1>7

-----------------------------------------------------------------------------
(* So the loop over a chunk ends where the wire says it must.               *)
LEMMA ChunkKeeps ==
  ASSUME wire \in Seq(Units), encoding \in Encodings, NEW n \in Nat,
         NEW chunk \in Seq(Units), n + Len(chunk) <= Len(wire),
         \A k \in 1..Len(chunk) : chunk[k] = wire[n + k],
         NEW start, Fed(start, n)
  PROVE  Fed(FoldLeft(Feed, start, chunk), n + Len(chunk))
<1> DEFINE m == Len(chunk)
<1>1. m \in Nat /\ n + m <= Len(wire) /\ \A k \in 1..m : chunk[k] = wire[n + k]
  OBVIOUS
<1>2. PICK st : /\ st = [k \in 0..Len(chunk) |-> st[k]]
                /\ st[0] = start
                /\ \A k \in 1..Len(chunk) : st[k] = Feed(st[k - 1], chunk[k])
                /\ FoldLeft(Feed, start, chunk) = st[Len(chunk)]
  BY LoopUnfolds, Zenon
<1> HIDE DEF m
<1> DEFINE G == {k \in Nat : k <= m => Fed(st[k], n + k)}
<1>3. 0 \in G
  BY <1>2
<1>4. ASSUME NEW k \in G PROVE k + 1 \in G
  <2>1. k \in Nat /\ k + 1 \in Nat /\ n + k \in Nat /\ (n + k) + 1 = n + (k + 1)
    BY <1>4
  <2>2. ASSUME k + 1 <= m PROVE Fed(st[k + 1], n + (k + 1))
    <3>0. Len(wire) \in Nat
      OBVIOUS
    <3>1. n + k < Len(wire) /\ k <= m /\ k + 1 \in 1..m /\ (k + 1) - 1 = k
      BY <1>1, <2>1, <2>2, <3>0
    <3>4. Fed(st[k], n + k)
      BY <1>4, <3>1
    <3>2. st[k + 1] = Feed(st[k], wire[(n + k) + 1])
      BY <1>1, <1>2, <2>1, <3>1 DEF m
    <3>3. Fed(Feed(st[k], wire[(n + k) + 1]), (n + k) + 1)
      BY <2>1, <3>1, <3>4, FeedKeeps
    <3> QED
      BY <2>1, <3>2, <3>3
  <2> QED
    BY <2>1, <2>2
<1>5. m \in G
  <2>1. G \in SUBSET Nat
    OBVIOUS
  <2> HIDE DEF G
  <2> QED
    BY <1>1, <1>3, <1>4, <2>1, NaturalsInductionSet
<1> QED
  BY <1>1, <1>2, <1>5 DEF m

(* Nothing is read at first.                                                *)
LEMMA BodyStarts == BodyInit => BodyInv
<1> SUFFICES ASSUME BodyInit PROVE BodyInv
  OBVIOUS
<1>1. /\ encoding \in Encodings /\ breaks \in BOOLEAN
      /\ read = 0 /\ decoder = "none" /\ data = 0 /\ verdict = Reading
  BY DEF BodyInit
<1>2. wire \in Seq(Units)
  <2>1. PICK U \in {{"one"}, Units} : wire \in BoundedSeq(U, MaxUnits)
    BY DEF BodyInit
  <2>2. PICK m \in 0..MaxUnits : wire \in [1..m -> U]
    <3>1. wire \in UNION {[1..m -> U] : m \in 0..MaxUnits}
      BY <2>1, Zenon DEF BoundedSeq, SeqOf
    <3> QED
      BY <3>1, Zenon
  <2>3. U \subseteq Units
    BY <2>1 DEF Units
  <2>4. m \in Nat
    BY <2>2, BodyReaderAssumption
  <2> QED
    BY <2>2, <2>3, <2>4
<1>3. Valid(0) /\ Size(0) = 0
  <2>1. Of("one", 0) = 0 /\ Of("many", 0) = 0
    <3>1. {i \in 1..0 : wire[i] = "one"} = {} /\ {i \in 1..0 : wire[i] = "many"} = {}
      OBVIOUS
    <3> QED
      BY <3>1, FS_EmptySet DEF Of
  <2>2. Many * 0 = 0
    BY BodyReaderAssumption
  <2> QED
    BY <2>1, <2>2 DEF Valid, Size
<1>4. WireLimit \in Nat /\ ByteLimit \in Nat /\ Len(wire) \in Nat
  BY <1>2, BodyReaderAssumption DEF WireLimit
<1>5. verdict.ends = "reading" /\ verdict = Reading
  BY <1>1 DEF Reading, Answer
<1>6. BodyTypeOK
  BY <1>1, <1>4, <1>5 DEF BodyTypeOK
<1> QED
  BY <1>1, <1>2, <1>3, <1>4, <1>5, <1>6 DEF BodyInv, DecoderAfter

(* BodyHonest is what is left of it.                                        *)
LEMMA BodyInvIsHonest ==
  ASSUME BodyInv
  PROVE  BodyHonest
<1> DEFINE n == Len(wire)
<1>1. n \in Nat /\ ByteLimit \in Nat /\ WireLimit \in Nat /\ Size(n) \in Nat
  BY SizeNext, BodyReaderAssumption DEF WireLimit, BodyInv
<1>2. \A i \in 0..n : Size(i) <= Size(n) /\ Size(i) \in Nat
  BY <1>1, SizeGrows, SizeNext
<1>3. ~(\E i \in 0..n : Size(i) > ByteLimit) \/ Size(n) > ByteLimit
  BY <1>1, <1>2
<1> HIDE DEF n
<1>4. Whole <=> Valid(n) /\ (Compressed => n > 0 /\ wire[n] = "end")
  BY DEF Whole, n
<1>5. /\ verdict.ends = "complete" => Whole /\ verdict.size = Size(n)
      /\ verdict.ends = "truncated" =>
            \/ verdict.size = ByteLimit /\ \E i \in 0..n : Valid(i) /\ Size(i) > ByteLimit
            \/ n > WireLimit /\ Valid(WireLimit) /\ verdict.size = Size(WireLimit)
      /\ verdict.ends = "error" => breaks \/ encoding = "unsupported" \/ ~Whole
  BY DEF n, BodyInv, BodyDecided, Reading, Answer
<1>6. \/ verdict = Reading
      \/ verdict.ends \in {"complete", "truncated", "error"}
  BY DEF BodyInv, BodyDecided
<1>7. ASSUME verdict # Reading, Whole, ~breaks, Size(n) <= ByteLimit, n <= WireLimit,
             encoding # "unsupported"
      PROVE  verdict.ends = "complete"
  <2>1. verdict.ends # "error"
    BY <1>5, <1>7
  <2>2. verdict.ends # "truncated"
    BY <1>1, <1>3, <1>5, <1>7
  <2> QED
    BY <1>6, <1>7, <2>1, <2>2
<1>8. n = Len(wire) /\ read <= WireLimit
  BY DEF n, BodyInv
<1> HIDE DEF Whole
<1> QED
  BY <1>4, <1>5, <1>7, <1>8, Zenon DEF BodyHonest

(* Nothing is ever said of another wire.                                    *)
LEMMA SameWire ==
  ASSUME wire' = wire, encoding' = encoding, breaks' = breaks
  PROVE  /\ Compressed' = Compressed
         /\ \A i : Valid(i)' <=> Valid(i)
         /\ \A i : Size(i)' = Size(i)
         /\ \A i, d : DecoderAfter(d, i)' <=> DecoderAfter(d, i)
         /\ Whole' <=> Whole
<1>1. Compressed' = Compressed /\ Ends' = Ends
  BY DEF Compressed, Ends
<1>2. \A i : Begins(i)' <=> Begins(i)
  BY DEF Begins
<1>3. \A i, u : Of(u, i)' = Of(u, i)
  BY DEF Of
<1>4. \A i : Valid(i)' <=> Valid(i)
  BY <1>1, <1>2 DEF Valid
<1>5. \A i : Size(i)' = Size(i)
  BY <1>1, <1>3 DEF Size
<1>6. \A i, d : DecoderAfter(d, i)' <=> DecoderAfter(d, i)
  BY <1>1 DEF DecoderAfter
<1>7. Whole' <=> Whole
  BY <1>1, <1>4 DEF Whole
<1> QED
  BY <1>1, <1>4, <1>5, <1>6, <1>7

(* What a step has to show.                                                 *)
LEMMA BodyInvNext ==
  ASSUME BodyInv, wire' = wire, encoding' = encoding, breaks' = breaks,
         NEW r \in 0..Len(wire), NEW d \in {"none", "open", "inside", "eof"},
         NEW s \in 0..ByteLimit, NEW v,
         read' = r, decoder' = d, data' = s, verdict' = v, r <= WireLimit,
         \/ v = Reading /\ Valid(r) /\ s = Size(r) /\ DecoderAfter(d, r) /\ (r = 0 => d = "none")
         \/ v.ends = "complete" /\ Whole /\ v.size = Size(Len(wire))
         \/ /\ v.ends = "truncated" /\ v.size = ByteLimit
            /\ \E i \in 0..Len(wire) : Valid(i) /\ Size(i) > ByteLimit
         \/ /\ v.ends = "truncated" /\ v.size = Size(WireLimit)
            /\ Len(wire) > WireLimit /\ Valid(WireLimit)
         \/ v.ends = "error" /\ (breaks \/ encoding = "unsupported" \/ ~Whole)
  PROVE  BodyInv'
<1>1. v = Reading => v.ends = "reading"
  BY DEF Reading, Answer
<1>2. BodyTypeOK'
  BY <1>1 DEF BodyInv, BodyTypeOK
<1>3. WireLimit' = WireLimit /\ Reading' = Reading
  BY DEF WireLimit, Reading, Answer
<1>4. CASE v = Reading /\ Valid(r) /\ s = Size(r) /\ DecoderAfter(d, r) /\ (r = 0 => d = "none")
  <2>1. Valid(read)' /\ data' = Size(read)' /\ DecoderAfter(decoder, read)'
    BY <1>4, SameWire
  <2> QED
    BY <1>2, <1>3, <1>4, <2>1 DEF BodyInv
<1>5. CASE \/ v.ends = "complete" /\ Whole /\ v.size = Size(Len(wire))
           \/ /\ v.ends = "truncated" /\ v.size = ByteLimit
              /\ \E i \in 0..Len(wire) : Valid(i) /\ Size(i) > ByteLimit
           \/ /\ v.ends = "truncated" /\ v.size = Size(WireLimit)
              /\ Len(wire) > WireLimit /\ Valid(WireLimit)
           \/ v.ends = "error" /\ (breaks \/ encoding = "unsupported" \/ ~Whole)
  <2>1. BodyDecided'
    BY <1>3, <1>5, SameWire DEF BodyDecided
  <2> QED
    BY <1>2, <1>3, <2>1 DEF BodyInv
<1> QED
  BY <1>4, <1>5

(* Cutting a sequence short keeps its beginning.                            *)
LEMMA BeginningOf ==
  ASSUME NEW s \in Seq(Units), NEW k \in Nat
  PROVE  /\ Beginning(s, k) \in Seq(Units)
         /\ Len(Beginning(s, k)) = IF Len(s) <= k THEN Len(s) ELSE k
         /\ \A i \in 1..Len(Beginning(s, k)) : Beginning(s, k)[i] = s[i]
<1>1. CASE Len(s) <= k
  BY <1>1 DEF Beginning
<1>2. CASE Len(s) > k
  <2>1. /\ SubSeq(s, 1, k) \in Seq(Units) /\ Len(SubSeq(s, 1, k)) = k
        /\ \A i \in 1..k : SubSeq(s, 1, k)[i] = s[i]
    BY <1>2, SubSeqProperties
  <2> QED
    BY <1>2, <2>1 DEF Beginning
<1> QED
  BY <1>1, <1>2

(* A chunk is read only while the answer is open, and what the loop over it *)
(* knows at the end is true of all the wire read by then.                   *)
LEMMA ChunkStep ==
  ASSUME BodyInv, NextChunk
  PROVE  BodyInv'
<1> DEFINE n == Len(wire)
           whole == Beginning(Unread, ChunkSize)
           chunk == WithinWire(whole)
           m == Len(chunk)
           fresh == IF decoder = "none" /\ Compressed THEN "open" ELSE decoder
           start == [ends |-> "reading", state |-> fresh, size |-> data]
           so == FoldLeft(Feed, start, chunk)
<1>1. /\ encoding \in Encodings /\ wire \in Seq(Units) /\ n \in Nat
      /\ read \in 0..n /\ read <= WireLimit /\ data \in 0..ByteLimit
      /\ decoder \in {"none", "open", "inside", "eof"}
  BY DEF BodyInv, BodyTypeOK
<1>2. /\ ByteLimit \in Nat /\ ChunkSize \in Nat /\ ChunkSize > 0
      /\ WireLimit \in Nat /\ WireLimit > 0
  BY BodyReaderAssumption DEF WireLimit
<1>3. /\ verdict = Reading /\ encoding # "unsupported" /\ Unread # <<>>
      /\ read' = read + m /\ decoder' = so.state /\ data' = so.size
      /\ verdict' = IF so.ends # "reading" THEN Answer(so.ends, so.size)
                    ELSE IF Len(whole) > m THEN Answer("truncated", so.size)
                    ELSE Reading
      /\ encoding' = encoding /\ wire' = wire /\ breaks' = breaks
  BY DEF NextChunk
<1>4. Valid(read) /\ data = Size(read) /\ DecoderAfter(decoder, read) /\ (read = 0 => decoder = "none")
  BY <1>3 DEF BodyInv, BodyDecided, Reading, Answer
<1>5. /\ Len(Unread) = n - read /\ Len(Unread) > 0 /\ Unread \in Seq(Units)
      /\ \A k \in 1..Len(Unread) : Unread[k] = wire[read + k]
  <2>1. Unread \in Seq(Units) /\ Len(Unread) = n - read
        /\ \A k \in 1..Len(Unread) : Unread[k] = wire[read + k]
    BY <1>1, SubSeqProperties DEF Unread
  <2> QED
    BY <1>3, <2>1, EmptySeq
<1>6. /\ whole \in Seq(Units) /\ Len(whole) \in Nat
      /\ Len(whole) > 0 /\ Len(whole) <= n - read
      /\ \A k \in 1..Len(whole) : whole[k] = wire[read + k]
  BY <1>1, <1>2, <1>5, BeginningOf
<1> HIDE DEF whole
<1>7. /\ chunk \in Seq(Units) /\ m \in Nat
      /\ m = IF Len(whole) <= WireLimit - read THEN Len(whole) ELSE WireLimit - read
      /\ \A k \in 1..m : chunk[k] = wire[read + k]
  <2>1. WireLimit - read \in Nat /\ chunk = Beginning(whole, WireLimit - read)
    BY <1>1, <1>2 DEF WithinWire
  <2> HIDE DEF chunk
  <2>2. /\ chunk \in Seq(Units) /\ \A k \in 1..m : chunk[k] = whole[k]
        /\ m = IF Len(whole) <= WireLimit - read THEN Len(whole) ELSE WireLimit - read
    BY <1>6, <2>1, BeginningOf
  <2> QED
    BY <1>6, <2>1, <2>2
<1> HIDE DEF n, chunk, m
<1>8. read + m \in 0..n /\ read + m <= WireLimit /\ m <= Len(whole) /\ read + m > 0
  BY <1>1, <1>2, <1>6, <1>7
<1>9. Fed(start, read)
  <2>1. data = Size(read) /\ DecoderAfter(fresh, read)
    BY <1>1, <1>4 DEF DecoderAfter
  <2>2. Compressed /\ read = 0 => fresh = "open"
    BY <1>4
  <2>3. fresh \in {"none", "open", "inside", "eof"}
    BY <1>1
  <2> HIDE DEF fresh
  <2> QED
    BY <1>1, <1>4, <2>1, <2>2, <2>3 DEF Fed
<1> HIDE DEF start
<1>10. Fed(so, read + m)
  <2>1. /\ chunk \in Seq(Units) /\ read \in Nat /\ read + Len(chunk) <= Len(wire)
        /\ \A k \in 1..Len(chunk) : chunk[k] = wire[read + k]
    <3>1. read \in Nat
      BY <1>1
    <3>2. read + m <= n
      BY <1>1, <1>7, <1>8
    <3> QED
      BY <1>7, <3>1, <3>2 DEF n, m
  <2> QED
    BY <1>1, <1>9, <2>1, ChunkKeeps DEF m
<1> HIDE DEF so
<1>11. /\ so.state \in {"none", "open", "inside", "eof"} /\ so.size \in 0..ByteLimit
       /\ so.ends \in {"reading", "truncated", "error"}
  BY <1>10 DEF Fed
<1>12. read + m \in 0..Len(wire)
  BY <1>8 DEF n
<1>13. CASE so.ends = "reading" /\ Len(whole) <= m
  <2>1. /\ verdict' = Reading /\ Valid(read + m) /\ so.size = Size(read + m)
        /\ DecoderAfter(so.state, read + m) /\ read + m # 0
    BY <1>3, <1>8, <1>6, <1>7, <1>10, <1>13 DEF Fed
  <2> QED
    BY <1>3, <1>8, <1>11, <1>12, <2>1, BodyInvNext
<1>14. CASE so.ends = "reading" /\ Len(whole) > m
  <2>1. verdict' = Answer("truncated", so.size) /\ read + m = WireLimit /\ Len(wire) > WireLimit
    <3>1. read + m = WireLimit
      BY <1>1, <1>2, <1>6, <1>7, <1>14
    <3>2. n > WireLimit
      BY <1>1, <1>2, <1>6, <1>7, <1>14, <3>1
    <3> QED
      BY <1>3, <1>14, <3>1, <3>2 DEF n
  <2>2. Valid(WireLimit) /\ so.size = Size(WireLimit)
    BY <1>10, <1>14, <2>1 DEF Fed
  <2> DEFINE v == Answer("truncated", so.size)
  <2>3. v.ends = "truncated" /\ v.size = Size(WireLimit)
    BY <2>2 DEF Answer
  <2> HIDE DEF v
  <2>4. verdict' = v
    BY <2>1 DEF v
  <2> QED
    BY <1>3, <1>8, <1>11, <1>12, <2>1, <2>2, <2>3, <2>4, BodyInvNext
<1>15. CASE so.ends # "reading"
  <2> DEFINE v == Answer(so.ends, so.size)
  <2>1. verdict' = v
    BY <1>3, <1>15
  <2>2. v.ends = so.ends /\ v.size = so.size
    BY DEF Answer
  <2> HIDE DEF v
  <2>3. CASE so.ends = "truncated"
    <3>1. so.size = ByteLimit /\ \E i \in 0..(read + m) : Valid(i) /\ Size(i) > ByteLimit
      BY <1>10, <2>3 DEF Fed
    <3>2. \E i \in 0..Len(wire) : Valid(i) /\ Size(i) > ByteLimit
      BY <1>1, <1>12, <3>1
    <3> QED
      BY <1>3, <1>8, <1>11, <1>12, <2>1, <2>2, <2>3, <3>1, <3>2, BodyInvNext
  <2>4. CASE so.ends = "error"
    <3>1. ~Valid(read + m)
      BY <1>10, <2>4 DEF Fed
    <3>2. ~Whole
      BY <1>1, <1>12, <3>1, ValidBefore DEF Whole, n
    <3> QED
      BY <1>3, <1>8, <1>11, <1>12, <2>1, <2>2, <2>4, <3>2, BodyInvNext
  <2> QED
    BY <1>11, <1>15, <2>3, <2>4
<1> QED
  BY <1>6, <1>7, <1>13, <1>14, <1>15

(* The body has ended, or is refused: what was read is the whole of it.     *)
LEMMA EndStep ==
  ASSUME BodyInv, BodyEnds \/ BodyRefused
  PROVE  BodyInv'
<1> DEFINE n == Len(wire)
<1>1. /\ encoding \in Encodings /\ wire \in Seq(Units) /\ n \in Nat
      /\ read \in 0..n /\ read <= WireLimit /\ data \in 0..ByteLimit
      /\ decoder \in {"none", "open", "inside", "eof"}
  BY DEF BodyInv, BodyTypeOK
<1>2. verdict = Reading /\ encoding' = encoding /\ wire' = wire /\ breaks' = breaks
      /\ read' = read /\ decoder' = decoder /\ data' = data
  BY DEF BodyEnds, BodyRefused
<1>3. Valid(read) /\ data = Size(read) /\ DecoderAfter(decoder, read) /\ (read = 0 => decoder = "none")
  BY <1>2 DEF BodyInv, BodyDecided, Reading, Answer
<1>4. CASE BodyRefused
  <2>1. verdict' = Answer("error", 0) /\ (breaks \/ encoding = "unsupported")
    BY <1>4 DEF BodyRefused
  <2> DEFINE v == Answer("error", 0)
  <2>2. verdict' = v /\ v.ends = "error"
    BY <2>1 DEF Answer
  <2> HIDE DEF v
  <2> QED
    BY <1>1, <1>2, <2>1, <2>2, BodyInvNext
<1>5. CASE BodyEnds
  <2>1. Unread = <<>> /\ verdict' = IF MemberEnded THEN Answer("complete", data) ELSE Answer("error", data)
    BY <1>5 DEF BodyEnds
  <2>2. read = n
    <3>1. Len(Unread) = IF read + 1 <= n THEN n - (read + 1) + 1 ELSE 0
      BY <1>1, SubSeqProperties DEF Unread
    <3>2. Len(Unread) = 0
      BY <2>1
    <3> QED
      BY <1>1, <3>1, <3>2
  <2>3. MemberEnded <=> Whole
    <3>1. Valid(n) /\ DecoderAfter(decoder, n) /\ (n = 0 => decoder = "none")
      BY <1>3, <2>2
    <3> QED
      BY <1>1, <3>1 DEF MemberEnded, Whole, DecoderAfter
  <2>4. CASE MemberEnded
    <3> DEFINE v == Answer("complete", data)
    <3>1. verdict' = v /\ v.ends = "complete" /\ v.size = Size(Len(wire))
      BY <1>3, <2>1, <2>2, <2>4 DEF Answer
    <3> HIDE DEF v
    <3> QED
      BY <1>1, <1>2, <2>3, <2>4, <3>1, BodyInvNext
  <2>5. CASE ~MemberEnded
    <3> DEFINE v == Answer("error", data)
    <3>1. verdict' = v /\ v.ends = "error"
      BY <2>1, <2>5 DEF Answer
    <3> HIDE DEF v
    <3> QED
      BY <1>1, <1>2, <2>3, <2>5, <3>1, BodyInvNext
  <2> QED
    BY <2>4, <2>5
<1> QED
  BY <1>4, <1>5

(* Every step keeps the invariant.                                          *)
LEMMA BodySteps == BodyInv /\ [BodyNext]_bodyVars => BodyInv'
<1> SUFFICES ASSUME BodyInv, [BodyNext]_bodyVars PROVE BodyInv'
  OBVIOUS
<1>1. CASE UNCHANGED bodyVars
  <2>1. /\ encoding' = encoding /\ wire' = wire /\ breaks' = breaks /\ read' = read
        /\ decoder' = decoder /\ data' = data /\ verdict' = verdict
    BY <1>1 DEF bodyVars
  <2>2. /\ read \in 0..Len(wire) /\ decoder \in {"none", "open", "inside", "eof"}
        /\ data \in 0..ByteLimit /\ read <= WireLimit
    BY DEF BodyInv, BodyTypeOK
  <2>3. \/ verdict = Reading /\ Valid(read) /\ data = Size(read) /\ DecoderAfter(decoder, read)
              /\ (read = 0 => decoder = "none")
        \/ BodyDecided
    BY DEF BodyInv
  <2> QED
    BY <2>1, <2>2, <2>3, BodyInvNext DEF BodyDecided
<1>2. CASE BodyNext
  BY <1>2, ChunkStep, EndStep DEF BodyNext
<1> QED
  BY <1>1, <1>2

(* Response bodies: for any limits, size of chunks and inflation, however a *)
(* body is cut into chunks, complete means the whole and valid body,        *)
(* truncated a valid beginning, and a body that is whole, of a known        *)
(* encoding and within both limits is never refused or cut.                 *)
THEOREM BodiesAreHonest == BodySpec => []BodyHonest
<1>1. BodySpec => []BodyInv
  BY BodyStarts, BodySteps, PTL DEF BodySpec
<1>2. BodyInv => BodyHonest
  BY BodyInvIsHonest
<1> QED
  BY <1>1, <1>2, PTL
=============================================================================
