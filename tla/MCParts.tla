------------------------------ MODULE MCParts ------------------------------
(***************************************************************************)
(* The parts of the service that keep state of their own and share none    *)
(* with each other.  One run checks them all by choosing at the start      *)
(* which of them acts: their state spaces add up and do not multiply.      *)
(***************************************************************************)
EXTENDS InboundLimit, RateLimiter, Capacity, Robots, Extract, Metrics,
        BodyReader, BodyLimit, Lifecycle, Api

CONSTANTS a1, a2, a3, p1, p2, h1, h2, v1, v2, v3

VARIABLE acting

MCHome == [a \in Attempts |-> IF a \in {a1, a2} THEN p1 ELSE p2]
MCHost == [a \in Attempts |-> IF a = a2 THEN h2 ELSE h1]
MCTransport == [v \in Visits |-> IF v = v3 THEN "proxy" ELSE "direct"]
MCBounds == <<1, 3, 5>>

(* Every route through _extract, with options that make no difference to    *)
(* each other left out.                                                     *)
MCOptions ==
    LET of(modes, policies, converters, robots) ==
            [mode : modes, robots : robots, anonymize : BOOLEAN, extras : BOOLEAN,
             screenshot : BOOLEAN, policy : policies, converter : converters]
        all == {"fast", "auto", "js"}
    IN of(all, {"metadata"}, {"trafilatura"}, {TRUE})
         \cup {o \in of({"auto"}, {"skip", "full"}, {"bs4", "markitdown"}, {FALSE}) :
                  o.extras /\ ~o.screenshot}

partsVars == <<acting, inboundVars, rateVars, capacityVars, robotsVars, extractVars,
               metricsVars, bodyVars, limitVars, lifeVars, apiVars>>

AnOption == CHOOSE o \in ExtractOptions : ~o.robots

(* What does not act has one initial state only.                            *)
PartsInit ==
    /\ acting \in {"inbound", "rate", "slots", "robots", "extract", "metrics", "body", "limit",
                   "life", "api"}
    /\ InboundInit /\ RateInit /\ CapacityInit /\ RobotsInit /\ MetricsInit /\ LifeInit
    /\ IF acting = "extract" THEN ExtractInit
       ELSE /\ options = AnOption /\ stale = FALSE /\ extractAt = "fetch"
            /\ doc = NoDoc /\ converted = NotConverted /\ proposed = FALSE
            /\ renders = 0 /\ response = NoResponse
    /\ IF acting = "body" THEN BodyInit
       ELSE /\ encoding = "plain" /\ wire = <<>> /\ breaks = FALSE
            /\ read = 0 /\ decoder = "none" /\ data = 0 /\ verdict = Reading
    /\ LimitInit /\ (acting # "limit" => declared = "none")
    /\ ApiInit /\ (acting # "api" => keyed /\ limited)

(* A step of one part leaves the others alone.                              *)
Others(part) ==
    /\ acting = part /\ UNCHANGED acting
    /\ IF part = "inbound" THEN TRUE ELSE UNCHANGED inboundVars
    /\ IF part = "rate" THEN TRUE ELSE UNCHANGED rateVars
    /\ IF part = "slots" THEN TRUE ELSE UNCHANGED capacityVars
    /\ IF part = "robots" THEN TRUE ELSE UNCHANGED robotsVars
    /\ IF part = "extract" THEN TRUE ELSE UNCHANGED extractVars
    /\ IF part = "metrics" THEN TRUE ELSE UNCHANGED metricsVars
    /\ IF part = "body" THEN TRUE ELSE UNCHANGED bodyVars
    /\ IF part = "limit" THEN TRUE ELSE UNCHANGED limitVars
    /\ IF part = "life" THEN TRUE ELSE UNCHANGED lifeVars
    /\ IF part = "api" THEN TRUE ELSE UNCHANGED apiVars

PartsNext ==
    \/ Others("inbound") /\ InboundNext
    \/ Others("rate") /\ RateNext
    \/ Others("slots") /\ CapacityNext
    \/ Others("robots") /\ RobotsNext
    \/ Others("extract") /\ ExtractNext
    \/ Others("metrics") /\ MetricsNext
    \/ Others("body") /\ BodyNext
    \/ Others("limit") /\ LimitNext
    \/ Others("life") /\ LifeNext
    \/ Others("api") /\ ApiNext

PartsSpec == PartsInit /\ [][PartsNext]_partsVars

(* Every part's variables stay in their types.                              *)
PartsTypeOK ==
    /\ acting = "inbound" => InboundTypeOK
    /\ acting = "rate" => RateTypeOK
    /\ acting = "slots" => CapacityTypeOK
    /\ acting = "robots" => RobotsTypeOK
    /\ acting = "extract" => ExtractTypeOK
    /\ acting = "metrics" => MetricsTypeOK
    /\ acting = "body" => BodyTypeOK
    /\ acting = "limit" => LimitTypeOK
    /\ acting = "life" => LifeTypeOK
    /\ acting = "api" => ApiTypeOK
=============================================================================
