------------------------------ MODULE EngineMC ------------------------------
(***************************************************************************)
(* Journeys for Engine.  Ids are strings: the code builds ids from ids.    *)
(***************************************************************************)
EXTENDS Engine, TLC

Form(id, required, next) ==
    [type |-> "Form", fields |-> {[id |-> <<id, 0>>, required |-> required]},
     next |-> "true" :> next]
Choice(default, next) ==
    [type |-> "Choice", default |-> default, next |-> next]
Metadata(next) == [type |-> "Metadata", next |-> "true" :> next]
SuspendFlow(next) == [type |-> "SuspendFlow", next |-> "true" :> next]
SubJourney(sub, tag, true, false) ==
    [type |-> "SubJourney", sub |-> sub, tag |-> tag,
     next |-> "true" :> true @@ "false" :> false]
Retry(limit, retry, exhausted) ==
    [type |-> "Retry", limit |-> limit,
     next |-> "retry" :> retry @@ "exhausted" :> exhausted]
Chain(inner, next) == [type |-> "Chain", inner |-> inner, next |-> next]
Branch(next) ==
    [type |-> "Branch", outcomes |-> DOMAIN next, next |-> next]
Success == [type |-> "Success", next |-> <<>>]
Failure == [type |-> "Failure", next |-> <<>>]
End(value) == [type |-> "End", value |-> value, next |-> <<>>]
HTTPFinishResponse == [type |-> "HTTPFinishResponse", next |-> <<>>]

(***************************************************************************)
(* Login calls Profile; then a Chain sends a message, asks for an optional *)
(* field and decides, and a Choice ends the run or starts over.  Before    *)
(* the end a step may route to itself, and Page may be called, a resource  *)
(* journey that ends with HTTPFinishResponse, in success, without a result *)
(* or with an empty outcome, or asks in a Chain that is suspended.  Profile *)
(* collects a form, is suspended and calls Audit, which may call itself;   *)
(* only Profile encrypts its client inputs.                                *)
(***************************************************************************)
MCJourneys == {"Login", "Profile", "Audit", "Page"}
MCStart == "Login" :> "call" @@ "Profile" :> "form" @@ "Audit" :> "test" @@
           "Page" :> "render"
MCConf ==
    "call"    :> SubJourney("Profile", FALSE, "notify", "again") @@
    "notify"  :> Chain(<<Metadata("none"), Form("nick", FALSE, "none"),
                         Branch("ok" :> "none" @@ "no" :> "none")>>,
                       "ok" :> "choose" @@ "no" :> "again") @@
    "choose"  :> Choice("done", "done" :> "probe" @@ "over" :> "call") @@
    "again"   :> Retry(3, "call", "failure") @@
    "probe"   :> Branch("again" :> "probe" @@ "ok" :> "success" @@
                        "page" :> "publish" @@ "raw" :> "respond") @@
    "publish" :> SubJourney("Page", FALSE, "success", "failure") @@
    "respond" :> HTTPFinishResponse @@
    "success" :> Success @@
    "failure" :> Failure @@
    "form"    :> Form("email", TRUE, "wait") @@
    "wait"    :> SuspendFlow("audit") @@
    "audit"   :> SubJourney("Audit", TRUE, "good", "bad") @@
    "good"    :> Success @@
    "bad"     :> Failure @@
    "test"    :> Branch("yes" :> "pass" @@ "no" :> "stop" @@
                        "deep" :> "deeper") @@
    "deeper"  :> Retry(3, "self", "stop") @@
    "self"    :> SubJourney("Audit", FALSE, "stop", "pass") @@
    "pass"    :> End("true") @@
    "stop"    :> End("false") @@
    "render"  :> Branch("raw" :> "finish" @@ "page" :> "deliver" @@ "" :> "deliver" @@
                        "nil" :> "blank" @@ "menu" :> "menu") @@
    "menu"    :> Chain(<<Choice("go", "go" :> "none"), SuspendFlow("none")>>,
                       "true" :> "deliver") @@
    "blank"   :> End("unset") @@
    "deliver" :> Success @@
    "finish"  :> HTTPFinishResponse
MCSteps == DOMAIN MCConf

\* The cycles of quick steps are for the loop guard, those of slow ones pass a
\* Retry or a pause.
MCSlow == MCSteps \ {"probe", "publish", "finish"}
=============================================================================
