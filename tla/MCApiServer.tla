---------------------------- MODULE MCApiServer ----------------------------
(* The requests a client makes in the model-checked instance of ApiServer,    *)
(* each with the kinds of handlers that run meanwhile and their number.       *)
EXTENDS ApiServer

Subscribe(list, kinds, n) == [subs |-> list, waiting |-> "no", may |-> kinds, changes |-> n]
WaitFor(sub, kinds, n) == [subs |-> <<sub>>, waiting |-> "yes", may |-> kinds, changes |-> n]
Ev(kind) == [type |-> "event", want |-> kind]
St(status) == [type |-> "status", want |-> status]
Sampler(type) == [type |-> type, want |-> "any"]

MCScenarios ==
  { Subscribe(<<Ev("other"), St("any")>>, {"state", "view", "other"}, 2),
    Subscribe(<<St("any")>>, {"state", "view", "close"}, 3),
    Subscribe(<<Ev("detected"), Ev("closed")>>, {"agent", "close"}, 2),
    Subscribe(<<St("done")>>, {"state", "view"}, 3),
    Subscribe(<<Sampler("output"), Sampler("scroll")>>, {"draw"}, 3),
    WaitFor(St("idle"), {"state", "view", "other", "close"}, 2),
    WaitFor(Sampler("output"), {"draw", "close"}, 3) }

AgentRequest(method, until, timed, kinds, n) ==
  [method |-> method, until |-> until, timed |-> timed, may |-> kinds, changes |-> n]

MCRequests ==
  { AgentRequest("wait", {"idle"}, "no", {"state", "view"}, 4),
    AgentRequest("wait", {}, "yes", {"agent", "state"}, 2),
    AgentRequest("wait", {"working"}, "no", {"agent", "close"}, 2),
    AgentRequest("prompt", {}, "no", {"state"}, 3),
    AgentRequest("prompt", {"working"}, "yes", {"state"}, 1),
    AgentRequest("prompt", {"idle"}, "yes", {"agent", "close"}, 2) }
=============================================================================
