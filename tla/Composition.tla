----------------------------- MODULE Composition -----------------------------
(***************************************************************************)
(* The resource graph of the product, as M2Composition and M3Composition   *)
(* register it under one configuration, and the two questions the resource *)
(* manager asks of any graph: is it well-formed, and in which order are the*)
(* resources of a phase started.                                           *)
(***************************************************************************)
EXTENDS Naturals, Sequences, FiniteSets, SequencesExt

(* StartPhase, by its order.  The state manager is started by main itself. *)
CORE == 1
BACKEND == 2
WORKER == 3
OBSERVER == 4
INPUT == 5

(* A policy: an absent component, one that may fail, one that may not.     *)
PolicyValues == {"off", "optional", "required"}

NoCap == "none"

(* requires: what the factory takes through the resolver, which refuses    *)
(*   what is not started.  The other dependencies only order the starts.   *)
(* holds: the dependency whose instance the composition gave the resource  *)
(*   before any of them was started.                                       *)
(* serves: the backend that the start() and stop() of a worker also start  *)
(*   and stop.  needs: what must run for its own start() to succeed.       *)
Spec0 == [key |-> "", phase |-> CORE, deps |-> {}, requires |-> {}, holds |-> {},
          serves |-> {}, needs |-> {}, required |-> TRUE, cap |-> NoCap, capDeps |-> {},
          null |-> FALSE, recoverable |-> FALSE]

Core(key, cap, null) == [Spec0 EXCEPT !.key = key, !.cap = cap, !.null = null]

Backend(key, deps, recoverable) ==
    [Spec0 EXCEPT !.key = key, !.phase = BACKEND, !.deps = deps,
                  !.recoverable = recoverable]

Worker(key, deps, required, cap, capDeps) ==
    [Spec0 EXCEPT !.key = key, !.phase = WORKER, !.deps = deps, !.requires = deps,
                  !.required = required, !.cap = cap, !.capDeps = capDeps]

Producer(key, policy) ==
    [Spec0 EXCEPT !.key = key, !.phase = INPUT, !.required = policy = "required"]

Given(policy, spec) == IF policy = "off" THEN <<>> ELSE <<spec>>

(***************************************************************************)
(* Registration order.  config.real: the native drivers of a product, which*)
(* make asr, tts and llm recoverable and order the llm behind the two.     *)
(***************************************************************************)
M2Core(config) == <<
    Core("audio_in", NoCap, TRUE), Core("audio_out", NoCap, TRUE),
    [Core("audio", "audio", FALSE) EXCEPT !.deps = {"audio_in", "audio_out"}],
    Core("display", "display", TRUE), Core("camera", "camera", TRUE),
    [Core("gpio", "gpio", FALSE) EXCEPT !.required = FALSE]>>

M2Backends(config) == <<
    Backend("asr", {}, config.real), Backend("vision", {}, FALSE),
    Backend("llm", IF config.real THEN {"asr", "tts"} ELSE {}, config.real),
    Backend("tts", {}, config.real)>>

M2Workers(config) ==
    Given(config.listen,
        [Worker("listen", {"audio_in", "asr"}, config.listen = "required",
                "listen", {"audio"}) EXCEPT !.serves = {"asr"}, !.needs = {"asr"}])
    \o Given(config.read, Worker("read", {}, config.read = "required", "read", {}))
    \o Given(config.look,
        [Worker("look", {"camera", "vision"}, config.look = "required",
                "look", {"camera"}) EXCEPT !.serves = {"vision"}, !.needs = {"vision"}])
    \o <<Worker("reasoner", {"llm"}, TRUE, NoCap, {})>>
    \o Given(config.speak,
        [Worker("speak", {"audio_out", "tts"}, config.speak = "required",
                "speak", {"audio"})
         EXCEPT !.requires = {}, !.holds = {"audio_out"}, !.serves = {"tts"}, !.needs = {"tts"}])
    \o <<Worker("rest", {}, TRUE, NoCap, {})>>

M2Inputs(config) ==
    Given(config.button,
        [Producer("button", config.button) EXCEPT !.deps = {"gpio"}, !.holds = {"gpio"}, !.needs = {"gpio"}])
    \o Given(config.message, Producer("message", config.message))
    \o Given(config.wake, Producer("wake", config.wake))

M3Display ==
    <<[Core("renderer", NoCap, FALSE) EXCEPT !.deps = {"display"}],
      [Core("arbiter", NoCap, FALSE) EXCEPT !.deps = {"display", "renderer"},
                                            !.requires = {"display", "renderer"}],
      [Spec0 EXCEPT !.key = "status_bar", !.phase = OBSERVER, !.deps = {"arbiter"},
                    !.requires = {"arbiter"}, !.required = FALSE]>>

Graph(config) ==
    M2Core(config) \o M2Backends(config) \o M2Workers(config) \o M2Inputs(config)
    \o M3Display

KeysOf(graph) == {graph[i].key : i \in DOMAIN graph}
SpecOf(graph, key) == graph[CHOOSE i \in DOMAIN graph : graph[i].key = key]

(***************************************************************************)
(* Registry._preflight, and the cycles its sort finds.                     *)
(***************************************************************************)
RECURSIVE Behind(_, _)
Behind(graph, keys) ==
    LET more == keys \cup UNION {SpecOf(graph, k).deps : k \in keys}
    IN  IF more = keys THEN keys ELSE Behind(graph, more)

Preflight(graph) ==
    /\ Cardinality(KeysOf(graph)) = Len(graph)
    /\ \A i \in DOMAIN graph :
        LET spec == graph[i] IN
        /\ spec.deps \subseteq KeysOf(graph)
        /\ \A dep \in spec.deps : SpecOf(graph, dep).phase <= spec.phase
        /\ spec.key \notin Behind(graph, spec.deps)
        /\ spec.cap # NoCap => \A j \in DOMAIN graph \ {i} : graph[j].cap # spec.cap

(***************************************************************************)
(* _topo_sort_phase: Kahn's algorithm, the earliest registered one first.  *)
(* Dependencies in other phases do not count.                              *)
(***************************************************************************)
RECURSIVE Kahn(_, _)
Kahn(rest, waitFor) ==
    LET free == {i \in DOMAIN rest : rest[i].deps \cap waitFor = {}}
        next == CHOOSE i \in free : \A j \in free : i <= j
    IN  IF free = {} THEN <<>>
        ELSE <<rest[next].key>> \o Kahn(RemoveAt(rest, next), waitFor \ {rest[next].key})

OrderOf(graph, phase) ==
    LET ofPhase == SelectSeq(graph, LAMBDA spec : spec.phase = phase)
    IN  Kahn(ofPhase, KeysOf(ofPhase))

(* What the resource manager works off: everything before the input        *)
(* producers, phase by phase, and then those.                              *)
Plan(config) ==
    LET graph == Graph(config) IN
    [spec |-> [key \in KeysOf(graph) |-> SpecOf(graph, key)],
     order |-> OrderOf(graph, CORE) \o OrderOf(graph, BACKEND) \o OrderOf(graph, WORKER)
               \o OrderOf(graph, OBSERVER),
     inputs |-> OrderOf(graph, INPUT)]
==============================================================================
