------------------------------ MODULE MCNitroCli ------------------------------
(* Instances of NitroCli for TLC.                                              *)
EXTENDS NitroCli

CONSTANTS p1, p2

Good == [id |-> 1, cmd |-> TRUE, entrypoint |-> TRUE, arch |-> TRUE]
Newer == [id |-> 2, cmd |-> FALSE, entrypoint |-> TRUE, arch |-> TRUE]
Bare == [id |-> 3, cmd |-> FALSE, entrypoint |-> FALSE, arch |-> TRUE]
Foreign == [id |-> 4, cmd |-> TRUE, entrypoint |-> FALSE, arch |-> FALSE]
Nothing == [id |-> 0]

Images == {Good, Newer, Bare, Foreign}

SomeBuilds ==
  {[cert |-> FALSE, key |-> FALSE, source |-> Nothing, output |-> "a"],
   [cert |-> TRUE, key |-> TRUE, source |-> Newer, output |-> "a"],
   [cert |-> TRUE, key |-> FALSE, source |-> Nothing, output |-> "a"]}

Hello == <<100>>
NotGiven == <<>>

Run(name, cid, debug, attach) ==
  [kind |-> "run", name |-> name, cid |-> cid, debug |-> debug, attach |-> attach, timer |-> FALSE]

Other(kind, name, timer) ==
  [kind |-> kind, name |-> name, cid |-> 0, debug |-> FALSE, attach |-> FALSE, timer |-> timer]

SomeCommands ==
  {Run(NotGiven, 0, FALSE, FALSE), Run(Hello, 5, FALSE, TRUE), Run(Append(Hello, 1), 5, TRUE, FALSE),
   Other("console", NotGiven, TRUE), Other("console", Hello, FALSE), Other("terminate", Hello, FALSE)}

Enclave(name, cid, debug) ==
  [up |-> TRUE, name |-> name, cid |-> cid, debug |-> debug, out |-> 0, known |-> {}]

SomeRunning ==
  {<<Enclave(Hello, 5, TRUE)>>,
   <<Enclave(Append(Hello, 1), 6, FALSE), Enclave(Hello, 5, FALSE)>>}

AllOrNone == {{}, Cli}
================================================================================
