--------------------------- MODULE MCPersistence ---------------------------
(***************************************************************************)
(* Model-checking instance of ObjectClients: two keys, a worker and one    *)
(* other process, one act of damage.  One key is no block of the source.   *)
(***************************************************************************)
EXTENDS ObjectClients
CONSTANTS k1, k2
MCKey == {k1, k2}
MCSource == {k1}
Shader(k, s, h) == [key |-> k, stage |-> s, hot |-> h]
\* One set with the same source in two stages, one with a hot shader last.
MCShaders == {<<Shader(k1, "vertex", FALSE), Shader(k2, "fragment", TRUE)>>,
              <<Shader(k1, "vertex", FALSE), Shader(k1, "fragment", FALSE)>>}
CallOn(ops, keys) == {[op |-> op, key |-> k, body |-> "code"] : op \in ops, k \in keys}
MCCalls ==
    [native |-> CallOn({"load", "shallow", "full", "remove"}, MCKey) \cup CallOn({"clear", "scan"}, {"none"}) \cup CallOn({"insert"}, {k1}),
     shader |-> CallOn({"full"}, MCKey) \cup CallOn({"clear", "scan"}, {"none"})]
=============================================================================
