------------------------------ MODULE MCGateway ------------------------------
(* Small instances of Gateway for TLC. *)
EXTENDS Gateway, TLC

CONSTANTS gpt, gemini, llama

Symmetry == Permutations(Reqs)

ThreeModels == <<gpt, gemini, llama>>
Sent(model, vision, stream, chain) ==
    [model |-> model, vision |-> vision, stream |-> stream, chain |-> chain]

\* llama is not configured, and the best of the rest takes no images.
SomeBodies ==
    {Sent(NoModel, FALSE, FALSE, <<>>), Sent(llama, FALSE, FALSE, <<>>),
     Sent(NoModel, TRUE, FALSE, <<>>), Sent(NoModel, FALSE, TRUE, <<>>)}

ChainBodies == {Sent(NoModel, FALSE, FALSE, <<gemini, gpt>>)}
=============================================================================
