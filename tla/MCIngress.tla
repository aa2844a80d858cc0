----------------------------- MODULE MCIngress -----------------------------
(* Small instances of Ingress: two lanes, a chain of each shape (Anthropic  *)
(* alone, never, and as the spill target), one session every role shares.  *)
EXTENDS Ingress

CONSTANTS s, r1, r2

MCChain == [generate |-> <<"anthropic", "kimi">>,
            bulk |-> <<"kimi">>,
            code |-> <<"kimi", "anthropic">>]

Kind(role, session, constrained, buffered) ==
  [role |-> role, session |-> session,
   constrained |-> constrained, buffered |-> buffered]

MCKinds == {Kind("generate", s, FALSE, TRUE), Kind("bulk", s, FALSE, FALSE),
            Kind("code", s, FALSE, TRUE), Kind("code", NoSession, TRUE, TRUE),
            Kind("generate", NoSession, TRUE, TRUE)}

\* The bulk chain as it is shipped.
MCBulkChain == [generate |-> <<"anthropic">>,
                bulk |-> <<"deepseek", "kimi", "glm">>]
MCBulk == {Kind("bulk", s, FALSE, TRUE)}
=============================================================================
