---------------------------- MODULE MCResourceServer ----------------------------
(* Two clients, a provider with two keys of different algorithms, and the  *)
(* tokens that matter: good ones, one of an outsider, one that names the   *)
(* wrong algorithm, a made-up key id and a symmetric one.                  *)
EXTENDS ResourceServer

Token(a, k, s, m) == [alg |-> a, kid |-> k, signed |-> s, valid |-> TRUE, member |-> m]

MCKeyAlg == [k \in Kids |-> IF k = "k1" THEN "RS256" ELSE "ES256"]
MCOffers == {Token("RS256", "k1", TRUE, TRUE), Token("ES256", "k2", TRUE, TRUE),
             Token("RS256", "k1", TRUE, FALSE), Token("RS256", "k2", FALSE, TRUE),
             Token("RS256", "made-up", FALSE, TRUE), Token("HS256", "k1", FALSE, TRUE)}

Conf(a, c, j, t) == [auth |-> a, complete |-> c, jwksUrl |-> j, transport |-> t]
MCConfigs == {Conf(TRUE, TRUE, FALSE, "streamable-http"),
              Conf(TRUE, TRUE, TRUE, "streamable-http"),
              Conf(TRUE, FALSE, FALSE, "streamable-http"),
              Conf(TRUE, TRUE, FALSE, "sse"), Conf(FALSE, FALSE, FALSE, "sse"),
              Conf(TRUE, TRUE, FALSE, "stdio")}
=============================================================================
