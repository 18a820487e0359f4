---------------------------- MODULE MCWebClient ----------------------------
(* Model-checking instance of WebClient: a credential was stored for every *)
(* base, also the insecure one, before the page was reloaded, so the first *)
(* change of a credential may meet a request or a lookup that carries it.  *)
EXTENDS WebClient

MCStorage == [b \in Bases |-> CHOOSE t \in Tokens : TRUE]
=============================================================================
