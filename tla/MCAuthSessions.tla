-------------------------- MODULE MCAuthSessions --------------------------
(***************************************************************************)
(* AuthSessions for TLC: a browser with two tabs, the first one with two   *)
(* pages, or a phone with two requests; tokens enough for every rotation   *)
(* of every expiry, so that issuing is never held up by the bound.         *)
(***************************************************************************)
EXTENDS AuthSessions

TwoStores == [b \in Tab |-> IF b \in Phone THEN "phone" ELSE "browser"]
Pages == [p \in Page |-> CASE p \in {"p1", "p2"} -> "left"
                           [] p = "p3" -> "right" [] OTHER -> "phone"]
=============================================================================
