--------------------------- MODULE MCHttpResponse ---------------------------
(***************************************************************************)
(* Small instance of HttpResponse: a name that is a file or a directory    *)
(* with an index, lengths on both sides of every limit of an unsigned of   *)
(* eight values, and two requests of six forms.                            *)
(***************************************************************************)
EXTENDS HttpResponse

CONSTANTS page, index

MCIndexOf == [p \in {page, index} |-> IF p = page THEN index ELSE None]

Form(target, head, since, http11, connection) ==
    [target |-> target, head |-> head, since |-> since, http11 |-> http11,
     connection |-> connection]

MCRequests == {
    Form(page, FALSE, FALSE, TRUE, "none"),
    Form(page, TRUE, FALSE, FALSE, "keep-alive"),
    Form(index, FALSE, TRUE, FALSE, "none"),
    Form("auth", FALSE, FALSE, TRUE, "none"),
    Form("refresh_token", FALSE, FALSE, TRUE, "close"),
    Form("unknown", TRUE, FALSE, FALSE, "none")}
=============================================================================
