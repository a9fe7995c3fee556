-------------------------- MODULE MCHttpConnection --------------------------
(***************************************************************************)
(* Small instance of HttpConnection: three requests of a client, of seven  *)
(* forms, with every way to cut their bytes into pieces and to send them   *)
(* before or after the first is answered.                                  *)
(***************************************************************************)
EXTENDS HttpConnection

Plain(method, version, headers) ==
    [method |-> method, uri |-> <<"u">>, query |-> <<>>, version |-> version,
     headers |-> headers, cookies |-> <<>>, body |-> <<>>, fields |-> <<>>]

Lengths(n) == <<<<"L">>, <<n>>>>

(* A form of one field, behind parameters of the uri *)
Submit(query) ==
    [Plain(<<"p">>, <<"1">>, <<<<<<"T">>, <<"f">>>>, Lengths("3")>>)
       EXCEPT !.query = query, !.fields = <<<<<<"a">>, <<"b">>>>>>]

MCForms == {
    \* ?a=b
    [Plain(<<"g">>, <<"1">>, <<>>)
       EXCEPT !.query = <<<<<<"a">>, <<"b">>>>>>,
              !.cookies = <<<<<<"c">>>>, <<<<"d">>, <<"w", "=">>>>>>],
    Plain(<<"g">>, <<"0">>, <<>>),
    [Plain(<<"g">>, <<"0">>, <<<<<<"C">>, <<"k">>>>>>) EXCEPT !.uri = <<"u", "v">>],
    Plain(<<"p">>, <<"1">>, <<Lengths("0")>>),
    [Plain(<<"p">>, <<"1">>, <<Lengths("2")>>) EXCEPT !.body = <<"x", "y">>],
    Submit(<<<<<<"a">>>>>>),            \* ?a
    Submit(<<<<<<"a">>>>, <<<<>>>>>>)}  \* ?a&
=============================================================================
