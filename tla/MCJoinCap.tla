------------------------------- MODULE MCJoinCap -------------------------------
(***************************************************************************)
(* JoinCap for TLC.  A gated room and an open one, two handles, and        *)
(* tokens that differ in exactly what the checks compare.                  *)
(***************************************************************************)
EXTENDS JoinCap, TLC

CONSTANTS h1, h2, r1, open, ann, x

Token(n, epoch, iat, exp) ==
  [shape |-> TRUE, signed |-> TRUE, fields |-> TRUE, agent |-> ann, session |-> x,
   room |-> r1, epoch |-> epoch, iat |-> iat, exp |-> exp, nonce |-> n]

\* Three tokens, one of them shorter-lived and minted under an authority
Minted == Token(1, 1, 1, 1)
Good == { Minted, Token(2, 0, 1, 2), Token(3, 0, 1, 2) }

\* Tokens that fail the checks that need no state
Bad == { [Minted EXCEPT !.shape = FALSE], [Minted EXCEPT !.signed = FALSE],
         [Minted EXCEPT !.fields = FALSE], [Minted EXCEPT !.agent = x],
         [Minted EXCEPT !.session = ann], [Minted EXCEPT !.room = open] }

Tokens == Good \union Bad

Join(h, r, c) == [handle |-> h, room |-> r, display |-> ann, session |-> x, cap |-> c]

\* Either handle presents a good token, again and again; one of them also a
\* bad one, none, and a token in a room that is not gated
JoinRequests ==
  {Join(h, r1, c) : h \in Handles, c \in Good}
    \union {Join(h1, r1, c) : c \in Bad \union {NoCap}}
    \union {Join(h1, open, Minted)}
=============================================================================
