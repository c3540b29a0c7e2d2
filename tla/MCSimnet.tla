------------------------------ MODULE MCSimnet ------------------------------
(* Two accounts, one contract, and signed transactions that share nonces, *)
(* sponsor each other in a circle, leave a gap, or fail a check.          *)
EXTENDS Simnet, TLC

CONSTANTS a, b, c

Plain(id, origin, nonce, kind, to, amount) ==
    [id |-> id, origin |-> origin, nonce |-> nonce, sponsor |-> NoSponsor, sponsorNonce |-> 0,
     fee |-> 1, kind |-> kind, to |-> to, amount |-> amount, contract |-> c, flaw |-> "none"]

Sponsored(t, sponsor, nonce) ==
    [t EXCEPT !.sponsor = sponsor, !.sponsorNonce = nonce, !.fee = 2]

MCBalance == (a :> 3) @@ (b :> 2)

MCSigned ==
    {Plain(1, a, 0, "transfer", b, 2),
     Sponsored(Plain(2, a, 1, "transfer", b, 1), b, 0),
     Sponsored(Plain(3, b, 1, "transfer", a, 1), a, 0),
     Plain(4, a, 1, "call", b, 1), Plain(6, b, 0, "deploy", a, 0),
     [Plain(5, b, 0, "call", a, 1) EXCEPT !.flaw = "check"]}

MCCalls == {[Plain(0, b, 0, "deploy", a, 0) EXCEPT !.fee = 0],
            [Plain(0, a, 0, "transfer", b, 1) EXCEPT !.fee = 0],
            [Plain(0, a, 0, "call", b, 1) EXCEPT !.fee = 0]}
=============================================================================
