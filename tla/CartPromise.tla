----------------------------- MODULE CartPromise -----------------------------
(***************************************************************************)
(* What a customer may rely on, of one cart behind the gateway.  A request *)
(* is forwarded once, and again only while it has no answer.  A forward    *)
(* takes effect once, is refused once, or does nothing, and it ends with   *)
(* that; the answer to a request is that of its last forward, or a         *)
(* failure, which says nothing.  A forward that takes effect turns a cart  *)
(* that has been current since it was sent into the new one; that is the   *)
(* current cart unless something else has changed it meanwhile.            *)
(***************************************************************************)
EXTENDS Integers

CONSTANTS Products, Quantities, Requests, Attempts

VARIABLES
    goods,    \* the quantity of each product in the cart
    asked,    \* what each request asks for
    forward,  \* what has become of each of its forwards
    answer,   \* its answer
    since     \* the carts that have been current since a forward was sent, until it ends

promiseVars == <<goods, asked, forward, answer, since>>

Nothing == [op |-> "none"]
Empty == [p \in Products |-> 0]
Forwards == 1 .. Attempts

Operations ==
    [op : {"add", "update"}, product : Products, quantity : Quantities]
        \cup [op : {"remove"}, product : Products]
        \cup [op : {"clear", "checkout"}]

\* The cart a request makes of the cart g.
Effect(req, g) ==
    CASE req.op = "add"    -> [g EXCEPT ![req.product] = @ + req.quantity]
      [] req.op = "update" -> [g EXCEPT ![req.product] = req.quantity]
      [] req.op = "remove" -> [g EXCEPT ![req.product] = 0]
      [] OTHER             -> Empty

\* Only goods that are in the cart can be updated or removed.
Refuses(req, g) == req.op \in {"update", "remove"} /\ g[req.product] = 0

\* The order service clears the cart of an order without the gateway, once.
Tries(req) == IF req.op = "checkout" THEN 1 ELSE Attempts

Init ==
    /\ goods = Empty
    /\ asked = [r \in Requests |-> Nothing]
    /\ forward = [r \in Requests |-> [k \in Forwards |-> "none"]]
    /\ answer = [r \in Requests |-> "none"]
    /\ since = [r \in Requests |-> [k \in Forwards |-> {}]]

Send(r, k) ==
    /\ forward' = [forward EXCEPT ![r][k] = "open"]
    /\ since' = [since EXCEPT ![r][k] = {goods}]
    /\ UNCHANGED <<goods, answer>>

Ask(r, req) ==
    /\ asked[r] = Nothing
    /\ asked' = [asked EXCEPT ![r] = req]
    /\ Send(r, 1)

Last(r, k) == forward[r][k] # "none" /\ \A j \in Forwards : forward[r][j] # "none" => j <= k

ForwardAgain(r, k) ==
    /\ answer[r] = "none"
    /\ Last(r, k) /\ k < Tries(asked[r])
    /\ Send(r, k + 1)
    /\ UNCHANGED asked

Becomes(g) ==
    /\ goods' = g
    /\ since' = [r \in Requests |-> [k \in Forwards |->
           IF forward'[r][k] = "open" THEN since[r][k] \cup {g} ELSE {}]]
    /\ UNCHANGED <<asked, answer>>

Apply(r, k) ==
    /\ forward[r][k] = "open"
    /\ forward' = [forward EXCEPT ![r][k] = "applied"]
    /\ \E g \in since[r][k] : ~Refuses(asked[r], g) /\ Becomes(Effect(asked[r], g))

\* A forward ends without an effect; it is refused only for a reason.
End(r, k) ==
    /\ forward[r][k] = "open"
    /\ \E outcome \in {"refused", "failed"} :
          /\ outcome = "refused" => \E g \in since[r][k] : Refuses(asked[r], g)
          /\ forward' = [forward EXCEPT ![r][k] = outcome]
    /\ since' = [since EXCEPT ![r][k] = {}]
    /\ UNCHANGED <<goods, asked, answer>>

Answer(r, k) ==
    /\ answer[r] = "none"
    /\ Last(r, k)
    /\ \E told \in {"ok", "refused", "failed"} :
          /\ told = "ok" => forward[r][k] = "applied"
          /\ told = "refused" => forward[r][k] = "refused"
          /\ answer' = [answer EXCEPT ![r] = told]
    /\ UNCHANGED <<goods, asked, forward, since>>

\* The cart is gone, seven days after it was last written, whoever is at work on it.
Expire ==
    /\ UNCHANGED forward
    /\ Becomes(Empty)

Next ==
    \/ \E r \in Requests :
          \/ \E req \in Operations : Ask(r, req)
          \/ \E k \in Forwards : ForwardAgain(r, k) \/ Apply(r, k) \/ End(r, k) \/ Answer(r, k)
    \/ Expire

Spec == Init /\ [][Next]_promiseVars
=============================================================================
