-------------------------------- MODULE Cart --------------------------------
(***************************************************************************)
(* One cart, a JSON value in Redis (services/cart/app/main.py), behind the *)
(* gateway (services/gateway/app/main.py) that forwards every request up   *)
(* to three times as long as it gets no answer, whatever its method.       *)
(* Every handler but one GETs the value, changes it and SETEXes all of it, *)
(* with nothing in between that stops another worker, another thread or a  *)
(* forwarded copy of the same request from doing the same.  A handler does *)
(* not learn that the gateway has given up on it, and the value may expire *)
(* under any of them.  The order service clears the cart too, after a      *)
(* checkout, and asks once.                                                *)
(* A missing value and a value without items are one empty cart: every     *)
(* handler answers both alike.  Prices and names are left out.             *)
(***************************************************************************)
EXTENDS Integers, Sequences, SequencesExt

CONSTANTS
    Products,    \* product ids
    Quantities,  \* quantities a request may carry; others are answered 400
    Requests,    \* requests for the cart
    Attempts,    \* how often the gateway forwards a request: three times
    MaxFaults    \* bound: timeouts, lost connections, dead workers, Redis errors

ASSUME CartAssumption ==
    /\ Quantities \subseteq Nat \ {0}
    /\ Attempts \in Nat \ {0}
    /\ MaxFaults \in Nat

VARIABLES
    cart,     \* the lines of the cart in Redis
    asked,    \* what each request asks for
    attempt,  \* the gateway's count of forwards of each request
    handler,  \* the handler of each forward
    answer,   \* what the caller has been told
    since,    \* history: what the cart has held since a copy was sent, until it is over
    faults    \* how many faults have happened

vars == <<cart, asked, attempt, handler, answer, since, faults>>

Lines == [product : Products, quantity : Nat \ {0}]

Nothing == [op |-> "none"]
Operations ==
    [op : {"add", "update"}, product : Products, quantity : Quantities]
        \cup [op : {"remove"}, product : Products]
        \cup [op : {"clear", "checkout"}]

Copies == 1 .. Attempts
NoHandler == [pc |-> "none", seen |-> <<>>]
Running == {"sent", "read"}
Over == {"written", "refused", "error", "lost"}

\* A handler that may change the cart: it runs, or its connection to Redis broke
\* with the command on its way ("unsure"), and it has answered 500.
Open == Running \cup {"unsure"}

TypeOK ==
    /\ cart \in Seq(Lines)
    /\ asked \in [Requests -> {Nothing} \cup Operations]
    /\ attempt \in [Requests -> 0 .. Attempts]
    /\ handler \in [Requests -> [Copies ->
          [pc : {"none"} \cup Open \cup Over, seen : Seq(Lines)]]]
    /\ answer \in [Requests -> {"none", "ok", "refused", "failed"}]
    /\ since \in [Requests -> [Copies -> SUBSET [Products -> Nat]]]
    /\ faults \in 0 .. MaxFaults

\* What the lines of a cart add up to.
Goods(lines) ==
    [p \in Products |-> SumFunctionOnSet([i \in DOMAIN lines |-> lines[i].quantity],
                                          {i \in DOMAIN lines : lines[i].product = p})]

Init ==
    /\ cart = <<>>
    /\ asked = [r \in Requests |-> Nothing]
    /\ attempt = [r \in Requests |-> 0]
    /\ handler = [r \in Requests |-> [k \in Copies |-> NoHandler]]
    /\ answer = [r \in Requests |-> "none"]
    /\ since = [r \in Requests |-> [k \in Copies |-> {}]]
    /\ faults = 0

Fault == faults < MaxFaults /\ faults' = faults + 1

-----------------------------------------------------------------------------
(* The gateway.                                                            *)

\* Copy k goes out.
Send(r, k) ==
    /\ attempt' = [attempt EXCEPT ![r] = k]
    /\ handler' = [handler EXCEPT ![r][k].pc = "sent"]
    /\ since' = [since EXCEPT ![r][k] = {Goods(cart)}]

\* A request comes in, and its first copy goes out.  What the gateway refuses by
\* itself, for want of a route or a token, leaves no trace and is left out.
Ask(r, req) ==
    /\ asked[r] = Nothing
    /\ asked' = [asked EXCEPT ![r] = req]
    /\ Send(r, 1)
    /\ UNCHANGED <<cart, answer, faults>>

Tries(req) == IF req.op = "checkout" THEN 1 ELSE Attempts

Waiting(r) == asked[r] # Nothing /\ answer[r] = "none"

\* httpx.RequestError: no connection, no answer in time, a connection that
\* broke.  The copy may still be on its way or at work.
RequestError(r) ==
    /\ Waiting(r)
    /\ Fault
    /\ \/ /\ attempt[r] < Tries(asked[r])
          /\ Send(r, attempt[r] + 1)
          /\ UNCHANGED answer
       \/ /\ attempt[r] = Tries(asked[r])
          /\ answer' = [answer EXCEPT ![r] = "failed"]
          /\ UNCHANGED <<attempt, handler, since>>
    /\ UNCHANGED <<cart, asked>>

Told == [written |-> "ok", refused |-> "refused", error |-> "failed", unsure |-> "failed", lost |-> "failed"]

\* The answer to the copy the gateway waits for is the answer, a 500 included.
Reply(r) ==
    /\ Waiting(r)
    /\ handler[r][attempt[r]].pc \in DOMAIN Told
    /\ answer' = [answer EXCEPT ![r] = Told[handler[r][attempt[r]].pc]]
    /\ UNCHANGED <<cart, asked, attempt, handler, since, faults>>

-----------------------------------------------------------------------------
(* The cart service.                                                       *)

InCart(p, lines) == \E i \in DOMAIN lines : lines[i].product = p

\* The handler ends, or is at a loss, with the cart as it was.
Leaves(r, k, h) ==
    /\ handler' = [handler EXCEPT ![r][k] = h]
    /\ since' = [since EXCEPT ![r][k] = IF h.pc \in Open THEN @ ELSE {}]
    /\ UNCHANGED <<cart, asked, attempt, answer>>

\* r.get, and the 404 of remove_item and update_item.
GetCart(r, k) ==
    /\ handler[r][k].pc = "sent"
    /\ asked[r].op \in {"add", "update", "remove"}
    /\ Leaves(r, k, IF asked[r].op # "add" /\ ~InCart(asked[r].product, cart)
                    THEN [NoHandler EXCEPT !.pc = "refused"]
                    ELSE [pc |-> "read", seen |-> cart])
    /\ UNCHANGED faults

IndexOf(p, lines) == SelectInSeq(lines, LAMBDA line : line.product = p)

\* Fault: the search for the product's line is left out.
AppendAlways(req, lines) == Append(lines, [product |-> req.product, quantity |-> req.quantity])

add_item(req, lines) ==
    IF InCart(req.product, lines)
    THEN [lines EXCEPT ![IndexOf(req.product, lines)].quantity = @ + req.quantity]
    ELSE Append(lines, [product |-> req.product, quantity |-> req.quantity])

\* Fault: an update adds to the line.
UpdateAdds(req, lines) == [lines EXCEPT ![IndexOf(req.product, lines)].quantity = @ + req.quantity]

update_item(req, lines) == [lines EXCEPT ![IndexOf(req.product, lines)].quantity = req.quantity]

\* Fault: the line stays, with nothing left of it.
RemoveLeavesLine(req, lines) ==
    [i \in DOMAIN lines |-> IF lines[i].product = req.product THEN [lines[i] EXCEPT !.quantity = 0] ELSE lines[i]]

\* The lines of all other products, in their order; kept[n] are those of the first n.
remove_item(req, lines) ==
    LET kept[n \in 0 .. Len(lines)] ==
            IF n = 0 THEN <<>>
            ELSE IF lines[n].product = req.product THEN kept[n - 1] ELSE Append(kept[n - 1], lines[n])
    IN  kept[Len(lines)]

Edited(req, lines) ==
    CASE req.op = "add"    -> add_item(req, lines)
      [] req.op = "update" -> update_item(req, lines)
      [] req.op = "remove" -> remove_item(req, lines)
      [] OTHER             -> <<>>

\* The cart becomes another one, which every copy that is not over may find.
Becomes(lines) ==
    /\ cart' = lines
    /\ since' = [s \in Requests |-> [j \in Copies |->
           IF handler'[s][j].pc \in Open THEN since[s][j] \cup {Goods(lines)} ELSE {}]]
    /\ UNCHANGED <<asked, attempt, answer, faults>>

Write(r, k, lines, pc) ==
    /\ handler' = [handler EXCEPT ![r][k] = [NoHandler EXCEPT !.pc = pc]]
    /\ Becomes(lines)

\* r.setex of the whole cart as it was read, with the change.
SetCart(r, k) ==
    /\ handler[r][k].pc = "read"
    /\ Write(r, k, Edited(asked[r], handler[r][k].seen), "written")

\* clear_cart, whoever asks for it.
clear_cart(r, k) ==
    /\ handler[r][k].pc = "sent"
    /\ asked[r].op \in {"clear", "checkout"}
    /\ Write(r, k, <<>>, "written")

\* Redis does not answer: a 500.  A write that was under way may still be done.
RedisError(r, k) ==
    /\ handler[r][k].pc \in Running
    /\ Fault
    /\ Leaves(r, k, IF handler[r][k].pc = "read" \/ asked[r].op \in {"clear", "checkout"}
                    THEN [handler[r][k] EXCEPT !.pc = "unsure"]
                    ELSE [NoHandler EXCEPT !.pc = "error"])

\* Redis carries out a SETEX or DEL nobody has its answer to.
WriteUnanswered(r, k) ==
    /\ handler[r][k].pc = "unsure"
    /\ Write(r, k, Edited(asked[r], handler[r][k].seen), "lost")

\* cart_ttl: seven days after the last write, whoever has read the value since.
Expire ==
    /\ cart # <<>>
    /\ UNCHANGED handler
    /\ Becomes(<<>>)

-----------------------------------------------------------------------------
Next ==
    \/ \E r \in Requests :
          \/ \E req \in Operations : Ask(r, req)
          \/ RequestError(r)
          \/ Reply(r)
          \/ \E k \in Copies :
                \/ GetCart(r, k)
                \/ SetCart(r, k)
                \/ clear_cart(r, k)
                \/ RedisError(r, k)
                \/ WriteUnanswered(r, k)
    \/ Expire

Spec == Init /\ [][Next]_vars

-----------------------------------------------------------------------------
(* Properties.                                                             *)

\* Whatever overlaps or is retried, a product has one line: the rest of the
\* code changes the first line it finds and counts them all (cart main.py:104,
\* 128, 153).
OneLinePerProduct ==
    \A i, j \in DOMAIN cart : cart[i].product = cart[j].product => i = j

Outcome == [none |-> "none", sent |-> "open", read |-> "open", unsure |-> "open",
            written |-> "applied", lost |-> "applied", refused |-> "refused", error |-> "failed"]

\* The cart behind the gateway keeps the promise: a copy takes effect at most once
\* and not after its 404, a 200 is never told of something that did not happen, a
\* request is made twice only if the gateway had no answer, and every cart is one
\* operation away from a cart that was current while its copy was under way.
Promise == INSTANCE CartPromise WITH
    goods <- Goods(cart),
    forward <- [r \in Requests |-> [k \in Copies |-> Outcome[handler[r][k].pc]]]

ImplementsPromise == Promise!Spec
=============================================================================
