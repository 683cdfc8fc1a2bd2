------------------------------- MODULE PriceList -------------------------------
(***************************************************************************)
(* The way of a price: from the number in a request into a product or a    *)
(* service, from there onto the lines of a quote, and into its total.      *)
(*                                                                         *)
(* A product is edited by reading its row, changing it in memory and       *)
(* writing every descriptive column back, the price included; a service by *)
(* one UPDATE of the columns the request names.  A quote copies the prices *)
(* of its lines one statement after the other, and its amounts are then    *)
(* computed by int64 arithmetic that must refuse what it cannot hold.      *)
(***************************************************************************)
EXTENDS Money, Sequences, Functions

CONSTANTS
    Products, Services,  \* ids of catalogue entries
    Editors,             \* slots for edits of products in flight
    Numbers,             \* numbers sent as the price of a new product
    NewNumbers,          \* numbers sent as a new price, or as a service's
    Requests,            \* quotes asked for: sequences of [id, quantity]
    NoPrice, NoNumber

ASSUME EntriesAssumption ==
    Products \cap Services = {} /\ "none" \notin Products \cup Services
ASSUME NumbersAssumption == Numbers \cup NewNumbers \subseteq JSONNumbers
ASSUME RequestsAssumption ==
    Requests \subseteq Seq([id : Products \cup Services, quantity : Int])
ASSUME NoPriceAssumption == NoPrice \notin Int

VARIABLES
    price,    \* products.unit_price and services.price in cents
    edit,     \* the product edit each slot holds between its read and its write
    asked,    \* the last number sent and what became of it
    quote,    \* the composition under way, or the last one
    lastSet,  \* history variable: the price last set by a committed request
    overran   \* history variable: entries an edit wrote over a newer row

priceVars == <<price, edit, asked, quote, lastSet, overran>>
-----------------------------------------------------------------------------
Entries == Products \cup Services

NoEdit == [id |-> "none", cents |-> 0, sets |-> FALSE, fresh |-> TRUE]

NothingAsked == [number |-> NoNumber, answer |-> Accepted(0)]

\* exact is a history variable: the amounts added so far, over the integers.
NoQuote == [phase |-> "none", request |-> <<>>, lines |-> <<>>, added |-> 0,
            total |-> 0, exact |-> 0]

PriceInit ==
    /\ price = [e \in Entries |-> NoPrice]
    /\ edit = [r \in Editors |-> NoEdit]
    /\ asked = NothingAsked
    /\ quote = NoQuote
    /\ lastSet = [e \in Entries |-> NoPrice]
    /\ overran = {}
-----------------------------------------------------------------------------
(* Prices.                                                                 *)

\* The body is decoded, then validated: a price must not be negative.
Decode(n) ==
    LET parsed == Parse(n)
    IN  IF parsed.ok /\ parsed.cents < 0 THEN Rejected("negative") ELSE parsed

\* Once its prices are copied, a composition computes in its goroutine until
\* it is saved or refused: it reads no row and no edit reads it, so edits need
\* not be interleaved with that.
Composing == quote.phase \notin {"none", "resolve"}

Asked(n) == ~ Composing /\ asked' = [number |-> n, answer |-> Decode(n)]

NoneAsked == ~ Composing /\ asked' = NothingAsked

\* What reading the row can give; the driver may hand over any form of the
\* column's value.
Read(e) == {CentsFromNumeric(n) : n \in Stored(NumericFromCents(price[e]))}

\* The column's CHECK: a statement that would break it fails and changes
\* nothing.
Fits(cents) == NumericFromCents(cents).int \in 0..MaxAmount

Kept(column, e, cents) ==
    IF Fits(cents) THEN [column EXCEPT ![e] = NumericFromCents(cents).int] ELSE column

\* A write makes every edit that has read the row before an old one.
Write(e, cents) ==
    /\ price' = Kept(price, e, cents)
    /\ edit' = [r \in Editors |->
                   IF edit[r].id = e THEN [edit[r] EXCEPT !.fresh = FALSE] ELSE edit[r]]

\* Nothing is read or written, so one moment stands for all: before there
\* are any entries.
Refuse(n) ==
    /\ \A e \in Entries : price[e] = NoPrice
    /\ ~ Decode(n).ok
    /\ Asked(n)
    /\ UNCHANGED <<price, edit, quote, lastSet, overran>>

Create(e, n) ==
    /\ price[e] = NoPrice
    /\ Decode(n).ok
    /\ Asked(n)
    /\ Write(e, Decode(n).cents)
    /\ lastSet' = Kept(lastSet, e, Decode(n).cents)
    /\ UNCHANGED <<quote, overran>>

\* The row is found and changed in memory.
BeginRepricing(r, e, n) ==
    /\ edit[r] = NoEdit
    /\ price[e] # NoPrice
    /\ Decode(n).ok
    /\ Asked(n)
    /\ edit' = [edit EXCEPT ![r] = [id |-> e, cents |-> Decode(n).cents,
                                    sets |-> TRUE, fresh |-> TRUE]]
    /\ UNCHANGED <<price, quote, lastSet, overran>>

\* Faulty variant: a price the request does not name counts as zero.
BeginRenamingZero(r, e) ==
    /\ edit[r] = NoEdit
    /\ price[e] # NoPrice
    /\ edit' = [edit EXCEPT ![r] = [id |-> e, cents |-> 0, sets |-> FALSE, fresh |-> TRUE]]
    /\ NoneAsked
    /\ UNCHANGED <<price, quote, lastSet, overran>>

\* An edit that names no price, or a deactivation, carries the price it read.
BeginRenaming(r, e) ==
    /\ edit[r] = NoEdit
    /\ price[e] # NoPrice
    /\ \E row \in Read(e) :
        /\ row.ok
        /\ edit' = [edit EXCEPT ![r] = [id |-> e, cents |-> row.cents,
                                        sets |-> FALSE, fresh |-> TRUE]]
    /\ NoneAsked
    /\ UNCHANGED <<price, quote, lastSet, overran>>

\* The whole row is written back, whatever became of it since.
EndEdit(r) ==
    LET e == edit[r].id IN
    /\ edit[r] # NoEdit
    /\ price' = Kept(price, e, edit[r].cents)
    /\ edit' = [q \in Editors |->
                   IF q = r THEN NoEdit
                   ELSE IF edit[q].id = e THEN [edit[q] EXCEPT !.fresh = FALSE] ELSE edit[q]]
    /\ lastSet' = IF edit[r].sets THEN Kept(lastSet, e, edit[r].cents) ELSE lastSet
    /\ overran' = IF edit[r].fresh THEN overran ELSE overran \cup {e}
    /\ NoneAsked
    /\ UNCHANGED quote

\* The request ends before its write.
AbandonEdit(r) ==
    /\ edit[r] # NoEdit
    /\ edit' = [edit EXCEPT ![r] = NoEdit]
    /\ NoneAsked
    /\ UNCHANGED <<price, quote, lastSet, overran>>

\* One UPDATE of the columns named; the others are not written at all.
RepriceService(e, n) ==
    /\ price[e] # NoPrice
    /\ Decode(n).ok
    /\ Asked(n)
    /\ Write(e, Decode(n).cents)
    /\ lastSet' = Kept(lastSet, e, Decode(n).cents)
    /\ UNCHANGED <<quote, overran>>
-----------------------------------------------------------------------------
(* Quotes.                                                                 *)

Quote(q) ==
    /\ quote' = q
    /\ asked' = NothingAsked
    /\ UNCHANGED <<price, edit, lastSet, overran>>

RefuseQuote(why) == Quote([quote EXCEPT !.phase = why])

Compose(request) ==
    /\ quote.phase = "none"
    /\ Quote([NoQuote EXCEPT !.phase = "resolve", !.request = request])

Wanted == quote.request[Len(quote.lines) + 1]

\* The next line's entry is looked up and its price copied.
ResolveLine ==
    /\ quote.phase = "resolve"
    /\ Len(quote.lines) < Len(quote.request)
    /\ price[Wanted.id] # NoPrice
    /\ \E row \in Read(Wanted.id) :
        /\ row.ok
        /\ Quote([quote EXCEPT !.lines = Append(@, [unit     |-> row.cents,
                                                    quantity |-> Wanted.quantity,
                                                    total    |-> 0])])

\* There is no such entry, or it is an inactive product; which products are
\* active is left open here.
RefuseUnknown ==
    /\ quote.phase = "resolve"
    /\ Len(quote.lines) < Len(quote.request)
    /\ price[Wanted.id] = NoPrice \/ Wanted.id \in Products
    /\ RefuseQuote("not found")

Resolved == quote.phase = "resolve" /\ Len(quote.lines) = Len(quote.request)

LineTotal(line) == MulQuantity(line.unit, line.quantity)

\* At least one line, and every quantity above zero.
Valid(lines) == lines # <<>> /\ \A i \in DOMAIN lines : lines[i].quantity > 0

RefuseInvalid == Resolved /\ ~ Valid(quote.lines) /\ RefuseQuote("invalid")

\* Every line is priced before any is added.
PriceLines ==
    /\ Resolved
    /\ Valid(quote.lines)
    /\ \A i \in DOMAIN quote.lines : LineTotal(quote.lines[i]).ok
    /\ Quote([quote EXCEPT !.phase = "add",
                           !.lines = [i \in DOMAIN quote.lines |->
                              [quote.lines[i] EXCEPT !.total = LineTotal(quote.lines[i]).cents]]])

RefuseLine ==
    /\ Resolved
    /\ Valid(quote.lines)
    /\ \E i \in DOMAIN quote.lines : ~ LineTotal(quote.lines[i]).ok
    /\ RefuseQuote("too large")

NextLine == quote.lines[quote.added + 1]

AddLine ==
    LET sum == Add(quote.total, NextLine.total) IN
    /\ quote.phase = "add"
    /\ quote.added < Len(quote.lines)
    /\ sum.ok
    /\ Quote([quote EXCEPT !.added = @ + 1, !.total = sum.cents,
                           !.exact = @ + NextLine.unit * NextLine.quantity])

RefuseSum ==
    /\ quote.phase = "add"
    /\ quote.added < Len(quote.lines)
    /\ ~ Add(quote.total, NextLine.total).ok
    /\ RefuseQuote("too large")

Save ==
    /\ quote.phase = "add"
    /\ quote.added = Len(quote.lines)
    /\ Quote([quote EXCEPT !.phase = "saved"])

\* The answer is sent.
Answer == quote.phase \notin {"none", "resolve", "add"} /\ Quote(NoQuote)
-----------------------------------------------------------------------------
PriceNext ==
    \/ \E n \in Numbers : Refuse(n) \/ \E e \in Products : Create(e, n)
    \/ \E r \in Editors :
        \/ \E e \in Products : BeginRenaming(r, e) \/ \E n \in NewNumbers : BeginRepricing(r, e, n)
        \/ EndEdit(r) \/ AbandonEdit(r)
    \/ \E e \in Services, n \in NewNumbers : Create(e, n) \/ RepriceService(e, n)
    \/ \E request \in Requests : Compose(request)
    \/ ResolveLine \/ RefuseUnknown \/ RefuseInvalid
    \/ PriceLines \/ RefuseLine \/ AddLine \/ RefuseSum \/ Save \/ Answer

PriceSpec == PriceInit /\ [][PriceNext]_priceVars
-----------------------------------------------------------------------------
(* Properties.                                                             *)

Cents == -MaxAmount..MaxAmount

PriceTypeOK ==
    /\ price \in [Entries -> (0..MaxAmount) \cup {NoPrice}]
    /\ edit \in [Editors -> [id : Products \cup {"none"}, cents : 0..MaxAmount,
                             sets : BOOLEAN, fresh : BOOLEAN]]
    /\ asked.number \in Numbers \cup NewNumbers \cup {NoNumber}
    /\ quote.phase \in {"none", "resolve", "add", "saved", "not found", "invalid", "too large"}
    /\ quote.request \in Requests \cup {<<>>}
    /\ quote.lines \in Seq([unit : 0..MaxAmount, quantity : Int, total : 0..MaxAmount])
    /\ Len(quote.lines) <= Len(quote.request)
    /\ quote.added \in 0..Len(quote.lines)
    /\ quote.total \in 0..MaxAmount
    /\ lastSet \in [Entries -> (0..MaxAmount) \cup {NoPrice}]
    /\ overran \subseteq Products

\* A number that is accepted is stored as exactly the amount it denotes,
\* never rounded; a number that is refused is negative, denotes no amount the
\* column holds, or has an exponent of too many digits that says nothing about
\* its amount: it has zeros in front, or the number is zero.
PriceIsWhatWasSent ==
    asked.number # NoNumber =>
        LET n == asked.number IN
        IF asked.answer.ok THEN Denotes(n, asked.answer.cents)
        ELSE \/ n.negative /\ n.digits # 0
             \/ ~ Representable(n)
             \/ ExponentTooLong(n) /\ (n.digits = 0 \/ ZeroPadded(n))

\* What is stored is read back unchanged, and the number shown in an answer
\* denotes it and, sent again, is accepted as the same price.
PriceSurvivesTheRoundTrip ==
    \A e \in Entries : price[e] # NoPrice =>
        /\ Read(e) = {Accepted(price[e])}
        /\ Denotes(MarshalJSON(price[e]), price[e])
        /\ Parse(MarshalJSON(price[e])) = Accepted(price[e])

\* An entry has the price last set by a committed request, always if it is a
\* service, and if it is a product unless some edit wrote over a row that had
\* changed since it read it.
LastPriceHolds ==
    \A e \in Entries : price[e] = lastSet[e] \/ e \in overran

\* The running total is the exact sum of unit price times quantity: no
\* product and no sum ever left the word.
QuoteIsExact == quote.total = quote.exact

ExactTotal(lines) ==
    SumFunctionOnSet([i \in DOMAIN lines |-> lines[i].unit * lines[i].quantity], DOMAIN lines)

\* A quote is refused as too large only if its exact total does not fit the
\* column; one that is saved has all of its lines in the total.
OnlyTooLargeIsRefused ==
    /\ quote.phase = "too large" => ExactTotal(quote.lines) > MaxAmount
    /\ quote.phase = "saved" => ExactTotal(quote.lines) = quote.total
=============================================================================
