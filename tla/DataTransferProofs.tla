------------------------- MODULE DataTransferProofs -------------------------
(***************************************************************************)
(* The data transfer is an atomic import, whatever files, dates, edits and *)
(* cards there are, and its card reports what happened.  A preview's token *)
(* is used once on its way: made under the lock, shown and prepared,       *)
(* agreed to and queued, imported or dropped.                              *)
(***************************************************************************)
EXTENDS DataTransfer, TLAPS, SequenceTheorems

Rows == Contents \cup {NoRow}
Views == [rows : UNION {[S -> Rows] : S \in SUBSET Dates}, settings : Values \cup {NoSettings}]
Previews == [token : Nat, file : Files, view : Views]

Jobs ==
  [kind : {"apply"}, life : Nat, preview : Previews]
    \cup [kind : {"prepare"}, life : Nat, file : Files, generation : Nat]

Results ==
  [kind : {"apply"}, life : Nat, token : Nat, ok : BOOLEAN]
    \cup [kind : {"prepare"}, life : Nat, generation : Nat, preview : Previews \cup {None}]

Targets(f) == DOMAIN f.entries \cup IF f.settings = NoSettings THEN {} ELSE {"settings"}

Cards == [life : Nat, busy : BOOLEAN, preview : Previews \cup {None}, of : Nat,
          says : {"nothing", "not read", "not applied", "expired", "restored"}]

TypeInv ==
  /\ rows \in [Dates -> Rows] /\ settings \in Values
  /\ queue \in Seq(Jobs) /\ settled \in Seq(Results)
  /\ decrypting \subseteq [life : Nat, file : Files]
  /\ prepared \in Previews \cup {None}
  /\ generation \in Nat /\ tokens \in Nat /\ disposed \in BOOLEAN
  /\ card \in Cards
  /\ picker # None => picker \in Nat

-----------------------------------------------------------------------------
(* The way of a preview *)

applies(q, i) == i \in DOMAIN q /\ q[i].kind = "apply"
preparing(q, i) == i \in DOMAIN q /\ q[i].kind = "prepare" /\ q[i].preview # None

\* Tokens are counted up.
MadeInv ==
  /\ prepared # None => prepared.token <= tokens
  /\ card.preview # None => card.preview.token <= tokens
  /\ \A i \in DOMAIN queue : applies(queue, i) => queue[i].preview.token <= tokens
  /\ \A i \in DOMAIN settled : preparing(settled, i) => settled[i].preview.token <= tokens
  /\ imported \subseteq 0 .. tokens /\ card.of <= tokens

\* A preview not yet handed over is nowhere else, ...
FreshInv ==
  \A i \in DOMAIN settled : preparing(settled, i) =>
    /\ prepared # None => prepared.token # settled[i].preview.token
    /\ card.preview # None => card.preview.token # settled[i].preview.token
    /\ \A j \in DOMAIN queue : applies(queue, j) => queue[j].preview.token # settled[i].preview.token
    /\ \A j \in DOMAIN settled : j # i /\ preparing(settled, j) =>
         settled[j].preview.token # settled[i].preview.token
    /\ settled[i].preview.token \notin imported

\* ... the prepared one has not been agreed to, and is the one on the screen, ...
PreparedInv ==
  prepared # None =>
    /\ card.preview # None /\ card.preview.token = prepared.token => card.preview = prepared
    /\ \A j \in DOMAIN queue : applies(queue, j) => queue[j].preview.token # prepared.token
    /\ prepared.token \notin imported

\* ... and one agreed to waits for the lock once.
QueuedInv ==
  \A i \in DOMAIN queue : applies(queue, i) =>
    /\ \A j \in DOMAIN queue : j # i /\ applies(queue, j) =>
         queue[j].preview.token # queue[i].preview.token
    /\ queue[i].preview.token \notin imported

-----------------------------------------------------------------------------
(* The open transaction *)

\* A transaction has written what it has not to write, and nobody wrote since it began.
TxInv ==
  tx # None =>
    /\ tx \in [rows : [Dates -> Rows], settings : Values, todo : SUBSET (Dates \cup {"settings"})]
    /\ applies(queue, 1)
    /\ LET p == queue[1].preview IN
       /\ unchangedSince(p)
       /\ tx.todo \subseteq Targets(p.file)
       /\ \A d \in Dates :
            tx.rows[d] = IF d \in DOMAIN p.file.entries \ tx.todo THEN p.file.entries[d] ELSE rows[d]
       /\ tx.settings =
            IF p.file.settings # NoSettings /\ "settings" \notin tx.todo
            THEN p.file.settings ELSE settings

-----------------------------------------------------------------------------
(* The operations of a card *)

pickerMine == picker # None /\ picker = card.life
decryptMine(d) == d \in decrypting /\ d.life = card.life
queueMine(i) == i \in DOMAIN queue /\ queue[i].life = card.life
settledMine(i) == i \in DOMAIN settled /\ settled[i].life = card.life

\* The card on the screen has one operation under way, and only while it is busy.
OneInv ==
  /\ pickerMine => /\ card.busy
                   /\ \A d \in decrypting : ~decryptMine(d)
                   /\ \A i \in DOMAIN queue : ~queueMine(i)
                   /\ \A i \in DOMAIN settled : ~settledMine(i)
  /\ \A d \in decrypting : decryptMine(d) =>
       /\ card.busy
       /\ \A e \in decrypting : decryptMine(e) => e = d
       /\ \A i \in DOMAIN queue : ~queueMine(i)
       /\ \A i \in DOMAIN settled : ~settledMine(i)
  /\ \A i \in DOMAIN queue : queueMine(i) =>
       /\ card.busy
       /\ \A j \in DOMAIN queue : queueMine(j) => j = i
       /\ \A j \in DOMAIN settled : ~settledMine(j)
  /\ \A i \in DOMAIN settled : settledMine(i) =>
       /\ card.busy
       /\ \A j \in DOMAIN settled : settledMine(j) => j = i

\* No card was ever opened later.
LivesInv ==
  /\ picker # None => picker <= card.life
  /\ \A d \in decrypting : d.life <= card.life
  /\ \A i \in DOMAIN queue : queue[i].life <= card.life
  /\ \A i \in DOMAIN settled : settled[i].life <= card.life

\* The import the card has under way is the one it reports on, and a preview that
\* is on the screen and agreed to belongs to it.
OfInv ==
  /\ \A i \in DOMAIN queue : applies(queue, i) /\ queueMine(i) =>
       queue[i].preview.token = card.of /\ card.says \in {"nothing", "expired"}
  /\ \A i \in DOMAIN settled : settled[i].kind = "apply" /\ settledMine(i) =>
       settled[i].token = card.of /\ card.says \in {"nothing", "expired"}
  /\ \A i \in DOMAIN queue :
       applies(queue, i) /\ card.preview # None /\ queue[i].preview.token = card.preview.token =>
         queueMine(i)
  /\ card.preview # None /\ card.preview.token \in imported =>
       \E i \in DOMAIN settled : settledMine(i) /\ settled[i].kind = "apply"

\* A preview that has left the way: it is imported, or never will be.
gone(p, q, s, n, t) ==
  /\ t \in Nat /\ t <= n
  /\ p # None => p.token # t
  /\ \A i \in DOMAIN q : applies(q, i) => q[i].preview.token # t
  /\ \A i \in DOMAIN s : preparing(s, i) => s[i].preview.token # t

GoneInv ==
  /\ \A i \in DOMAIN settled : settled[i].kind = "apply" =>
       /\ gone(prepared, queue, settled, tokens, settled[i].token)
       /\ settled[i].ok <=> settled[i].token \in imported
  /\ card.says = "not applied" => gone(prepared, queue, settled, tokens, card.of)
  /\ disposed => prepared = None

WayInv == MadeInv /\ FreshInv /\ PreparedInv /\ QueuedInv

CardInv == OneInv /\ LivesInv /\ OfInv /\ GoneInv /\ ReportIsTrue

IInv == TypeInv /\ WayInv /\ TxInv /\ CardInv

-----------------------------------------------------------------------------
LEMMA LessOrEqual == \A n \in Nat : n <= n
OBVIOUS

LEMMA TailFacts ==
  ASSUME NEW S, NEW q \in Seq(S), q # <<>>
  PROVE  /\ Tail(q) \in Seq(S) /\ 1 \in DOMAIN q /\ Head(q) = q[1] /\ q[1] \in S
         /\ \A i \in DOMAIN Tail(q) : i \in Nat \ {0} /\ i + 1 \in DOMAIN q /\ Tail(q)[i] = q[i + 1]
<1>1. /\ Len(q) \in Nat \ {0} /\ DOMAIN q = 1 .. Len(q) /\ Head(q) = q[1]
  BY EmptySeq, LenProperties
<1>2. /\ Tail(q) \in Seq(S) /\ DOMAIN Tail(q) = 1 .. Len(Tail(q)) /\ Len(Tail(q)) = Len(q) - 1
      /\ \A i \in 1 .. Len(Tail(q)) : Tail(q)[i] = q[i + 1]
  BY HeadTailProperties, LenProperties
<1>3. q[1] \in S
  BY <1>1, HeadTailProperties
<1> QED
  BY <1>1, <1>2, <1>3

LEMMA AppendFacts ==
  ASSUME NEW S, NEW q \in Seq(S), NEW e \in S
  PROVE  /\ Append(q, e) \in Seq(S) /\ Len(q) + 1 \in DOMAIN Append(q, e)
         /\ Append(q, e)[Len(q) + 1] = e
         /\ \A i \in DOMAIN q : i \in Nat /\ i < Len(q) + 1 /\ i \in DOMAIN Append(q, e)
                                  /\ Append(q, e)[i] = q[i]
         /\ \A i \in DOMAIN Append(q, e) : i \in Nat /\ (i \in DOMAIN q \/ i = Len(q) + 1)
<1>1. /\ Append(q, e) \in Seq(S) /\ Len(Append(q, e)) = Len(q) + 1
      /\ \A i \in 1 .. Len(q) : Append(q, e)[i] = q[i]
      /\ Append(q, e)[Len(q) + 1] = e
  BY AppendProperties
<1>2. /\ Len(q) \in Nat /\ DOMAIN q = 1 .. Len(q)
      /\ DOMAIN Append(q, e) = 1 .. Len(q) + 1
  BY <1>1, LenProperties
<1> QED
  BY <1>1, <1>2

LEMMA ElementFacts ==
  ASSUME NEW S, NEW q \in Seq(S)
  PROVE  \A i \in DOMAIN q : i \in Nat \ {0} /\ q[i] \in S
BY LenProperties

LEMMA TokensAreNumbers ==
  ASSUME TypeInv
  PROVE  /\ \A i \in DOMAIN queue : applies(queue, i) => queue[i].preview.token \in Nat
         /\ \A i \in DOMAIN settled : preparing(settled, i) => settled[i].preview.token \in Nat
         /\ prepared # None => prepared.token \in Nat
         /\ card.preview # None => card.preview.token \in Nat
         /\ tokens \in Nat
<1>1. \A i \in DOMAIN queue : queue[i] \in Jobs
  BY ElementFacts DEF TypeInv
<1>2. \A i \in DOMAIN settled : settled[i] \in Results
  BY ElementFacts DEF TypeInv
<1>3. \A i \in DOMAIN queue : applies(queue, i) => queue[i].preview.token \in Nat
  BY <1>1 DEF applies, Jobs, Previews
<1>4. \A i \in DOMAIN settled : preparing(settled, i) => settled[i].preview.token \in Nat
  BY <1>2 DEF preparing, Results, Previews
<1>5. /\ prepared # None => prepared.token \in Nat
      /\ card.preview # None => card.preview.token \in Nat
      /\ tokens \in Nat
  BY DEF TypeInv, Previews, Cards
<1> QED
  BY <1>3, <1>4, <1>5

LEMMA OverwrittenIsView ==
  ASSUME NEW f \in Files, NEW r \in [Dates -> Rows], NEW v \in Values
  PROVE  Import!Overwritten(f, r, v) \in Views
<1>1. DOMAIN f.entries \in SUBSET Dates
  BY FilesAssumption
<1>2. Import!Restrict(r, DOMAIN f.entries) \in [DOMAIN f.entries -> Rows]
  BY <1>1 DEF Import!Restrict
<1>3. Import!Restrict(r, DOMAIN f.entries) \in UNION {[S -> Rows] : S \in SUBSET Dates}
  BY <1>1, <1>2
<1> QED
  BY <1>3 DEF Import!Overwritten, Views

-----------------------------------------------------------------------------
(* Steps on which no preview moves on *)

\* What waits comes from what waited, s and t places further back.
Waits(s, t) ==
  /\ s \in Nat /\ t \in Nat
  /\ \A i \in DOMAIN queue' : applies(queue', i) =>
       i \in Nat /\ applies(queue, i + s) /\ queue'[i].preview = queue[i + s].preview
  /\ \A i \in DOMAIN settled' : preparing(settled', i) =>
       i \in Nat /\ preparing(settled, i + t) /\ settled'[i].preview = settled[i + t].preview

LEMMA WayKeeps ==
  ASSUME TypeInv, WayInv,
         NEW s, NEW t, Waits(s, t),
         prepared' \in {prepared, None}, card'.preview \in {card.preview, None},
         card'.of \in Nat /\ card'.of <= tokens',
         imported' = imported, tokens' \in Nat, tokens <= tokens'
  PROVE  WayInv'
<1>1. /\ \A i \in DOMAIN queue : applies(queue, i) => queue[i].preview.token \in Nat
      /\ \A i \in DOMAIN settled : preparing(settled, i) => settled[i].preview.token \in Nat
      /\ prepared # None => prepared.token \in Nat
      /\ card.preview # None => card.preview.token \in Nat
      /\ tokens \in Nat
  BY TokensAreNumbers
<1>0. MadeInv /\ FreshInv /\ PreparedInv /\ QueuedInv
  BY DEF WayInv
<1>2. MadeInv'
  <2>1. imported' \subseteq 0 .. tokens'
    BY <1>0, <1>1 DEF MadeInv
  <2>2. \A i \in DOMAIN queue' : applies(queue', i) => queue'[i].preview.token <= tokens'
    BY <1>0, <1>1 DEF MadeInv, Waits, applies
  <2>3. \A i \in DOMAIN settled' : preparing(settled', i) => settled'[i].preview.token <= tokens'
    BY <1>0, <1>1 DEF MadeInv, Waits, preparing
  <2>4. /\ prepared' # None => prepared'.token <= tokens'
        /\ card'.preview # None => card'.preview.token <= tokens'
    BY <1>0, <1>1 DEF MadeInv
  <2> QED
    BY <2>1, <2>2, <2>3, <2>4 DEF MadeInv
<1>3. FreshInv'
  BY <1>0 DEF FreshInv, Waits, applies, preparing
<1>4. PreparedInv'
  BY <1>0 DEF PreparedInv, Waits, applies
<1>5. QueuedInv'
  BY <1>0 DEF QueuedInv, Waits, applies
<1> QED
  BY <1>2, <1>3, <1>4, <1>5 DEF WayInv

\* Once gone, a preview stays gone.
LEMMA GoneStays ==
  ASSUME NEW n, gone(prepared, queue, settled, tokens, n), tokens \in Nat, tokens' \in Nat, tokens <= tokens',
         \A i \in DOMAIN queue' : applies(queue', i) =>
           \/ \E k \in DOMAIN queue : applies(queue, k) /\ queue'[i].preview = queue[k].preview
           \/ prepared # None /\ queue'[i].preview = prepared,
         \A i \in DOMAIN settled' : preparing(settled', i) =>
           \/ \E k \in DOMAIN settled :
                preparing(settled, k) /\ settled'[i].preview = settled[k].preview
           \/ settled'[i].preview.token = tokens + 1,
         prepared' # None =>
           \/ prepared # None /\ prepared' = prepared
           \/ \E k \in DOMAIN settled : preparing(settled, k) /\ prepared' = settled[k].preview
  PROVE  gone(prepared', queue', settled', tokens', n)
  BY DEF gone

LEMMA GoneKeeps ==
  ASSUME GoneInv, tokens \in Nat, tokens' \in Nat, tokens <= tokens', imported' = imported,
         \A i \in DOMAIN queue' : applies(queue', i) =>
           \/ \E k \in DOMAIN queue : applies(queue, k) /\ queue'[i].preview = queue[k].preview
           \/ prepared # None /\ queue'[i].preview = prepared,
         \A i \in DOMAIN settled' : preparing(settled', i) =>
           \/ \E k \in DOMAIN settled :
                preparing(settled, k) /\ settled'[i].preview = settled[k].preview
           \/ settled'[i].preview.token = tokens + 1,
         prepared' # None =>
           \/ prepared # None /\ prepared' = prepared
           \/ \E k \in DOMAIN settled : preparing(settled, k) /\ prepared' = settled[k].preview,
         \A i \in DOMAIN settled' : settled'[i].kind = "apply" =>
           \E k \in DOMAIN settled : settled'[i] = settled[k],
         card'.says = "not applied" =>
           \/ card'.of = card.of /\ card.says = "not applied"
           \/ gone(prepared, queue, settled, tokens, card'.of),
         disposed' => prepared' = None
  PROVE  GoneInv'
<1>1. \A i \in DOMAIN settled' : settled'[i].kind = "apply" =>
        /\ gone(prepared', queue', settled', tokens', settled'[i].token)
        /\ settled'[i].ok <=> settled'[i].token \in imported'
  <2> TAKE i \in DOMAIN settled'
  <2> HAVE settled'[i].kind = "apply"
  <2>1. PICK k \in DOMAIN settled : settled'[i] = settled[k]
    OBVIOUS
  <2>2. gone(prepared, queue, settled, tokens, settled[k].token)
    BY <2>1 DEF GoneInv
  <2>3. gone(prepared', queue', settled', tokens', settled[k].token)
    BY <2>2, GoneStays
  <2>4. settled[k].ok <=> settled[k].token \in imported
    BY <2>1 DEF GoneInv
  <2> QED
    BY <2>1, <2>3, <2>4
<1>2. card'.says = "not applied" => gone(prepared', queue', settled', tokens', card'.of)
  <2> HAVE card'.says = "not applied"
  <2>1. gone(prepared, queue, settled, tokens, card'.of)
    BY DEF GoneInv
  <2> QED
    BY <2>1, GoneStays
<1> QED
  BY <1>1, <1>2 DEF GoneInv

LEMMA Unmoved ==
  ASSUME TypeInv, UNCHANGED <<queue, settled>>
  PROVE  /\ Waits(0, 0)
         /\ \A i \in DOMAIN queue' : i \in DOMAIN queue /\ queue'[i] = queue[i]
         /\ \A i \in DOMAIN settled' : i \in DOMAIN settled /\ settled'[i] = settled[i]
<1>1. /\ \A i \in DOMAIN queue : i \in Nat
      /\ \A i \in DOMAIN settled : i \in Nat
  BY ElementFacts DEF TypeInv
<1> QED
  BY <1>1 DEF Waits, applies, preparing

LEMMA TxKeeps ==
  ASSUME TypeInv, TxInv, UNCHANGED database,
         1 \in DOMAIN queue => 1 \in DOMAIN queue' /\ queue'[1] = queue[1]
  PROVE  TxInv'
BY DEF TxInv, database, applies, unchangedSince

\* Operations end, move up, or go on, and the card hears of none of its own.
LEMMA OpsKeep ==
  ASSUME TypeInv, OneInv, LivesInv, NEW s \in Nat, NEW t \in Nat,
         card'.life = card.life, card.busy => card'.busy,
         picker' \in {picker, None}, decrypting' \subseteq decrypting,
         \A i \in DOMAIN queue' :
           i \in Nat /\ i + s \in DOMAIN queue /\ queue'[i].life = queue[i + s].life,
         \A i \in DOMAIN settled' :
           i \in Nat /\ i + t \in DOMAIN settled /\ settled'[i].life = settled[i + t].life
  PROVE  OneInv' /\ LivesInv'
<1>1. LivesInv'
  BY DEF LivesInv
<1>2. OneInv'
  BY DEF OneInv, pickerMine, decryptMine, queueMine, settledMine
<1> QED
  BY <1>1, <1>2

\* The card's operation ends, or a card is new.
LEMMA OpsEnd ==
  ASSUME ~pickerMine', \A d \in decrypting' : d.life # card'.life,
         \A i \in DOMAIN queue' : queue'[i].life # card'.life,
         \A i \in DOMAIN settled' : settled'[i].life # card'.life
  PROVE  OneInv'
BY DEF OneInv, decryptMine, queueMine, settledMine

\* The queues rest: what the card and the service do by themselves.
LEMMA RestKeeps ==
  ASSUME IInv, UNCHANGED <<database, queue, settled, imported, tokens>>,
         generation' \in Nat, disposed' \in BOOLEAN, decrypting' \subseteq decrypting,
         prepared' \in {prepared, None}, disposed' => prepared' = None,
         picker' # None => picker' \in Nat,
         card' \in Cards, card'.preview \in {card.preview, None},
         card'.of <= tokens,
         card'.says = "not applied" =>
           \/ card'.of = card.of /\ card.says = "not applied"
           \/ gone(prepared, queue, settled, tokens, card'.of)
  PROVE  TypeInv' /\ WayInv' /\ TxInv' /\ GoneInv'
<1>0. TypeInv /\ WayInv /\ TxInv /\ GoneInv
  BY DEF IInv, CardInv
<1>1. TypeInv'
  BY <1>0 DEF TypeInv, database
<1>2. /\ Waits(0, 0) /\ tokens \in Nat /\ tokens <= tokens' /\ tokens' = tokens
      /\ card'.of \in Nat /\ card'.of <= tokens'
  <2>1. tokens \in Nat /\ card'.of \in Nat
    BY <1>0 DEF TypeInv, Cards
  <2>2. Waits(0, 0)
    BY <1>0, Unmoved
  <2>3. tokens' = tokens
    OBVIOUS
  <2>4. tokens <= tokens
    BY <2>1, LessOrEqual
  <2>5. card'.of <= tokens'
    BY <2>3
  <2> QED
    BY <2>1, <2>2, <2>3, <2>4, <2>5
<1>3. WayInv'
  BY <1>0, <1>2, WayKeeps
<1>4. TxInv'
  BY <1>0, TxKeeps
<1>5. GoneInv'
  BY <1>0, <1>2, GoneKeeps
<1> QED
  BY <1>1, <1>3, <1>4, <1>5

\* What an idle card holds.
LEMMA IdleCard ==
  ASSUME IInv, ~card.busy
  PROVE  /\ ~pickerMine /\ \A d \in decrypting : d.life # card.life
         /\ \A i \in DOMAIN queue : queue[i].life # card.life
         /\ \A i \in DOMAIN settled : settled[i].life # card.life
BY DEF IInv, CardInv, OneInv, decryptMine, queueMine, settledMine

\* A card without an operation has not agreed to what it shows.
LEMMA OfIdle ==
  ASSUME OfInv, \A i \in DOMAIN queue : queue[i].kind = "apply" => queue[i].life # card.life,
         \A i \in DOMAIN settled : settled[i].kind = "apply" => settled[i].life # card.life
  PROVE  card.preview # None =>
           /\ card.preview.token \notin imported
           /\ \A i \in DOMAIN queue : applies(queue, i) => queue[i].preview.token # card.preview.token
BY DEF OfInv, applies, queueMine, settledMine

LEMMA OfUnused ==
  ASSUME \A i \in DOMAIN queue' : queue'[i].life # card'.life,
         \A i \in DOMAIN settled' : settled'[i].life # card'.life,
         card'.preview # None =>
           /\ card'.preview.token \notin imported'
           /\ \A i \in DOMAIN queue' : applies(queue', i) =>
                queue'[i].preview.token # card'.preview.token
  PROVE  OfInv'
BY DEF OfInv, applies, queueMine, settledMine

\* The imports under way stay those of before.
LEMMA OfKeeps ==
  ASSUME OfInv, UNCHANGED <<card, imported>>,
         \A i \in DOMAIN queue' : applies(queue', i) =>
           \E k \in DOMAIN queue : queue'[i] = queue[k],
         \A i \in DOMAIN settled' : settled'[i].kind = "apply" =>
           \E k \in DOMAIN settled : settled'[i] = settled[k],
         \A k \in DOMAIN settled : settled[k].kind = "apply" /\ settled[k].life = card.life =>
           \E i \in DOMAIN settled' : settled'[i] = settled[k]
  PROVE  OfInv'
<1>1. \A i \in DOMAIN queue' : applies(queue', i) /\ queueMine(i)' =>
        queue'[i].preview.token = card'.of /\ card'.says \in {"nothing", "expired"}
  BY DEF OfInv, applies, queueMine
<1>2. \A i \in DOMAIN settled' : settled'[i].kind = "apply" /\ settledMine(i)' =>
        settled'[i].token = card'.of /\ card'.says \in {"nothing", "expired"}
  BY DEF OfInv, settledMine
<1>3. \A i \in DOMAIN queue' :
        applies(queue', i) /\ card'.preview # None /\ queue'[i].preview.token = card'.preview.token =>
          queueMine(i)'
  BY DEF OfInv, applies, queueMine
<1>4. card'.preview # None /\ card'.preview.token \in imported' =>
        \E i \in DOMAIN settled' : settledMine(i)' /\ settled'[i].kind = "apply"
  BY DEF OfInv, settledMine
<1> QED
  BY <1>1, <1>2, <1>3, <1>4 DEF OfInv

-----------------------------------------------------------------------------
(* The card *)

\* A document picker is asked for; a second one is refused.
LEMMA PickKeeps ==
  ASSUME IInv, Pick
  PROVE  IInv'
<1>0. /\ TypeInv /\ LivesInv /\ OneInv /\ OfInv /\ ~card.busy /\ card \in Cards
      /\ UNCHANGED <<database, queue, settled, decrypting, service, imported>>
  BY DEF IInv, CardInv, Pick, TypeInv
<1>1. /\ card' \in Cards /\ card'.life = card.life /\ card'.preview = card.preview
      /\ card'.of = card.of /\ card'.says \in {"nothing", "not read"}
      /\ \/ picker' = card.life /\ card'.busy
         \/ picker' = picker /\ ~card'.busy
  BY <1>0 DEF Pick, unread, Cards
<1>2. card.of <= tokens /\ card.life \in Nat /\ (disposed => prepared = None)
  BY <1>0 DEF IInv, WayInv, MadeInv, Cards, CardInv, GoneInv
<1>3. TypeInv' /\ WayInv' /\ TxInv' /\ GoneInv'
  BY <1>0, <1>1, <1>2, RestKeeps DEF service, TypeInv
<1>4. /\ ~pickerMine /\ \A d \in decrypting : d.life # card.life
      /\ \A i \in DOMAIN queue : queue[i].life # card.life
      /\ \A i \in DOMAIN settled : settled[i].life # card.life
  BY <1>0, IdleCard
<1>5. OneInv' /\ LivesInv'
  <2>1. LivesInv'
    <3>1. card.life <= card.life
      BY <1>2
    <3> QED
      BY <1>0, <1>1, <3>1 DEF LivesInv
  <2>2. OneInv'
    BY <1>0, <1>1, <1>4 DEF OneInv, pickerMine, decryptMine, queueMine, settledMine
  <2> QED
    BY <2>1, <2>2
<1>6. OfInv'
  BY <1>0, <1>1, <1>4, OfIdle, OfUnused
<1>7. ReportIsTrue'
  BY <1>1 DEF ReportIsTrue
<1> QED
  BY <1>3, <1>5, <1>6, <1>7 DEF IInv, CardInv

\* A file is picked, or none.
LEMMA PickerReturnsKeeps ==
  ASSUME IInv, PickerReturns
  PROVE  IInv'
<1>0. /\ TypeInv /\ LivesInv /\ OneInv /\ OfInv /\ GoneInv /\ ReportIsTrue /\ card \in Cards
      /\ UNCHANGED <<database, queue, settled, service, imported>>
      /\ picker # None /\ picker' = None /\ picker \in Nat /\ card.life \in Nat
  BY DEF IInv, CardInv, PickerReturns, TypeInv, Cards
<1>1. card.of <= tokens /\ (disposed => prepared = None)
  BY <1>0 DEF IInv, WayInv, MadeInv, GoneInv
<1>2. /\ \A i \in DOMAIN queue : i \in Nat /\ i + 0 = i
      /\ \A i \in DOMAIN settled : i \in Nat /\ i + 0 = i
  BY <1>0, ElementFacts DEF TypeInv
<1>3. CASE UNCHANGED <<decrypting, card>>
  <2>1. TypeInv' /\ WayInv' /\ TxInv' /\ GoneInv'
    BY <1>0, <1>1, <1>3, RestKeeps DEF service, TypeInv
  <2>2. OneInv' /\ LivesInv'
    BY <1>0, <1>2, <1>3, OpsKeep
  <2>3. OfInv' /\ ReportIsTrue'
    BY <1>0, <1>3 DEF OfInv, ReportIsTrue, queueMine, settledMine
  <2> QED
    BY <2>1, <2>2, <2>3 DEF IInv, CardInv
<1>4. CASE picker = card.life
  <2>1. pickerMine
    BY <1>0, <1>4 DEF pickerMine
  <2>2. /\ \A d \in decrypting : d.life # card.life
        /\ \A i \in DOMAIN queue : queue[i].life # card.life
        /\ \A i \in DOMAIN settled : settled[i].life # card.life
        /\ card.busy
    BY <1>0, <2>1 DEF OneInv, decryptMine, queueMine, settledMine
  <2>3. CASE UNCHANGED decrypting /\ (card' = unread \/ card' = [card EXCEPT !.busy = FALSE])
    <3>1. /\ card' \in Cards /\ card'.life = card.life /\ card'.preview = card.preview
          /\ card'.of = card.of /\ card'.says \in {card.says, "not read"}
      BY <1>0, <2>3 DEF unread, Cards
    <3>2. TypeInv' /\ WayInv' /\ TxInv' /\ GoneInv'
      BY <1>0, <1>1, <2>3, <3>1, RestKeeps DEF service, TypeInv
    <3>3. OneInv' /\ LivesInv'
      BY <1>0, <2>2, <2>3, <3>1 DEF OneInv, LivesInv, pickerMine, decryptMine, queueMine, settledMine
    <3>4. OfInv'
      BY <1>0, <2>2, <3>1, OfIdle, OfUnused
    <3>5. ReportIsTrue'
      BY <1>0, <3>1 DEF ReportIsTrue
    <3> QED
      BY <3>2, <3>3, <3>4, <3>5 DEF IInv, CardInv
  <2>4. CASE \E f \in Files : /\ decrypting' = decrypting \cup {[life |-> picker, file |-> f]}
                              /\ UNCHANGED card
    <3>1. PICK f \in Files : decrypting' = decrypting \cup {[life |-> picker, file |-> f]}
      BY <2>4
    <3>2. TypeInv'
      BY <1>0, <2>4, <3>1 DEF TypeInv, database, service
    <3>3. WayInv' /\ TxInv' /\ GoneInv'
      <4>1. /\ Waits(0, 0) /\ tokens \in Nat /\ tokens <= tokens' /\ tokens' = tokens
            /\ card'.of \in Nat /\ card'.of <= tokens' /\ card' = card /\ prepared' = prepared
            /\ disposed' = disposed
        <5>1. tokens \in Nat /\ card.of \in Nat
          BY <1>0 DEF TypeInv, Cards
        <5>2. Waits(0, 0)
          BY <1>0, Unmoved
        <5> QED
          BY <1>0, <1>1, <2>4, <5>1, <5>2 DEF service
      <4>2. WayInv'
        BY <1>0, <4>1, WayKeeps DEF IInv
      <4>3. TxInv'
        BY <1>0, TxKeeps DEF IInv
      <4>4. GoneInv'
        BY <1>0, <1>1, <4>1, GoneKeeps
      <4> QED
        BY <4>2, <4>3, <4>4
    <3>4. OneInv' /\ LivesInv'
      <4>1. \A d \in decrypting' : d \in decrypting \/ (d = [life |-> picker, file |-> f])
        BY <3>1
      <4>2. \A d \in decrypting' : d.life = card.life => d = [life |-> picker, file |-> f]
        BY <2>2, <4>1
      <4>3. \A d \in decrypting' : d.life <= card.life
        BY <1>0, <1>4, <4>1 DEF LivesInv
      <4>4. OneInv'
        BY <1>0, <2>2, <2>4, <4>2 DEF OneInv, pickerMine, decryptMine, queueMine, settledMine
      <4> QED
        BY <1>0, <2>4, <4>3, <4>4 DEF LivesInv
    <3>5. OfInv' /\ ReportIsTrue'
      BY <1>0, <2>4 DEF OfInv, ReportIsTrue, queueMine, settledMine
    <3> QED
      BY <3>2, <3>3, <3>4, <3>5 DEF IInv, CardInv
  <2> QED
    BY <1>0, <1>3, <1>4, <2>3, <2>4 DEF PickerReturns, tell
<1> QED
  BY <1>0, <1>3, <1>4 DEF PickerReturns, tell

\* The settings page is left, and its card with it.
LEMMA ReopenKeeps ==
  ASSUME IInv, Reopen
  PROVE  IInv'
<1>0. /\ TypeInv /\ LivesInv /\ OneInv /\ OfInv /\ GoneInv /\ card \in Cards /\ card.life \in Nat
      /\ UNCHANGED <<database, queue, settled, picker, decrypting, service, imported>>
  BY DEF IInv, CardInv, Reopen, TypeInv, Cards
<1>1. /\ card' \in Cards /\ card'.life = card.life + 1 /\ card'.preview = None
      /\ card'.of = 0 /\ card'.says = "nothing"
  <2>1. card.life + 1 \in Nat /\ card' = freshCard(card.life + 1)
    BY <1>0 DEF Reopen
  <2> QED
    BY <2>1 DEF freshCard, Cards
<1>2. tokens \in Nat /\ card'.of <= tokens
  BY <1>0, <1>1 DEF TypeInv
<1>3. disposed => prepared = None
  BY <1>0 DEF GoneInv
<1>4. TypeInv' /\ WayInv' /\ TxInv' /\ GoneInv'
  BY <1>0, <1>1, <1>2, <1>3, RestKeeps DEF service, TypeInv
<1>5. /\ \A i \in DOMAIN queue : queue[i].life \in Nat
      /\ \A i \in DOMAIN settled : settled[i].life \in Nat
      /\ \A d \in decrypting : d.life \in Nat
      /\ picker # None => picker \in Nat
  <2>1. \A i \in DOMAIN queue : queue[i] \in Jobs
    BY <1>0, ElementFacts DEF TypeInv
  <2>2. \A i \in DOMAIN settled : settled[i] \in Results
    BY <1>0, ElementFacts DEF TypeInv
  <2>3. \A i \in DOMAIN queue : queue[i].life \in Nat
    BY <2>1 DEF Jobs
  <2>4. \A i \in DOMAIN settled : settled[i].life \in Nat
    BY <2>2 DEF Results
  <2> QED
    BY <1>0, <2>3, <2>4 DEF TypeInv
<1>6. /\ ~pickerMine' /\ \A d \in decrypting' : d.life # card'.life
      /\ \A i \in DOMAIN queue' : queue'[i].life # card'.life
      /\ \A i \in DOMAIN settled' : settled'[i].life # card'.life
      /\ LivesInv'
  BY <1>0, <1>1, <1>5 DEF LivesInv, pickerMine
<1>7. OneInv'
  BY <1>6, OpsEnd
<1>8. OfInv'
  BY <1>1, <1>6, OfUnused
<1>9. ReportIsTrue'
  BY <1>1 DEF ReportIsTrue
<1> QED
  BY <1>4, <1>6, <1>7, <1>8, <1>9 DEF IInv, CardInv

\* A preview is dropped by the user, by its card's timer, or by the service.
LEMMA DropKeeps ==
  ASSUME IInv, CancelPreview \/ CardExpires \/ PreviewExpires \/ Dispose
  PROVE  IInv'
<1>0. /\ TypeInv /\ LivesInv /\ OneInv /\ OfInv /\ GoneInv /\ ReportIsTrue
      /\ card \in Cards /\ card.life \in Nat /\ generation \in Nat
      /\ UNCHANGED <<database, queue, settled, picker, decrypting, tokens, imported>>
  BY DEF IInv, CardInv, CancelPreview, CardExpires, PreviewExpires, Dispose, TypeInv, Cards, service
<1>1. /\ prepared' \in {prepared, None} /\ generation' \in Nat /\ disposed' \in BOOLEAN
      /\ disposed' => prepared' = None
  <2>1. generation + 1 \in Nat
    BY <1>0
  <2>2. disposed \in BOOLEAN
    BY <1>0 DEF TypeInv
  <2>3. disposed => prepared = None
    BY <1>0 DEF GoneInv
  <2>4. CASE Dispose
    BY <2>1, <2>4 DEF Dispose
  <2>5. CASE CancelPreview \/ CardExpires \/ PreviewExpires
    <3>1. UNCHANGED <<generation, disposed>> /\ prepared' \in {prepared, None}
      BY <2>5 DEF CancelPreview, CardExpires, PreviewExpires, cancelled
    <3> QED
      BY <1>0, <2>2, <2>3, <3>1
  <2> QED
    BY <2>4, <2>5
<1>2. /\ card' \in Cards /\ card'.life = card.life /\ card'.preview \in {card.preview, None}
      /\ card'.of = card.of /\ card'.busy = card.busy
      /\ \/ card'.says = card.says
         \/ card'.says = "expired"
         \/ card'.says = "nothing" /\ ~card.busy
  BY <1>0 DEF CancelPreview, CardExpires, PreviewExpires, Dispose, Cards
<1>3. card.of <= tokens
  BY DEF IInv, WayInv, MadeInv
<1>4. TypeInv' /\ WayInv' /\ TxInv' /\ GoneInv'
  <2>1. picker' # None => picker' \in Nat
    BY <1>0 DEF TypeInv
  <2> QED
    BY <1>0, <1>1, <1>2, <1>3, <2>1, RestKeeps
<1>5. OneInv' /\ LivesInv'
  <2>1. /\ \A i \in DOMAIN queue : i \in Nat /\ i + 0 = i
        /\ \A i \in DOMAIN settled : i \in Nat /\ i + 0 = i
    BY <1>0, ElementFacts DEF TypeInv
  <2> QED
    BY <1>0, <1>2, <2>1, OpsKeep
<1>6. OfInv'
  <2>1. CASE ~card.busy
    BY <1>0, <1>2, <2>1, IdleCard, OfIdle, OfUnused
  <2>2. CASE card'.says \in {card.says, "expired"}
    BY <1>0, <1>2, <2>2 DEF OfInv, queueMine, settledMine
  <2> QED
    BY <1>2, <2>1, <2>2
<1>7. ReportIsTrue'
  BY <1>0, <1>2 DEF ReportIsTrue
<1> QED
  BY <1>4, <1>5, <1>6, <1>7 DEF IInv, CardInv

\* The user agrees to the preview on the screen: it waits for the lock, or is refused.
LEMMA ConfirmKeeps ==
  ASSUME IInv, Confirm
  PROVE  IInv'
<1> DEFINE p == card.preview
<1>0. /\ TypeInv /\ WayInv /\ LivesInv /\ OneInv /\ OfInv /\ GoneInv
      /\ card \in Cards /\ card.life \in Nat /\ p # None /\ p \in Previews /\ ~card.busy
      /\ UNCHANGED <<database, settled, picker, decrypting, generation, disposed, tokens, imported>>
  BY DEF IInv, CardInv, Confirm, TypeInv, Cards
<1>1. /\ p.token \in Nat /\ p.token <= tokens /\ p.token \notin imported
      /\ \A i \in DOMAIN queue : applies(queue, i) => queue[i].preview.token # p.token
      /\ \A i \in DOMAIN settled : preparing(settled, i) => settled[i].preview.token # p.token
  <2>0. MadeInv /\ FreshInv
    BY <1>0 DEF WayInv
  <2>1. p.token \in Nat /\ p.token <= tokens
    <3>1. p.token \in Nat
      BY <1>0 DEF Previews
    <3>2. p.token <= tokens
      BY <1>0, <2>0 DEF MadeInv
    <3> QED
      BY <3>1, <3>2
  <2>2. \A i \in DOMAIN settled : preparing(settled, i) => settled[i].preview.token # p.token
    BY <1>0, <2>0 DEF FreshInv
  <2> QED
    BY <1>0, <2>1, <2>2, IdleCard, OfIdle
<1>2. /\ ~pickerMine /\ \A d \in decrypting : d.life # card.life
      /\ \A i \in DOMAIN queue : queue[i].life # card.life
      /\ \A i \in DOMAIN settled : settled[i].life # card.life
  BY <1>0, IdleCard
<1>3. CASE disposed \/ ~isPrepared(p.token)
  <2>1. /\ card' \in Cards /\ card'.life = card.life /\ card'.preview = None /\ ~card'.busy
        /\ card'.of = p.token /\ card'.says = "not applied"
        /\ UNCHANGED <<queue, prepared>>
    BY <1>0, <1>1, <1>3 DEF Confirm, failedToApply, Cards
  <2>2. prepared # None => prepared.token # p.token
    BY <1>0, <1>3 DEF isPrepared, GoneInv
  <2>3. gone(prepared, queue, settled, tokens, p.token)
    BY <1>1, <2>2 DEF gone
  <2>4. TypeInv' /\ WayInv' /\ TxInv' /\ GoneInv'
    <3>1. /\ picker' # None => picker' \in Nat
          /\ generation' \in Nat /\ disposed' \in BOOLEAN /\ (disposed' => prepared' = None)
      BY <1>0, <2>1 DEF TypeInv, GoneInv
    <3> QED
      BY <1>0, <1>1, <2>1, <2>3, <3>1, RestKeeps
  <2>5. OneInv' /\ LivesInv'
    BY <1>0, <1>2, <2>1 DEF OneInv, LivesInv, pickerMine, decryptMine, queueMine, settledMine
  <2>6. OfInv'
    BY <1>0, <1>2, <2>1, OfUnused
  <2>7. ReportIsTrue'
    BY <1>0, <1>1, <2>1 DEF ReportIsTrue
  <2> QED
    BY <2>4, <2>5, <2>6, <2>7 DEF IInv, CardInv
<1>4. CASE ~disposed /\ isPrepared(p.token)
  <2> DEFINE j == [kind |-> "apply", life |-> card.life, preview |-> prepared]
             n == Len(queue) + 1
  <2>1. /\ prepared # None /\ prepared = p /\ prepared' = None /\ queue' = Append(queue, j)
        /\ card' = [card EXCEPT !.busy = TRUE, !.says = "nothing", !.of = p.token]
    BY <1>0, <1>4 DEF Confirm, isPrepared, WayInv, PreparedInv
  <2>2. j \in Jobs /\ j.kind = "apply" /\ j.life = card.life /\ j.preview = p
    BY <1>0, <2>1 DEF Jobs
  <2>3. /\ card' \in Cards /\ card'.life = card.life /\ card'.preview = p /\ card'.busy
        /\ card'.of = p.token /\ card'.says = "nothing"
    BY <1>0, <1>1, <2>1 DEF Cards
  <2> HIDE DEF j, n
  <2>4. /\ queue' \in Seq(Jobs) /\ n \in DOMAIN queue' /\ queue'[n] = j
        /\ \A i \in DOMAIN queue : i # n /\ i \in DOMAIN queue' /\ queue'[i] = queue[i]
        /\ \A i \in DOMAIN queue' : i \in DOMAIN queue \/ i = n
    <3>1. /\ queue \in Seq(Jobs) /\ n = Len(queue) + 1 /\ Len(queue) \in Nat
      BY <1>0, LenProperties DEF TypeInv, n
    <3>2. \A i \in Nat : i < n => i # n
      BY <3>1
    <3> QED
      BY <2>1, <2>2, <3>1, <3>2, AppendFacts
  <2>5. TypeInv'
    BY <1>0, <2>1, <2>3, <2>4 DEF TypeInv, database
  <2>6. WayInv'
    <3>1. MadeInv'
      BY <1>0, <1>1, <2>1, <2>2, <2>3, <2>4 DEF WayInv, MadeInv, applies
    <3>2. FreshInv'
      BY <1>0, <1>1, <2>1, <2>2, <2>3, <2>4 DEF WayInv, FreshInv, applies
    <3>3. PreparedInv'
      BY <2>1 DEF PreparedInv
    <3>4. QueuedInv'
      BY <1>0, <1>1, <2>1, <2>2, <2>4 DEF WayInv, QueuedInv, applies
    <3> QED
      BY <3>1, <3>2, <3>3, <3>4 DEF WayInv
  <2>7. TxInv'
    BY <1>0, <2>4, TxKeeps DEF IInv
  <2>8. OneInv' /\ LivesInv'
    <3>1. OneInv'
      BY <1>0, <1>2, <2>2, <2>3, <2>4 DEF OneInv, pickerMine, decryptMine, queueMine, settledMine
    <3>2. card.life <= card.life
      BY <1>0, LessOrEqual
    <3> QED
      BY <1>0, <2>2, <2>3, <2>4, <3>1, <3>2 DEF LivesInv
  <2>9. OfInv'
    BY <1>0, <1>1, <1>2, <2>2, <2>3, <2>4 DEF OfInv, applies, queueMine, settledMine
  <2>10. GoneInv'
    <3>1. /\ tokens \in Nat /\ tokens' \in Nat /\ tokens <= tokens'
      BY <1>0, LessOrEqual DEF TypeInv
    <3>2. \A i \in DOMAIN queue' : applies(queue', i) =>
            \/ \E k \in DOMAIN queue : applies(queue, k) /\ queue'[i].preview = queue[k].preview
            \/ prepared # None /\ queue'[i].preview = prepared
      BY <2>1, <2>2, <2>4 DEF applies
    <3> QED
      BY <1>0, <2>1, <2>3, <3>1, <3>2, GoneKeeps
  <2>11. ReportIsTrue'
    BY <2>3 DEF ReportIsTrue
  <2> QED
    BY <2>5, <2>6, <2>7, <2>8, <2>9, <2>10, <2>11 DEF IInv, CardInv
<1> QED
  BY <1>3, <1>4

-----------------------------------------------------------------------------
(* The preparation *)

\* A decrypted file waits for the lock, or could not be read.
LEMMA DecryptedKeeps ==
  ASSUME IInv, NEW d \in decrypting, Decrypted(d)
  PROVE  IInv'
<1>0. /\ TypeInv /\ WayInv /\ TxInv /\ LivesInv /\ OneInv /\ OfInv /\ GoneInv /\ ReportIsTrue
      /\ card \in Cards /\ card.life \in Nat /\ generation \in Nat /\ tokens \in Nat
      /\ d \in [life : Nat, file : Files] /\ decrypting' = decrypting \ {d}
      /\ UNCHANGED <<database, settled, picker, prepared, disposed, tokens, imported>>
  BY DEF IInv, CardInv, Decrypted, TypeInv, Cards
<1>1. card.of <= tokens /\ (disposed => prepared = None)
  BY <1>0 DEF WayInv, MadeInv, GoneInv
<1>2. CASE ~disposed /\ generation' = generation + 1 /\ UNCHANGED card
           /\ queue' = Append(queue, [kind |-> "prepare", life |-> d.life, file |-> d.file,
                                      generation |-> generation + 1])
  <2> DEFINE j == [kind |-> "prepare", life |-> d.life, file |-> d.file, generation |-> generation + 1]
             n == Len(queue) + 1
  <2>1. j \in Jobs /\ j.kind = "prepare" /\ j.life = d.life
    <3>1. generation + 1 \in Nat
      BY <1>0
    <3> QED
      BY <1>0, <3>1 DEF Jobs
  <2>2. queue' = Append(queue, j)
    BY <1>2
  <2> HIDE DEF j, n
  <2>3. /\ queue' \in Seq(Jobs) /\ n \in DOMAIN queue' /\ queue'[n] = j
        /\ \A i \in DOMAIN queue : i # n /\ i \in DOMAIN queue' /\ queue'[i] = queue[i]
        /\ \A i \in DOMAIN queue' : i \in Nat /\ i + 0 = i /\ (i \in DOMAIN queue \/ i = n)
    <3>1. /\ queue \in Seq(Jobs) /\ n = Len(queue) + 1 /\ Len(queue) \in Nat
      BY <1>0, LenProperties DEF TypeInv, n
    <3>2. \A i \in Nat : i < n => i # n
      BY <3>1
    <3> QED
      BY <2>1, <2>2, <3>1, <3>2, AppendFacts
  <2>4. TypeInv'
    <3>1. generation' \in Nat
      BY <1>0, <1>2
    <3> QED
      BY <1>0, <1>2, <2>3, <3>1 DEF TypeInv, database
  <2>5. Waits(0, 0)
    <3>1. /\ \A i \in DOMAIN settled : i \in Nat /\ i + 0 = i
      BY <1>0, ElementFacts DEF TypeInv
    <3>2. \A i \in DOMAIN queue' : applies(queue', i) => applies(queue, i) /\ queue'[i] = queue[i]
      BY <2>1, <2>3 DEF applies
    <3> QED
      BY <1>0, <2>3, <3>1, <3>2 DEF Waits, preparing
  <2>6. tokens <= tokens' /\ tokens' = tokens /\ card' = card /\ card'.of \in Nat
    BY <1>0, <1>2, LessOrEqual DEF Cards
  <2>7. WayInv'
    BY <1>0, <1>1, <2>5, <2>6, WayKeeps
  <2>8. TxInv'
    BY <1>0, <2>3, TxKeeps
  <2>9. OneInv'
    BY <1>0, <2>1, <2>3, <2>6 DEF OneInv, pickerMine, decryptMine, queueMine, settledMine
  <2>10. LivesInv'
    BY <1>0, <2>1, <2>3, <2>6 DEF LivesInv
  <2>11. OfInv'
    BY <1>0, <2>1, <2>3, <2>6 DEF OfInv, applies, queueMine, settledMine
  <2>12. GoneInv'
    <3>1. \A i \in DOMAIN queue' : applies(queue', i) =>
            \E k \in DOMAIN queue : applies(queue, k) /\ queue'[i].preview = queue[k].preview
      BY <2>1, <2>3 DEF applies
    <3> QED
      BY <1>0, <1>1, <2>6, <3>1, GoneKeeps
  <2>13. ReportIsTrue'
    BY <1>0, <2>6 DEF ReportIsTrue
  <2> QED
    BY <2>4, <2>7, <2>8, <2>9, <2>10, <2>11, <2>12, <2>13 DEF IInv, CardInv
<1>3. CASE /\ tell(d.life, unread) /\ UNCHANGED queue
           /\ generation' = generation \/ (~disposed /\ generation' = generation + 1)
  <2>1. /\ card' \in Cards /\ card'.life = card.life /\ card'.preview = card.preview
        /\ card'.of = card.of /\ (card'.says = card.says \/ card'.says = "not read")
        /\ d.life # card.life => card' = card
    BY <1>0, <1>3 DEF tell, unread, Cards
  <2>2. TypeInv' /\ WayInv' /\ TxInv' /\ GoneInv'
    <3>1. /\ picker' # None => picker' \in Nat
          /\ generation' \in Nat /\ disposed' \in BOOLEAN /\ (disposed' => prepared' = None)
      BY <1>0, <1>1, <1>3 DEF TypeInv
    <3> QED
      BY <1>0, <1>1, <1>3, <2>1, <3>1, RestKeeps
  <2>3. CASE d.life # card.life
    <3>1. /\ \A i \in DOMAIN queue : i \in Nat /\ i + 0 = i
          /\ \A i \in DOMAIN settled : i \in Nat /\ i + 0 = i
      BY <1>0, ElementFacts DEF TypeInv
    <3>2. OneInv' /\ LivesInv'
      BY <1>0, <1>3, <2>1, <2>3, <3>1, OpsKeep
    <3>3. OfInv' /\ ReportIsTrue'
      BY <1>0, <1>3, <2>1, <2>3 DEF OfInv, ReportIsTrue, queueMine, settledMine
    <3> QED
      BY <2>2, <3>2, <3>3 DEF IInv, CardInv
  <2>4. CASE d.life = card.life
    <3>1. /\ ~pickerMine /\ \A e \in decrypting' : e.life # card.life
          /\ \A i \in DOMAIN queue : queue[i].life # card.life
          /\ \A i \in DOMAIN settled : settled[i].life # card.life
      BY <1>0, <2>4 DEF OneInv, decryptMine, queueMine, settledMine
    <3>2. OneInv'
      BY <1>0, <1>3, <2>1, <3>1, OpsEnd DEF pickerMine
    <3>3. LivesInv'
      BY <1>0, <1>3, <2>1 DEF LivesInv
    <3>4. OfInv'
      BY <1>0, <1>3, <2>1, <3>1, OfIdle, OfUnused
    <3>5. ReportIsTrue'
      BY <1>0, <2>1 DEF ReportIsTrue
    <3> QED
      BY <2>2, <3>2, <3>3, <3>4, <3>5 DEF IInv, CardInv
  <2> QED
    BY <2>3, <2>4
<1> QED
  BY <1>2, <1>3 DEF Decrypted

\* The first job leaves the lock with a result of the same card.
LEMMA LeaveFacts ==
  ASSUME IInv, queue # <<>>, NEW r \in Results, leave(r), r.life = queue[1].life
  PROVE  /\ queue[1] \in Jobs /\ queue' \in Seq(Jobs) /\ settled' \in Seq(Results) /\ 1 \in DOMAIN queue
         /\ \A i \in DOMAIN queue' :
              i \in Nat /\ i + 1 # 1 /\ i + 1 \in DOMAIN queue /\ queue'[i] = queue[i + 1]
         /\ \A i \in DOMAIN settled : i \in DOMAIN settled' /\ settled'[i] = settled[i]
         /\ \E n \in DOMAIN settled' :
              /\ n \notin DOMAIN settled /\ settled'[n] = r
              /\ \A i \in DOMAIN settled' : i \in Nat /\ i + 0 = i /\ (i = n \/ i \in DOMAIN settled)
<1>0. queue \in Seq(Jobs) /\ settled \in Seq(Results)
  BY DEF IInv, TypeInv
<1>1. queue' = Tail(queue) /\ settled' = Append(settled, r)
  BY DEF leave
<1>2. /\ queue[1] \in Jobs /\ queue' \in Seq(Jobs) /\ 1 \in DOMAIN queue
      /\ \A i \in DOMAIN queue' : i \in Nat \ {0} /\ i + 1 \in DOMAIN queue /\ queue'[i] = queue[i + 1]
  BY <1>0, <1>1, TailFacts
<1>3. \A i \in Nat \ {0} : i + 1 # 1
  OBVIOUS
<1>4. /\ settled' \in Seq(Results) /\ Len(settled) + 1 \in DOMAIN settled' /\ Len(settled) \in Nat
      /\ settled'[Len(settled) + 1] = r
      /\ \A i \in DOMAIN settled : i < Len(settled) + 1 /\ i \in DOMAIN settled' /\ settled'[i] = settled[i]
      /\ \A i \in DOMAIN settled' : i \in Nat /\ (i \in DOMAIN settled \/ i = Len(settled) + 1)
  BY <1>0, <1>1, AppendFacts, LenProperties
<1>5. Len(settled) + 1 \notin DOMAIN settled /\ \A i \in Nat : i + 0 = i
  BY <1>4
<1> QED
  BY <1>2, <1>3, <1>4, <1>5

\* Its card does not notice.
LEMMA LeaveKeepsOps ==
  ASSUME IInv, queue # <<>>, NEW r \in Results, leave(r), r.life = queue[1].life,
         UNCHANGED <<picker, decrypting, card>>
  PROVE  OneInv' /\ LivesInv'
<1>0. OneInv /\ LivesInv
  BY DEF IInv, CardInv
<1>1. PICK n \in DOMAIN settled' :
        /\ n \notin DOMAIN settled /\ settled'[n] = r
        /\ \A i \in DOMAIN settled' : i \in Nat /\ i + 0 = i /\ (i = n \/ i \in DOMAIN settled)
  BY LeaveFacts
<1>2. /\ 1 \in DOMAIN queue
      /\ \A i \in DOMAIN queue' :
           i \in Nat /\ i + 1 # 1 /\ i + 1 \in DOMAIN queue /\ queue'[i] = queue[i + 1]
      /\ \A i \in DOMAIN settled : i \in DOMAIN settled' /\ settled'[i] = settled[i]
  BY LeaveFacts
<1>3. \A i, j \in Nat : i + 1 = j + 1 => i = j
  OBVIOUS
<1>4. LivesInv'
  BY <1>0, <1>1, <1>2 DEF LivesInv
<1>5. OneInv'
  BY <1>0, <1>1, <1>2, <1>3 DEF OneInv, pickerMine, decryptMine, queueMine, settledMine
<1> QED
  BY <1>4, <1>5

\* Under the lock a preview is made, with a new token, or the reading fails.
LEMMA PrepareReadsKeeps ==
  ASSUME IInv, PrepareReads
  PROVE  IInv'
<1> DEFINE view == Import!Overwritten(job.file, rows, settings)
           new == [token |-> tokens + 1, file |-> job.file, view |-> view]
<1>0. /\ TypeInv /\ WayInv /\ TxInv /\ OfInv /\ GoneInv /\ ReportIsTrue
      /\ card \in Cards /\ tokens \in Nat /\ tx = None
      /\ queue # <<>> /\ queue[1] = job /\ job \in Jobs /\ job.kind = "prepare"
      /\ UNCHANGED <<database, picker, decrypting, prepared, generation, disposed, card, imported>>
  <2>1. queue # <<>> /\ queue \in Seq(Jobs)
    BY DEF IInv, TypeInv, PrepareReads, holds
  <2>2. queue[1] = job /\ job \in Jobs
    BY <2>1, TailFacts DEF job
  <2> QED
    BY <2>1, <2>2 DEF IInv, CardInv, PrepareReads, holds, TypeInv, job
<1>1. /\ job.life \in Nat /\ job.generation \in Nat /\ job.file \in Files
  BY <1>0 DEF Jobs
<1>2. new \in Previews /\ new.token = tokens + 1 /\ tokens + 1 \in Nat
  <2>1. view \in Views
    BY <1>0, <1>1, OverwrittenIsView DEF TypeInv
  <2>2. tokens + 1 \in Nat
    BY <1>0
  <2> QED
    BY <1>1, <2>1, <2>2 DEF Previews
<1> HIDE DEF view
<1>3. PICK made \in Previews \cup {None} :
        /\ leave(prepareResult(made))
        /\ \/ made = new /\ tokens' = tokens + 1
           \/ made = None /\ tokens' = tokens
  BY <1>2 DEF PrepareReads, view
<1> HIDE DEF new
<1> DEFINE r == prepareResult(made)
<1>4. r \in Results /\ r.kind = "prepare" /\ r.life = queue[1].life /\ r.preview = made
  BY <1>0, <1>1 DEF prepareResult, Results
<1> HIDE DEF r
<1>5. leave(r)
  BY <1>3 DEF r
<1>6. /\ queue' \in Seq(Jobs) /\ settled' \in Seq(Results) /\ 1 \in DOMAIN queue
      /\ \A i \in DOMAIN queue' :
           i \in Nat /\ i + 1 # 1 /\ i + 1 \in DOMAIN queue /\ queue'[i] = queue[i + 1]
      /\ \A i \in DOMAIN settled : i \in DOMAIN settled' /\ settled'[i] = settled[i]
      /\ \A i, j \in Nat : i + 1 = j + 1 => i = j
  BY <1>0, <1>4, <1>5, LeaveFacts
<1>7. PICK n \in DOMAIN settled' :
        /\ n \notin DOMAIN settled /\ settled'[n] = r
        /\ \A i \in DOMAIN settled' : i \in Nat /\ i + 0 = i /\ (i = n \/ i \in DOMAIN settled)
  BY <1>0, <1>4, <1>5, LeaveFacts
<1>8. tokens' \in Nat /\ tokens <= tokens' /\ \A x \in Nat : x <= tokens => x <= tokens'
  BY <1>0, <1>3
<1>9. preparing(settled', n) => /\ made = new /\ made.token = tokens + 1 /\ tokens' = tokens + 1
                                /\ \A x \in Nat : x <= tokens => x # tokens + 1
  BY <1>0, <1>2, <1>3, <1>4, <1>7 DEF preparing
<1>10. TypeInv'
  BY <1>0, <1>6, <1>8 DEF TypeInv, database
<1>11. /\ MadeInv /\ FreshInv /\ PreparedInv /\ QueuedInv
       /\ \A i \in DOMAIN queue : applies(queue, i) => queue[i].preview.token \in Nat
       /\ \A i \in DOMAIN settled : preparing(settled, i) => settled[i].preview.token \in Nat
       /\ prepared # None => prepared.token \in Nat
       /\ card.preview # None => card.preview.token \in Nat
       /\ card.of \in Nat
  BY <1>0, TokensAreNumbers DEF WayInv, Cards
<1>12. WayInv'
  <2>1. \A i \in DOMAIN queue' : applies(queue', i) =>
          applies(queue, i + 1) /\ queue'[i].preview = queue[i + 1].preview
    BY <1>6 DEF applies
  <2>2. \A i \in DOMAIN settled' : i # n /\ preparing(settled', i) =>
          preparing(settled, i) /\ settled'[i].preview = settled[i].preview
    BY <1>6, <1>7 DEF preparing
  <2>3. MadeInv'
    <3>1. imported' \subseteq 0 .. tokens'
      BY <1>0, <1>8, <1>11 DEF MadeInv
    <3>2. \A i \in DOMAIN queue' : applies(queue', i) => queue'[i].preview.token <= tokens'
      BY <1>8, <1>11, <2>1, <1>6 DEF MadeInv
    <3>3. \A i \in DOMAIN settled' : preparing(settled', i) => settled'[i].preview.token <= tokens'
      <4> TAKE i \in DOMAIN settled'
      <4>1. CASE i = n
        BY <1>4, <1>7, <1>8, <1>9, <4>1, LessOrEqual
      <4>2. CASE i # n
        BY <1>7, <1>8, <1>11, <2>2, <4>2 DEF MadeInv
      <4> QED
        BY <4>1, <4>2
    <3>4. /\ prepared' # None => prepared'.token <= tokens'
          /\ card'.preview # None => card'.preview.token <= tokens'
          /\ card'.of <= tokens'
      BY <1>0, <1>8, <1>11 DEF MadeInv
    <3> QED
      BY <3>1, <3>2, <3>3, <3>4 DEF MadeInv
  <2>4. FreshInv'
    <3> SUFFICES ASSUME NEW i \in DOMAIN settled', preparing(settled', i)
                 PROVE
                   /\ prepared' # None => prepared'.token # settled'[i].preview.token
                   /\ card'.preview # None => card'.preview.token # settled'[i].preview.token
                   /\ \A j \in DOMAIN queue' : applies(queue', j) =>
                        queue'[j].preview.token # settled'[i].preview.token
                   /\ \A j \in DOMAIN settled' : j # i /\ preparing(settled', j) =>
                        settled'[j].preview.token # settled'[i].preview.token
                   /\ settled'[i].preview.token \notin imported'
      BY DEF FreshInv
    <3>1. CASE i = n
      <4>1. settled'[i].preview.token = tokens + 1 /\ \A x \in Nat : x <= tokens => x # tokens + 1
        BY <1>4, <1>7, <1>9, <3>1
      <4>2. \A j \in DOMAIN queue' : applies(queue', j) => queue'[j].preview.token # tokens + 1
        BY <1>6, <1>11, <2>1, <4>1 DEF MadeInv
      <4>3. \A j \in DOMAIN settled' : j # i /\ preparing(settled', j) =>
              settled'[j].preview.token # tokens + 1
        BY <1>7, <1>11, <2>2, <3>1, <4>1 DEF MadeInv
      <4>4. tokens + 1 \notin imported'
        BY <1>0, <1>11 DEF MadeInv
      <4>5. /\ prepared' # None => prepared'.token # tokens + 1
            /\ card'.preview # None => card'.preview.token # tokens + 1
        BY <1>0, <1>11, <4>1 DEF MadeInv
      <4> QED
        BY <4>1, <4>2, <4>3, <4>4, <4>5
    <3>2. CASE i # n
      <4>1. i \in DOMAIN settled /\ preparing(settled, i) /\ settled'[i].preview = settled[i].preview
        BY <1>7, <2>2, <3>2
      <4>2. \A j \in DOMAIN settled' : j # i /\ preparing(settled', j) =>
              settled'[j].preview.token # settled'[i].preview.token
        <5> TAKE j \in DOMAIN settled'
        <5> HAVE j # i /\ preparing(settled', j)
        <5>1. CASE j = n
          BY <1>4, <1>7, <1>9, <1>11, <4>1, <5>1 DEF MadeInv
        <5>2. CASE j # n
          BY <1>7, <1>11, <2>2, <4>1, <5>2 DEF FreshInv
        <5> QED
          BY <5>1, <5>2
      <4>3. \A j \in DOMAIN queue' : applies(queue', j) =>
              queue'[j].preview.token # settled'[i].preview.token
        BY <1>6, <1>11, <2>1, <4>1 DEF FreshInv
      <4> QED
        BY <1>0, <1>11, <4>1, <4>2, <4>3 DEF FreshInv
    <3> QED
      BY <3>1, <3>2
  <2>5. PreparedInv'
    BY <1>0, <1>6, <1>11, <2>1 DEF PreparedInv
  <2>6. QueuedInv'
    BY <1>0, <1>6, <1>11, <2>1 DEF QueuedInv
  <2> QED
    BY <2>3, <2>4, <2>5, <2>6 DEF WayInv
<1>13. TxInv'
  BY <1>0 DEF TxInv, database
<1>14. OneInv' /\ LivesInv'
  BY <1>0, <1>4, <1>5, LeaveKeepsOps
<1>15. OfInv'
  <2>1. \A i \in DOMAIN queue' : applies(queue', i) => \E k \in DOMAIN queue : queue'[i] = queue[k]
    BY <1>6
  <2>2. \A i \in DOMAIN settled' : settled'[i].kind = "apply" =>
          \E k \in DOMAIN settled : settled'[i] = settled[k]
    BY <1>4, <1>6, <1>7
  <2> QED
    BY <1>0, <1>6, <2>1, <2>2, OfKeeps
<1>16. GoneInv'
  <2>1. \A i \in DOMAIN queue' : applies(queue', i) =>
          \E k \in DOMAIN queue : applies(queue, k) /\ queue'[i].preview = queue[k].preview
    BY <1>6 DEF applies
  <2>2. \A i \in DOMAIN settled' : preparing(settled', i) =>
          \/ \E k \in DOMAIN settled :
               preparing(settled, k) /\ settled'[i].preview = settled[k].preview
          \/ settled'[i].preview.token = tokens + 1
    BY <1>4, <1>6, <1>7, <1>9 DEF preparing
  <2>3. \A i \in DOMAIN settled' : settled'[i].kind = "apply" =>
          \E k \in DOMAIN settled : settled'[i] = settled[k]
    BY <1>4, <1>6, <1>7
  <2>4. disposed' => prepared' = None
    BY <1>0 DEF GoneInv
  <2> QED
    BY <1>0, <1>8, <2>1, <2>2, <2>3, <2>4, GoneKeeps
<1>17. ReportIsTrue'
  BY <1>0 DEF ReportIsTrue
<1> QED
  BY <1>10, <1>12, <1>13, <1>14, <1>15, <1>16, <1>17 DEF IInv, CardInv

\* The first settled job is heard of.
LEMMA HeardFacts ==
  ASSUME TypeInv, settled # <<>>, settled' = Tail(settled), UNCHANGED queue
  PROVE  /\ settled' \in Seq(Results) /\ 1 \in DOMAIN settled /\ Head(settled) = settled[1]
         /\ settled[1] \in Results
         /\ \A i \in DOMAIN settled' :
              i \in Nat /\ i + 1 # 1 /\ i + 1 \in DOMAIN settled /\ settled'[i] = settled[i + 1]
         /\ \A i \in DOMAIN settled : i # 1 => \E k \in DOMAIN settled' : settled'[k] = settled[i]
         /\ \A i \in DOMAIN queue' : i \in Nat /\ i + 0 = i /\ i \in DOMAIN queue /\ queue'[i] = queue[i]
         /\ \A i, j \in Nat : i + 1 = j + 1 => i = j
<1>0. settled \in Seq(Results) /\ queue \in Seq(Jobs)
  BY DEF TypeInv
<1>1. /\ settled' \in Seq(Results) /\ 1 \in DOMAIN settled /\ Head(settled) = settled[1]
      /\ settled[1] \in Results
      /\ \A i \in DOMAIN settled' : i \in Nat \ {0} /\ i + 1 \in DOMAIN settled /\ settled'[i] = settled[i + 1]
  BY <1>0, TailFacts
<1>2. \A i \in Nat \ {0} : i + 1 # 1
  OBVIOUS
<1>3. \A i \in DOMAIN queue : i \in Nat /\ i + 0 = i
  BY <1>0, ElementFacts
<1>4. \A i \in DOMAIN settled : i # 1 => i - 1 \in DOMAIN settled' /\ settled'[i - 1] = settled[i]
  <2>1. /\ Len(settled) \in Nat \ {0} /\ DOMAIN settled = 1 .. Len(settled)
        /\ Len(settled') = Len(settled) - 1 /\ DOMAIN settled' = 1 .. Len(settled')
    BY <1>0, <1>1, EmptySeq, HeadTailProperties, LenProperties
  <2>2. \A i \in DOMAIN settled : i # 1 => i - 1 \in DOMAIN settled' /\ (i - 1) + 1 = i
    BY <2>1
  <2> QED
    BY <1>1, <2>2
<1>5. \A i, j \in Nat : i + 1 = j + 1 => i = j
  OBVIOUS
<1> QED
  BY <1>1, <1>2, <1>3, <1>4, <1>5

\* The card hears of it if it is its own, and is then idle.
LEMMA HeardKeepsOps ==
  ASSUME IInv, settled # <<>>, settled' = Tail(settled), UNCHANGED <<queue, picker, decrypting>>,
         card'.life = card.life, settled[1].life # card.life => card' = card
  PROVE  /\ OneInv' /\ LivesInv'
         /\ settled[1].life = card.life =>
              /\ \A i \in DOMAIN queue' : queue'[i].life # card.life
              /\ \A i \in DOMAIN settled' : settled'[i].life # card.life
<1>0. TypeInv /\ OneInv /\ LivesInv
  BY DEF IInv, CardInv
<1>1. /\ 1 \in DOMAIN settled
      /\ \A i \in DOMAIN settled' :
           i \in Nat /\ i + 1 # 1 /\ i + 1 \in DOMAIN settled /\ settled'[i] = settled[i + 1]
      /\ \A i \in DOMAIN queue' : i \in Nat /\ i + 0 = i /\ i \in DOMAIN queue /\ queue'[i] = queue[i]
  BY <1>0, HeardFacts
<1>2. LivesInv'
  BY <1>0, <1>1 DEF LivesInv
<1>3. CASE settled[1].life # card.life
  <2>1. card' = card /\ picker' \in {picker, None} /\ decrypting' \subseteq decrypting
    BY <1>3
  <2>2. \A i \in DOMAIN queue' : i + 0 \in DOMAIN queue /\ queue'[i].life = queue[i + 0].life
    BY <1>1
  <2>3. OneInv'
    BY <1>0, <1>1, <2>1, <2>2, OpsKeep
  <2> QED
    BY <1>2, <1>3, <2>3
<1>4. CASE settled[1].life = card.life
  <2>1. /\ ~pickerMine /\ \A e \in decrypting : e.life # card.life
        /\ \A i \in DOMAIN queue : queue[i].life # card.life
        /\ \A i \in DOMAIN settled : i # 1 => settled[i].life # card.life
    BY <1>0, <1>1, <1>4 DEF OneInv, decryptMine, queueMine, settledMine
  <2>2. /\ \A i \in DOMAIN queue' : queue'[i].life # card.life
        /\ \A i \in DOMAIN settled' : settled'[i].life # card.life
    BY <1>1, <2>1
  <2>3. OneInv'
    BY <2>1, <2>2, OpsEnd DEF pickerMine
  <2> QED
    BY <1>2, <2>2, <2>3
<1> QED
  BY <1>3, <1>4

\* The newest preparation becomes the preview of the service and of its card.
LEMMA PrepareEndsKeeps ==
  ASSUME IInv, PrepareEnds
  PROVE  IInv'
<1> DEFINE r == settled[1]
<1>0. /\ TypeInv /\ WayInv /\ TxInv /\ OfInv /\ GoneInv /\ ReportIsTrue
      /\ card \in Cards /\ card.life \in Nat /\ tokens \in Nat
      /\ settled # <<>> /\ r = Head(settled) /\ r.kind = "prepare" /\ settled' = Tail(settled)
      /\ UNCHANGED <<database, queue, picker, decrypting, generation, disposed, tokens, imported>>
      /\ disposed => prepared = None
  <2>1. /\ TypeInv /\ WayInv /\ TxInv /\ OfInv /\ GoneInv /\ ReportIsTrue /\ card \in Cards
    BY DEF IInv, CardInv, TypeInv
  <2>2. settled # <<>> /\ settled' = Tail(settled)
    BY DEF PrepareEnds
  <2>3. r = Head(settled)
    BY <2>1, <2>2, HeardFacts DEF PrepareEnds
  <2> QED
    BY <2>1, <2>2, <2>3 DEF PrepareEnds, TypeInv, Cards, GoneInv
<1>1. /\ settled' \in Seq(Results) /\ 1 \in DOMAIN settled /\ r \in Results
      /\ \A i \in DOMAIN settled' :
           i \in Nat /\ i + 1 # 1 /\ i + 1 \in DOMAIN settled /\ settled'[i] = settled[i + 1]
      /\ \A i \in DOMAIN settled : i # 1 => \E k \in DOMAIN settled' : settled'[k] = settled[i]
      /\ \A i \in DOMAIN queue' : i \in Nat /\ i + 0 = i /\ i \in DOMAIN queue /\ queue'[i] = queue[i]
      /\ \A i, j \in Nat : i + 1 = j + 1 => i = j
  BY <1>0, HeardFacts
<1>2. /\ r.preview \in Previews \cup {None} /\ r.life \in Nat
  BY <1>0, <1>1 DEF Results
<1> HIDE DEF r
<1>3. /\ \A i \in DOMAIN queue' : applies(queue', i) => applies(queue, i) /\ queue'[i] = queue[i]
      /\ \A i \in DOMAIN settled' : preparing(settled', i) =>
           preparing(settled, i + 1) /\ settled'[i] = settled[i + 1]
      /\ Waits(0, 1)
  BY <1>1 DEF applies, preparing, Waits
<1>4. /\ tokens' = tokens /\ tokens <= tokens' /\ card.of \in Nat /\ card.of <= tokens
  BY <1>0, LessOrEqual DEF WayInv, MadeInv, Cards
<1>5. TxInv'
  BY <1>0, <1>1, TxKeeps
<1>6. CASE (r.preview = None \/ disposed \/ r.generation # generation)
           /\ tell(r.life, unread) /\ UNCHANGED prepared
  <2>1. /\ card' \in Cards /\ card'.life = card.life /\ card'.preview = card.preview
        /\ card'.of = card.of /\ (card'.says = card.says \/ card'.says = "not read")
        /\ r.life # card.life => card' = card
    BY <1>0, <1>6 DEF tell, unread, Cards
  <2>2. TypeInv'
    BY <1>0, <1>1, <1>6, <2>1 DEF TypeInv, database
  <2>3. WayInv'
    BY <1>0, <1>3, <1>4, <1>6, <2>1, WayKeeps
  <2>4. OneInv' /\ LivesInv' /\ (r.life = card.life =>
              /\ \A i \in DOMAIN queue' : queue'[i].life # card.life
              /\ \A i \in DOMAIN settled' : settled'[i].life # card.life)
    BY <1>0, <2>1, HeardKeepsOps DEF r
  <2>5. OfInv'
    <3>1. CASE r.life = card.life
      <4>1. /\ \A i \in DOMAIN queue : queue[i].life # card.life
            /\ \A i \in DOMAIN settled : settled[i].kind = "apply" => settled[i].life # card.life
        <5>1. \A i \in DOMAIN settled : settled[i].kind = "apply" => i # 1
          BY <1>0 DEF r
        <5>2. /\ \A i \in DOMAIN queue' : queue'[i].life # card.life
              /\ \A i \in DOMAIN settled' : settled'[i].life # card.life
          BY <2>4, <3>1
        <5>3. \A i \in DOMAIN settled : settled[i].kind = "apply" => settled[i].life # card.life
          BY <1>1, <5>1, <5>2
        <5> QED
          BY <1>0, <5>2, <5>3
      <4>2. card.preview # None =>
              /\ card.preview.token \notin imported
              /\ \A i \in DOMAIN queue : applies(queue, i) =>
                   queue[i].preview.token # card.preview.token
        BY <1>0, <4>1, OfIdle
      <4> QED
        BY <1>0, <2>1, <2>4, <3>1, <4>2, OfUnused
    <3>2. CASE r.life # card.life
      <4>1. \A i \in DOMAIN settled' : \E k \in DOMAIN settled : settled'[i] = settled[k]
        BY <1>1
      <4>2. \A k \in DOMAIN settled : settled[k].kind = "apply" /\ settled[k].life = card.life =>
              \E i \in DOMAIN settled' : settled'[i] = settled[k]
        BY <1>1, <3>2 DEF r
      <4> QED
        BY <1>0, <1>3, <2>1, <3>2, <4>1, <4>2, OfKeeps
    <3> QED
      BY <3>1, <3>2
  <2>6. GoneInv'
    <3>1. \A i \in DOMAIN settled' : \E k \in DOMAIN settled :
            settled'[i] = settled[k] /\ (preparing(settled', i) => preparing(settled, k))
      BY <1>1, <1>3
    <3> QED
      BY <1>0, <1>3, <1>4, <1>6, <2>1, <3>1, GoneKeeps
  <2>7. ReportIsTrue'
    BY <1>0, <2>1 DEF ReportIsTrue
  <2> QED
    BY <1>5, <2>2, <2>3, <2>4, <2>5, <2>6, <2>7 DEF IInv, CardInv
<1>7. CASE /\ r.preview # None /\ ~disposed /\ prepared' = r.preview
           /\ tell(r.life, [card EXCEPT !.busy = FALSE, !.preview = r.preview])
  <2>1. /\ card' \in Cards /\ card'.life = card.life
        /\ card'.of = card.of /\ card'.says = card.says
        /\ r.life # card.life => card' = card
        /\ r.life = card.life => card'.preview = r.preview
    BY <1>0, <1>2, <1>7 DEF tell, Cards
  <2>2. preparing(settled, 1) /\ r.preview \in Previews /\ r.preview.token \in Nat
    BY <1>0, <1>1, <1>2, <1>7 DEF preparing, r, Previews
  <2>3. TypeInv'
    BY <1>0, <1>1, <1>7, <2>1, <2>2 DEF TypeInv, database
  <2>4. MadeInv /\ FreshInv /\ PreparedInv /\ QueuedInv
    BY <1>0 DEF WayInv
  <2>5. /\ r.preview.token <= tokens /\ r.preview.token \notin imported
        /\ card.preview # None => card.preview.token # r.preview.token
        /\ \A j \in DOMAIN queue : applies(queue, j) => queue[j].preview.token # r.preview.token
        /\ \A j \in DOMAIN settled : j # 1 /\ preparing(settled, j) =>
             settled[j].preview.token # r.preview.token
    BY <1>1, <2>2, <2>4 DEF MadeInv, FreshInv, r
  <2>6. WayInv'
    <3>1. MadeInv'
      <4>1. card'.preview # None => card'.preview.token <= tokens
        BY <2>1, <2>4, <2>5 DEF MadeInv
      <4> QED
        <5>1. \A i \in DOMAIN queue' : applies(queue', i) => queue'[i].preview.token <= tokens
          BY <1>3, <2>4 DEF MadeInv, applies
        <5>2. \A i \in DOMAIN settled' : preparing(settled', i) => settled'[i].preview.token <= tokens
          BY <1>1, <1>3, <2>4 DEF MadeInv
        <5>3. prepared'.token <= tokens /\ card'.of <= tokens /\ imported' \subseteq 0 .. tokens
          BY <1>0, <1>4, <1>7, <2>1, <2>4, <2>5 DEF MadeInv
        <5> QED
          BY <1>4, <4>1, <5>1, <5>2, <5>3 DEF MadeInv
    <3>2. FreshInv'
      <4> SUFFICES ASSUME NEW i \in DOMAIN settled', preparing(settled', i)
                   PROVE
                     /\ prepared' # None => prepared'.token # settled'[i].preview.token
                     /\ card'.preview # None => card'.preview.token # settled'[i].preview.token
                     /\ \A j \in DOMAIN queue' : applies(queue', j) =>
                          queue'[j].preview.token # settled'[i].preview.token
                     /\ \A j \in DOMAIN settled' : j # i /\ preparing(settled', j) =>
                          settled'[j].preview.token # settled'[i].preview.token
                     /\ settled'[i].preview.token \notin imported'
        BY DEF FreshInv
      <4>1. i + 1 \in DOMAIN settled /\ i + 1 # 1 /\ preparing(settled, i + 1) /\ settled'[i] = settled[i + 1]
        BY <1>1, <1>3
      <4>2. r.preview.token # settled'[i].preview.token
        BY <2>5, <4>1
      <4>3. \A j \in DOMAIN settled' : j # i /\ preparing(settled', j) =>
              settled'[j].preview.token # settled'[i].preview.token
        <5> TAKE j \in DOMAIN settled'
        <5> HAVE j # i /\ preparing(settled', j)
        <5>1. /\ j + 1 \in DOMAIN settled /\ preparing(settled, j + 1) /\ settled'[j] = settled[j + 1]
              /\ j + 1 # i + 1
          BY <1>1, <1>3
        <5>2. settled[j + 1].preview.token # settled[i + 1].preview.token
          BY <2>4, <4>1, <5>1 DEF FreshInv
        <5> QED
          BY <4>1, <5>1, <5>2
      <4>4. card'.preview # None => card'.preview.token # settled'[i].preview.token
        BY <2>1, <2>4, <4>1, <4>2 DEF FreshInv
      <4>5. \A j \in DOMAIN queue' : applies(queue', j) =>
              queue'[j].preview.token # settled'[i].preview.token
        BY <1>3, <2>4, <4>1 DEF FreshInv, applies
      <4> QED
        BY <1>0, <1>7, <2>4, <4>1, <4>2, <4>3, <4>4, <4>5 DEF FreshInv
    <3>3. PreparedInv'
      <4>1. \A j \in DOMAIN queue' : applies(queue', j) => queue'[j].preview.token # prepared'.token
        BY <1>3, <1>7, <2>5 DEF applies
      <4>2. card'.preview # None /\ card'.preview.token = prepared'.token => card'.preview = prepared'
        BY <1>7, <2>1, <2>5
      <4> QED
        BY <1>0, <1>7, <2>5, <4>1, <4>2 DEF PreparedInv
    <3>4. QueuedInv'
      BY <1>0, <2>4 DEF QueuedInv
    <3> QED
      BY <3>1, <3>2, <3>3, <3>4 DEF WayInv
  <2>7. OneInv' /\ LivesInv' /\ (r.life = card.life =>
              /\ \A i \in DOMAIN queue' : queue'[i].life # card.life
              /\ \A i \in DOMAIN settled' : settled'[i].life # card.life)
    BY <1>0, <2>1, HeardKeepsOps DEF r
  <2>8. OfInv'
    <3>1. CASE r.life = card.life
      <4>1. \A i \in DOMAIN queue' : applies(queue', i) => queue'[i].preview.token # card'.preview.token
        BY <1>3, <2>1, <2>5, <3>1 DEF applies
      <4> QED
        BY <1>0, <2>1, <2>5, <2>7, <3>1, <4>1, OfUnused
    <3>2. CASE r.life # card.life
      <4>1. \A i \in DOMAIN settled' : \E k \in DOMAIN settled : settled'[i] = settled[k]
        BY <1>1
      <4>2. \A k \in DOMAIN settled : settled[k].kind = "apply" /\ settled[k].life = card.life =>
              \E i \in DOMAIN settled' : settled'[i] = settled[k]
        BY <1>1, <3>2 DEF r
      <4> QED
        BY <1>0, <1>3, <2>1, <3>2, <4>1, <4>2, OfKeeps
    <3> QED
      BY <3>1, <3>2
  <2>9. GoneInv'
    <3>1. \A i \in DOMAIN settled' : \E k \in DOMAIN settled :
            settled'[i] = settled[k] /\ (preparing(settled', i) => preparing(settled, k))
      BY <1>1, <1>3
    <3>2. preparing(settled, 1) /\ prepared' = settled[1].preview /\ ~disposed'
      BY <1>0, <1>7, <2>2 DEF r
    <3> QED
      BY <1>0, <1>1, <1>3, <1>4, <2>1, <3>1, <3>2, GoneKeeps
  <2>10. ReportIsTrue'
    BY <1>0, <2>1 DEF ReportIsTrue
  <2> QED
    BY <1>5, <2>3, <2>6, <2>7, <2>8, <2>9, <2>10 DEF IInv, CardInv
<1> QED
  BY <1>0, <1>6, <1>7 DEF PrepareEnds

-----------------------------------------------------------------------------
(* The transaction *)

\* Only the database moves.
LEMMA DatabaseKeeps ==
  ASSUME IInv, UNCHANGED <<queue, settled, picker, decrypting, service, card, imported>>,
         rows' \in [Dates -> Rows], settings' \in Values, TxInv'
  PROVE  IInv'
<1>0. TypeInv /\ WayInv /\ OneInv /\ LivesInv /\ OfInv /\ GoneInv /\ ReportIsTrue
  BY DEF IInv, CardInv
<1>1. TypeInv'
  BY <1>0 DEF TypeInv, service
<1>2. WayInv'
  BY <1>0 DEF WayInv, MadeInv, FreshInv, PreparedInv, QueuedInv, service
<1>3. OneInv' /\ LivesInv' /\ OfInv'
  BY <1>0 DEF OneInv, LivesInv, OfInv, pickerMine, decryptMine, queueMine, settledMine
<1>4. GoneInv' /\ ReportIsTrue'
  BY <1>0 DEF GoneInv, ReportIsTrue, service
<1> QED
  BY <1>1, <1>2, <1>3, <1>4 DEF IInv, CardInv

\* What a queued import is about.
LEMMA JobFacts ==
  ASSUME TypeInv, queue # <<>>, Head(queue).kind = "apply"
  PROVE  /\ 1 \in DOMAIN queue /\ job = queue[1] /\ applies(queue, 1)
         /\ job.life \in Nat /\ job.preview \in Previews /\ job.preview.token \in Nat
         /\ job.preview.file \in Files
         /\ DOMAIN job.preview.file.entries \subseteq Dates
         /\ \A d \in DOMAIN job.preview.file.entries : job.preview.file.entries[d] \in Rows
         /\ job.preview.file.settings \in Values \cup {NoSettings}
<1>1. queue \in Seq(Jobs)
  BY DEF TypeInv
<1>2. 1 \in DOMAIN queue /\ job = queue[1] /\ job \in Jobs /\ job.kind = "apply"
  BY <1>1, TailFacts DEF job
<1>3. job.life \in Nat /\ job.preview \in Previews
  BY <1>2 DEF Jobs
<1>4. job.preview.token \in Nat /\ job.preview.file \in Files
  BY <1>3 DEF Previews
<1> QED
  BY <1>2, <1>3, <1>4, FilesAssumption DEF applies, Rows

LEMMA BeginKeeps ==
  ASSUME IInv, Begin
  PROVE  IInv'
<1> DEFINE p == job.preview
<1>0. /\ TypeInv /\ queue # <<>> /\ Head(queue).kind = "apply" /\ unchangedSince(p)
      /\ UNCHANGED <<rows, settings, queue, settled, picker, decrypting, service, card, imported>>
      /\ rows \in [Dates -> Rows] /\ settings \in Values
      /\ tx' = [rows |-> rows, settings |-> settings, todo |-> Targets(p.file)]
  BY DEF IInv, TypeInv, Begin, holds, Targets
<1>1. /\ 1 \in DOMAIN queue /\ p = queue[1].preview /\ applies(queue, 1)
      /\ DOMAIN p.file.entries \subseteq Dates
  BY <1>0, JobFacts
<1> HIDE DEF p
<1>2. /\ Targets(p.file) \subseteq Dates \cup {"settings"}
      /\ \A d \in DOMAIN p.file.entries : d \in Targets(p.file)
      /\ p.file.settings # NoSettings => "settings" \in Targets(p.file)
  BY <1>1 DEF Targets
<1>3. /\ tx' \in [rows : [Dates -> Rows], settings : Values, todo : SUBSET (Dates \cup {"settings"})]
      /\ tx'.rows = rows' /\ tx'.settings = settings' /\ tx'.todo = Targets(p.file)
  BY <1>0, <1>2
<1>4. Import!Overwritten(p.file, rows', settings') = p.view
  BY <1>0 DEF unchangedSince
<1>5. TxInv'
  <2>1. applies(queue', 1) /\ p = queue'[1].preview
    BY <1>0, <1>1
  <2>2. \A d \in Dates :
          tx'.rows[d] = IF d \in DOMAIN p.file.entries \ tx'.todo
                        THEN p.file.entries[d] ELSE rows'[d]
    BY <1>2, <1>3
  <2>3. tx'.settings =
          IF p.file.settings # NoSettings /\ "settings" \notin tx'.todo
          THEN p.file.settings ELSE settings'
    BY <1>2, <1>3
  <2> QED
    BY <1>3, <1>4, <2>1, <2>2, <2>3 DEF TxInv, unchangedSince
<1> QED
  BY <1>0, <1>5, DatabaseKeeps

LEMMA StatementKeeps ==
  ASSUME IInv, Statement
  PROVE  IInv'
<1> DEFINE p == job.preview
<1>0. /\ TypeInv /\ TxInv /\ tx # None /\ applies(queue, 1)
      /\ UNCHANGED <<rows, settings, queue, settled, picker, decrypting, service, card, imported>>
      /\ rows \in [Dates -> Rows] /\ settings \in Values
  BY DEF IInv, TypeInv, TxInv, Statement
<1>1. p = queue[1].preview /\ job = queue[1] /\ queue # <<>> /\ Head(queue).kind = "apply"
  <2>1. queue \in Seq(Jobs) /\ queue # <<>>
    BY <1>0, EmptySeq, LenProperties DEF TypeInv, applies
  <2>2. Head(queue) = queue[1]
    BY <2>1, TailFacts
  <2> QED
    BY <1>0, <2>1, <2>2 DEF job, applies
<1>2. /\ p.file \in Files /\ DOMAIN p.file.entries \subseteq Dates
      /\ \A d \in DOMAIN p.file.entries : p.file.entries[d] \in Rows
      /\ p.file.settings \in Values \cup {NoSettings}
  BY <1>0, <1>1, JobFacts
<1>3. PICK t \in tx.todo :
        tx' = IF t = "settings"
              THEN [tx EXCEPT !.settings = p.file.settings, !.todo = @ \ {t}]
              ELSE [tx EXCEPT !.rows[t] = p.file.entries[t], !.todo = @ \ {t}]
  BY DEF Statement
<1> HIDE DEF p
<1>4. /\ tx \in [rows : [Dates -> Rows], settings : Values, todo : SUBSET (Dates \cup {"settings"})]
      /\ unchangedSince(p) /\ tx.todo \subseteq Targets(p.file)
      /\ \A d \in Dates :
           tx.rows[d] = IF d \in DOMAIN p.file.entries \ tx.todo THEN p.file.entries[d] ELSE rows[d]
      /\ tx.settings = IF p.file.settings # NoSettings /\ "settings" \notin tx.todo
                       THEN p.file.settings ELSE settings
  BY <1>0, <1>1 DEF TxInv
<1>5. /\ t = "settings" => p.file.settings # NoSettings /\ p.file.settings \in Values /\ t \notin Dates
      /\ t # "settings" => t \in DOMAIN p.file.entries /\ t \in Dates /\ p.file.entries[t] \in Rows
  BY <1>2, <1>4, FilesAssumption DEF Targets
<1>6. /\ tx' \in [rows : [Dates -> Rows], settings : Values, todo : SUBSET (Dates \cup {"settings"})]
      /\ tx'.todo = tx.todo \ {t}
      /\ tx'.settings = IF t = "settings" THEN p.file.settings ELSE tx.settings
      /\ \A d \in Dates : tx'.rows[d] = IF d = t THEN p.file.entries[d] ELSE tx.rows[d]
  <2>1. CASE t = "settings"
    BY <1>3, <1>4, <1>5, <2>1
  <2>2. CASE t # "settings"
    BY <1>3, <1>4, <1>5, <2>2
  <2> QED
    BY <2>1, <2>2
<1>7. TxInv'
  <2>1. applies(queue', 1) /\ p = queue'[1].preview
    BY <1>0, <1>1
  <2>5. Import!Overwritten(p.file, rows', settings') = p.view
    BY <1>0, <1>4 DEF unchangedSince
  <2>2. \A d \in Dates :
          tx'.rows[d] = IF d \in DOMAIN p.file.entries \ tx'.todo
                        THEN p.file.entries[d] ELSE rows'[d]
    BY <1>0, <1>4, <1>5, <1>6
  <2>3. tx'.settings =
          IF p.file.settings # NoSettings /\ "settings" \notin tx'.todo
          THEN p.file.settings ELSE settings'
    BY <1>0, <1>4, <1>5, <1>6
  <2>4. tx'.todo \subseteq Targets(p.file)
    BY <1>4, <1>6
  <2> QED
    BY <1>6, <2>1, <2>2, <2>3, <2>4, <2>5 DEF TxInv, unchangedSince
<1> QED
  BY <1>0, <1>7, DatabaseKeeps

LEMMA EditKeeps ==
  ASSUME IInv, Edit
  PROVE  IInv'
<1>1. /\ tx' = None /\ UNCHANGED <<queue, settled, picker, decrypting, service, card, imported>>
      /\ rows' \in [Dates -> Rows] /\ settings' \in Values
  BY DEF IInv, TypeInv, Edit, Rows
<1>2. TxInv'
  BY <1>1 DEF TxInv
<1> QED
  BY <1>1, <1>2, DatabaseKeeps

\* Everything under way ends with the process.
LEMMA KillKeeps ==
  ASSUME IInv, Kill
  PROVE  IInv'
<1>0. /\ TypeInv /\ WayInv /\ card \in Cards /\ card.life \in Nat /\ tokens \in Nat
  BY DEF IInv, TypeInv, Cards
<1>1. /\ tx' = None /\ queue' = <<>> /\ settled' = <<>> /\ picker' = None /\ decrypting' = {}
      /\ prepared' = None /\ generation' = 0 /\ disposed' = FALSE
      /\ UNCHANGED <<rows, settings, tokens, imported>>
      /\ card' \in Cards /\ card'.preview = None /\ card'.of = 0 /\ card'.says = "nothing"
  BY <1>0 DEF Kill, freshCard, Cards
<1>2. DOMAIN queue' = {} /\ DOMAIN settled' = {}
  BY <1>1
<1>3. 0 <= tokens
  BY <1>0
<1>4. TypeInv'
  <2>1. queue' \in Seq(Jobs) /\ settled' \in Seq(Results) /\ generation' \in Nat /\ disposed' \in BOOLEAN
    BY <1>1, EmptySeq
  <2> QED
    BY <1>0, <1>1, <2>1 DEF TypeInv
<1>5. WayInv'
  BY <1>0, <1>1, <1>2, <1>3 DEF WayInv, MadeInv, FreshInv, PreparedInv, QueuedInv
<1>6. TxInv'
  BY <1>1 DEF TxInv
<1>7. OneInv' /\ LivesInv' /\ OfInv'
  BY <1>1, <1>2 DEF OneInv, LivesInv, OfInv, pickerMine
<1>8. GoneInv' /\ ReportIsTrue'
  BY <1>1, <1>2 DEF GoneInv, ReportIsTrue
<1> QED
  BY <1>4, <1>5, <1>6, <1>7, <1>8 DEF IInv, CardInv

\* The import leaves the lock: refused, rolled back, or committed.
LEMMA ApplyLeavesKeeps ==
  ASSUME IInv, NEW ok \in BOOLEAN, queue # <<>>, Head(queue).kind = "apply",
         leave(applyResult(ok)), tx' = None, rows' \in [Dates -> Rows], settings' \in Values,
         imported' = IF ok THEN imported \cup {job.preview.token} ELSE imported,
         UNCHANGED <<picker, decrypting, service, card>>
  PROVE  IInv'
<1> DEFINE r == applyResult(ok)
           t == job.preview.token
<1>0. /\ TypeInv /\ WayInv /\ OfInv /\ GoneInv /\ ReportIsTrue
      /\ card \in Cards /\ tokens \in Nat
      /\ MadeInv /\ FreshInv /\ PreparedInv /\ QueuedInv
      /\ UNCHANGED <<prepared, generation, disposed, tokens>>
  BY DEF IInv, CardInv, TypeInv, WayInv, service
<1>1. /\ 1 \in DOMAIN queue /\ job = queue[1] /\ applies(queue, 1)
      /\ job.life \in Nat /\ t \in Nat
  BY <1>0, JobFacts
<1>2. r \in Results /\ r.kind = "apply" /\ r.life = queue[1].life /\ r.token = t /\ r.ok = ok
  BY <1>1 DEF applyResult, Results
<1>3. leave(r)
  OBVIOUS
<1>4. t = queue[1].preview.token
  BY <1>1
<1> HIDE DEF r, t
<1>5. /\ queue' \in Seq(Jobs) /\ settled' \in Seq(Results)
      /\ \A i \in DOMAIN queue' :
           i \in Nat /\ i + 1 # 1 /\ i + 1 \in DOMAIN queue /\ queue'[i] = queue[i + 1]
      /\ \A i \in DOMAIN settled : i \in DOMAIN settled' /\ settled'[i] = settled[i]
      /\ \A i, j \in Nat : i + 1 = j + 1 => i = j
  BY <1>2, <1>3, LeaveFacts
<1>6. PICK n \in DOMAIN settled' :
        /\ n \notin DOMAIN settled /\ settled'[n] = r
        /\ \A i \in DOMAIN settled' : i \in Nat /\ i + 0 = i /\ (i = n \/ i \in DOMAIN settled)
  BY <1>2, <1>3, LeaveFacts
<1>7. /\ t <= tokens /\ t \notin imported
      /\ prepared # None => prepared.token # t
      /\ \A j \in DOMAIN queue : j # 1 /\ applies(queue, j) => queue[j].preview.token # t
      /\ \A j \in DOMAIN settled : preparing(settled, j) => settled[j].preview.token # t
  <2>1. t <= tokens
    BY <1>0, <1>1, <1>4 DEF MadeInv
  <2>2. t \notin imported /\ \A j \in DOMAIN queue : j # 1 /\ applies(queue, j) => queue[j].preview.token # t
    BY <1>0, <1>1, <1>4 DEF QueuedInv
  <2>3. prepared # None => prepared.token # t
    BY <1>0, <1>1, <1>4 DEF PreparedInv
  <2>4. \A j \in DOMAIN settled : preparing(settled, j) => settled[j].preview.token # t
    BY <1>0, <1>1, <1>4 DEF FreshInv
  <2> QED
    BY <2>1, <2>2, <2>3, <2>4
<1>8. /\ \A i \in DOMAIN queue' : applies(queue', i) =>
           applies(queue, i + 1) /\ queue'[i].preview = queue[i + 1].preview
      /\ \A i \in DOMAIN settled' : preparing(settled', i) =>
           i \in DOMAIN settled /\ preparing(settled, i) /\ settled'[i] = settled[i]
  BY <1>2, <1>5, <1>6 DEF applies, preparing
<1>9. /\ \A x : x \in imported' => x \in imported \/ x = t
      /\ imported \subseteq imported' /\ (ok => t \in imported') /\ (~ok => imported' = imported)
  BY DEF t
<1>10. TypeInv'
  BY <1>0, <1>5 DEF TypeInv
<1>11. WayInv'
  <2>1. MadeInv'
    <3>1. imported' \subseteq 0 .. tokens'
      <4>1. t \in 0 .. tokens
        BY <1>0, <1>1, <1>7 DEF t
      <4> QED
        BY <1>0, <1>9, <4>1 DEF MadeInv
    <3>2. \A i \in DOMAIN queue' : applies(queue', i) => queue'[i].preview.token <= tokens
      BY <1>0, <1>5, <1>8 DEF MadeInv
    <3>3. \A i \in DOMAIN settled' : preparing(settled', i) => settled'[i].preview.token <= tokens
      BY <1>0, <1>8 DEF MadeInv
    <3> QED
      BY <1>0, <3>1, <3>2, <3>3 DEF MadeInv
  <2>2. FreshInv'
    <3> SUFFICES ASSUME NEW i \in DOMAIN settled', preparing(settled', i)
                 PROVE
                   /\ prepared' # None => prepared'.token # settled'[i].preview.token
                   /\ card'.preview # None => card'.preview.token # settled'[i].preview.token
                   /\ \A j \in DOMAIN queue' : applies(queue', j) =>
                        queue'[j].preview.token # settled'[i].preview.token
                   /\ \A j \in DOMAIN settled' : j # i /\ preparing(settled', j) =>
                        settled'[j].preview.token # settled'[i].preview.token
                   /\ settled'[i].preview.token \notin imported'
      BY DEF FreshInv
    <3>1. i \in DOMAIN settled /\ preparing(settled, i) /\ settled'[i] = settled[i]
      BY <1>8
    <3>2. \A j \in DOMAIN queue' : applies(queue', j) =>
            queue'[j].preview.token # settled'[i].preview.token
      BY <1>0, <1>5, <1>8, <3>1 DEF FreshInv
    <3>3. \A j \in DOMAIN settled' : j # i /\ preparing(settled', j) =>
            settled'[j].preview.token # settled'[i].preview.token
      BY <1>0, <1>8, <3>1 DEF FreshInv
    <3>4. settled'[i].preview.token \notin imported'
      BY <1>0, <1>7, <1>9, <3>1 DEF FreshInv
    <3> QED
      BY <1>0, <3>1, <3>2, <3>3, <3>4 DEF FreshInv
  <2>3. PreparedInv'
    BY <1>0, <1>5, <1>7, <1>8, <1>9 DEF PreparedInv
  <2>4. QueuedInv'
    <3> SUFFICES ASSUME NEW i \in DOMAIN queue', applies(queue', i)
                 PROVE  /\ \A j \in DOMAIN queue' : j # i /\ applies(queue', j) =>
                             queue'[j].preview.token # queue'[i].preview.token
                        /\ queue'[i].preview.token \notin imported'
      BY DEF QueuedInv
    <3>1. /\ i + 1 \in DOMAIN queue /\ i + 1 # 1 /\ i \in Nat /\ applies(queue, i + 1)
          /\ queue'[i].preview = queue[i + 1].preview
      BY <1>5, <1>8
    <3>2. \A j \in DOMAIN queue' : j # i /\ applies(queue', j) =>
            queue'[j].preview.token # queue'[i].preview.token
      <4> TAKE j \in DOMAIN queue'
      <4> HAVE j # i /\ applies(queue', j)
      <4>1. /\ j + 1 \in DOMAIN queue /\ j + 1 # i + 1 /\ applies(queue, j + 1)
            /\ queue'[j].preview = queue[j + 1].preview
        BY <1>5, <1>8, <3>1
      <4> QED
        BY <1>0, <3>1, <4>1 DEF QueuedInv
    <3> QED
      BY <1>0, <1>7, <1>9, <3>1, <3>2 DEF QueuedInv
  <2> QED
    BY <2>1, <2>2, <2>3, <2>4 DEF WayInv
<1>12. TxInv'
  BY DEF TxInv
<1>13. OneInv' /\ LivesInv'
  BY <1>2, <1>3, LeaveKeepsOps
<1>14. OfInv'
  <2>1. \A i \in DOMAIN queue' : applies(queue', i) /\ queueMine(i)' =>
          queue'[i].preview.token = card'.of /\ card'.says \in {"nothing", "expired"}
    BY <1>0, <1>5, <1>8 DEF OfInv, queueMine
  <2>2. \A i \in DOMAIN settled' : settled'[i].kind = "apply" /\ settledMine(i)' =>
          settled'[i].token = card'.of /\ card'.says \in {"nothing", "expired"}
    BY <1>0, <1>1, <1>2, <1>4, <1>5, <1>6 DEF OfInv, queueMine, settledMine
  <2>3. \A i \in DOMAIN queue' :
          applies(queue', i) /\ card'.preview # None /\ queue'[i].preview.token = card'.preview.token =>
            queueMine(i)'
    BY <1>0, <1>5, <1>8 DEF OfInv, queueMine
  <2>4. card'.preview # None /\ card'.preview.token \in imported' =>
          \E i \in DOMAIN settled' : settledMine(i)' /\ settled'[i].kind = "apply"
    <3>1. CASE card.preview # None /\ card.preview.token \in imported
      BY <1>0, <1>5, <3>1 DEF OfInv, settledMine
    <3>2. CASE card.preview # None /\ card.preview.token = t
      BY <1>0, <1>1, <1>2, <1>4, <1>6, <3>2 DEF OfInv, queueMine, settledMine
    <3> QED
      BY <1>9, <3>1, <3>2
  <2> QED
    BY <2>1, <2>2, <2>3, <2>4 DEF OfInv
<1>15. \A x : gone(prepared, queue, settled, tokens, x) =>
         gone(prepared', queue', settled', tokens', x) /\ (x \in imported' <=> x \in imported)
  <2> SUFFICES ASSUME NEW x, gone(prepared, queue, settled, tokens, x)
               PROVE  gone(prepared', queue', settled', tokens', x) /\ (x \in imported' <=> x \in imported)
    OBVIOUS
  <2>1. gone(prepared', queue', settled', tokens', x)
    BY <1>0, <1>5, <1>8 DEF gone
  <2>2. x # t
    BY <1>1, <1>4 DEF gone
  <2> QED
    BY <1>9, <2>1, <2>2
<1>16. GoneInv'
  <2>1. gone(prepared', queue', settled', tokens', t)
    BY <1>0, <1>1, <1>5, <1>7, <1>8 DEF gone, t
  <2>2. ok <=> t \in imported'
    BY <1>7, <1>9
  <2>3. \A i \in DOMAIN settled' : settled'[i].kind = "apply" =>
          /\ gone(prepared', queue', settled', tokens', settled'[i].token)
          /\ settled'[i].ok <=> settled'[i].token \in imported'
    <3> TAKE i \in DOMAIN settled'
    <3> HAVE settled'[i].kind = "apply"
    <3>1. CASE i = n
      BY <1>2, <1>6, <2>1, <2>2, <3>1
    <3>2. CASE i # n
      <4>1. i \in DOMAIN settled /\ settled'[i] = settled[i]
        BY <1>5, <1>6, <3>2
      <4>2. /\ gone(prepared, queue, settled, tokens, settled[i].token)
            /\ settled[i].ok <=> settled[i].token \in imported
        BY <1>0, <4>1 DEF GoneInv
      <4> QED
        BY <1>15, <4>1, <4>2
    <3> QED
      BY <3>1, <3>2
  <2>4. card'.says = "not applied" => gone(prepared', queue', settled', tokens', card'.of)
    BY <1>0, <1>15 DEF GoneInv
  <2>5. disposed' => prepared' = None
    BY <1>0 DEF GoneInv
  <2> QED
    BY <2>3, <2>4, <2>5 DEF GoneInv
<1>17. ReportIsTrue'
  BY <1>0, <1>9, <1>15 DEF ReportIsTrue, GoneInv
<1> QED
  BY <1>10, <1>11, <1>12, <1>13, <1>14, <1>16, <1>17 DEF IInv, CardInv

LEMMA ApplyKeeps ==
  ASSUME IInv, Refuse \/ RollBack \/ Commit
  PROVE  IInv'
<1>0. TypeInv /\ TxInv /\ rows \in [Dates -> Rows] /\ settings \in Values
  BY DEF IInv, TypeInv
<1>1. CASE Refuse
  BY <1>0, <1>1, ApplyLeavesKeeps DEF Refuse, holds, database
<1>2. CASE tx # None
  <2>1. /\ queue # <<>> /\ Head(queue).kind = "apply"
        /\ tx \in [rows : [Dates -> Rows], settings : Values, todo : SUBSET (Dates \cup {"settings"})]
    <3>1. applies(queue, 1) /\ queue \in Seq(Jobs)
      BY <1>0, <1>2 DEF TxInv, TypeInv
    <3>2. queue # <<>>
      BY <3>1, EmptySeq, LenProperties DEF applies
    <3>3. Head(queue) = queue[1]
      BY <3>1, <3>2, TailFacts
    <3> QED
      BY <1>0, <1>2, <3>1, <3>2, <3>3 DEF TxInv, applies
  <2>2. CASE RollBack
    BY <1>0, <2>1, <2>2, ApplyLeavesKeeps DEF RollBack, failureOf
  <2>3. CASE Commit
    <3>1. rows' \in [Dates -> Rows] /\ settings' \in Values
      BY <2>1, <2>3 DEF Commit
    <3> QED
      BY <2>1, <2>3, <3>1, ApplyLeavesKeeps DEF Commit
  <2> QED
    BY <1>1, <2>2, <2>3
<1> QED
  BY <1>1, <1>2 DEF RollBack, Commit

\* The card that asked for the import reports it.
LEMMA ApplyEndsKeeps ==
  ASSUME IInv, ApplyEnds
  PROVE  IInv'
<1> DEFINE r == settled[1]
<1>0. /\ TypeInv /\ WayInv /\ TxInv /\ OfInv /\ GoneInv /\ ReportIsTrue
      /\ card \in Cards /\ card.life \in Nat /\ tokens \in Nat
      /\ settled # <<>> /\ r = Head(settled) /\ r.kind = "apply" /\ settled' = Tail(settled)
      /\ UNCHANGED <<database, queue, picker, decrypting, service, imported>>
      /\ disposed => prepared = None
  <2>1. /\ TypeInv /\ WayInv /\ TxInv /\ OfInv /\ GoneInv /\ ReportIsTrue /\ card \in Cards
    BY DEF IInv, CardInv, TypeInv
  <2>2. settled # <<>> /\ settled' = Tail(settled) /\ UNCHANGED queue
    BY DEF ApplyEnds
  <2>3. r = Head(settled)
    BY <2>1, <2>2, HeardFacts
  <2> QED
    BY <2>1, <2>2, <2>3 DEF ApplyEnds, TypeInv, Cards, GoneInv
<1>1. /\ settled' \in Seq(Results) /\ 1 \in DOMAIN settled
      /\ \A i \in DOMAIN settled' :
           i \in Nat /\ i + 1 # 1 /\ i + 1 \in DOMAIN settled /\ settled'[i] = settled[i + 1]
      /\ \A i \in DOMAIN settled : i # 1 => \E k \in DOMAIN settled' : settled'[k] = settled[i]
      /\ \A i \in DOMAIN queue' : i \in Nat /\ i + 0 = i /\ i \in DOMAIN queue /\ queue'[i] = queue[i]
  BY <1>0, HeardFacts
<1>2. /\ gone(prepared, queue, settled, tokens, r.token) /\ (r.ok <=> r.token \in imported)
      /\ r.life = card.life => r.token = card.of
  BY <1>0, <1>1 DEF GoneInv, OfInv, settledMine
<1> HIDE DEF r
<1>3. /\ \A i \in DOMAIN queue' : applies(queue', i) => applies(queue, i) /\ queue'[i] = queue[i]
      /\ \A i \in DOMAIN settled' : preparing(settled', i) =>
           preparing(settled, i + 1) /\ settled'[i] = settled[i + 1]
      /\ Waits(0, 1)
  BY <1>1 DEF applies, preparing, Waits
<1>4. /\ tokens' = tokens /\ tokens <= tokens' /\ card.of \in Nat /\ card.of <= tokens
      /\ prepared' = prepared /\ disposed' = disposed
  BY <1>0, LessOrEqual DEF WayInv, MadeInv, Cards, service
<1>5. /\ card' \in Cards /\ card'.life = card.life /\ card'.of = card.of
      /\ r.life # card.life => card' = card
      /\ r.life = card.life =>
           card'.preview = None /\ card'.says = IF r.ok THEN "restored" ELSE "not applied"
  BY <1>0 DEF ApplyEnds, tell, failedToApply, Cards
<1>6. TypeInv'
  BY <1>0, <1>1, <1>5 DEF TypeInv, database, service
<1>7. WayInv'
  BY <1>0, <1>3, <1>4, <1>5, WayKeeps
<1>8. TxInv'
  BY <1>0, <1>1, TxKeeps
<1>9. OneInv' /\ LivesInv' /\ (r.life = card.life =>
            /\ \A i \in DOMAIN queue' : queue'[i].life # card.life
            /\ \A i \in DOMAIN settled' : settled'[i].life # card.life)
  BY <1>0, <1>5, HeardKeepsOps DEF r
<1>10. OfInv'
  <2>1. CASE r.life = card.life
    BY <1>0, <1>5, <1>9, <2>1, OfUnused
  <2>2. CASE r.life # card.life
    <3>1. \A i \in DOMAIN settled' : \E k \in DOMAIN settled : settled'[i] = settled[k]
      BY <1>1
    <3>2. \A k \in DOMAIN settled : settled[k].kind = "apply" /\ settled[k].life = card.life =>
            \E i \in DOMAIN settled' : settled'[i] = settled[k]
      BY <1>1, <2>2 DEF r
    <3> QED
      BY <1>0, <1>3, <1>5, <2>2, <3>1, <3>2, OfKeeps
  <2> QED
    BY <2>1, <2>2
<1>11. GoneInv'
  <2>1. \A i \in DOMAIN settled' : \E k \in DOMAIN settled :
          settled'[i] = settled[k] /\ (preparing(settled', i) => preparing(settled, k))
    BY <1>1, <1>3
  <2>2. card'.says = "not applied" =>
          \/ card'.of = card.of /\ card.says = "not applied"
          \/ gone(prepared, queue, settled, tokens, card'.of)
    BY <1>2, <1>5
  <2> QED
    BY <1>0, <1>3, <1>4, <2>1, <2>2, GoneKeeps
<1>12. ReportIsTrue'
  BY <1>0, <1>2, <1>5 DEF ReportIsTrue
<1> QED
  BY <1>6, <1>7, <1>8, <1>9, <1>10, <1>11, <1>12 DEF IInv, CardInv

-----------------------------------------------------------------------------
LEMMA InitHolds ==
  ASSUME Init
  PROVE  IInv
<1>1. /\ tx = None /\ queue = <<>> /\ settled = <<>> /\ picker = None /\ decrypting = {}
      /\ prepared = None /\ generation = 0 /\ disposed = FALSE /\ tokens = 0 /\ imported = {}
      /\ card \in Cards /\ card.preview = None /\ card.of = 0 /\ card.says = "nothing"
      /\ rows \in [Dates -> Rows] /\ settings \in Values
  BY DEF Init, freshCard, Cards, Rows
<1>2. DOMAIN queue = {} /\ DOMAIN settled = {} /\ 0 <= tokens
  BY <1>1
<1>3. TypeInv
  <2>1. queue \in Seq(Jobs) /\ settled \in Seq(Results) /\ generation \in Nat /\ tokens \in Nat
        /\ disposed \in BOOLEAN
    BY <1>1, EmptySeq
  <2> QED
    BY <1>1, <2>1 DEF TypeInv
<1>4. WayInv
  BY <1>1, <1>2 DEF WayInv, MadeInv, FreshInv, PreparedInv, QueuedInv
<1>5. TxInv
  BY <1>1 DEF TxInv
<1>6. OneInv /\ LivesInv /\ OfInv
  BY <1>1, <1>2 DEF OneInv, LivesInv, OfInv, pickerMine
<1>7. GoneInv /\ ReportIsTrue
  BY <1>1, <1>2 DEF GoneInv, ReportIsTrue
<1> QED
  BY <1>3, <1>4, <1>5, <1>6, <1>7 DEF IInv, CardInv

\* A preview's token is used once, a card has one operation under way, and an open
\* transaction holds what of its file it has written.
THEOREM InductiveInvariant == Spec => []IInv
<1>1. Init => IInv
  BY InitHolds
<1>2. IInv /\ [Next]_vars => IInv'
  <2> SUFFICES ASSUME IInv, [Next]_vars
               PROVE  IInv'
    OBVIOUS
  <2>1. CASE Next
    BY <2>1, PickKeeps, PickerReturnsKeeps, ReopenKeeps, ConfirmKeeps, DropKeeps, DecryptedKeeps,
       PrepareReadsKeeps, PrepareEndsKeeps, BeginKeeps, StatementKeeps, ApplyKeeps, ApplyEndsKeeps,
       EditKeeps, KillKeeps DEF Next
  <2>2. CASE UNCHANGED vars
    <3>1. /\ UNCHANGED <<queue, settled, picker, decrypting, service, card, imported>>
          /\ UNCHANGED <<rows, settings, tx>>
      BY <2>2 DEF vars, database
    <3>2. rows' \in [Dates -> Rows] /\ settings' \in Values /\ TxInv'
      BY <3>1 DEF IInv, TypeInv, TxInv, unchangedSince
    <3> QED
      BY <3>1, <3>2, DatabaseKeeps
  <2> QED
    BY <2>1, <2>2
<1> QED
  BY <1>1, <1>2, PTL DEF Spec

\* DataTransferCard.tsx:228-237: what the card says of an import is so, for every
\* number of cards, files, edits and deaths of the process.
THEOREM ReportsAreTrue == Spec => []ReportIsTrue
<1>1. IInv => ReportIsTrue
  BY DEF IInv, CardInv
<1> QED
  BY <1>1, InductiveInvariant, PTL

-----------------------------------------------------------------------------
(* The atomic import *)

Offered == IF card.preview = None THEN {} ELSE {card.preview}
Agreed == {queue[i].preview : i \in {j \in DOMAIN queue : queue[j].kind = "apply"}}

\* The steps of the promise, said of what the mapping makes of this module.
LEMMA PromiseSteps ==
  /\ UNCHANGED <<rows, settings, Agreed>> => Import!Offer \/ UNCHANGED Import!vars
  /\ /\ Agreed' \subseteq Agreed /\ Offered' \in {Offered, {}} /\ UNCHANGED <<rows, settings>>
     => Import!GiveUp
  /\ \A q \in Offered : Agreed' = Agreed \cup {q} /\ UNCHANGED <<rows, settings, Offered>>
       => Import!Agree(q)
<1>1. UNCHANGED <<rows, settings, Agreed>> => Import!Offer \/ UNCHANGED Import!vars
  BY DEF Import!Offer, Import!vars, Agreed
<1>2. Agreed' \subseteq Agreed /\ Offered' \in {Offered, {}} /\ UNCHANGED <<rows, settings>> => Import!GiveUp
  BY DEF Import!GiveUp, Agreed, Offered
<1>3. \A q \in Offered : Agreed' = Agreed \cup {q} /\ UNCHANGED <<rows, settings, Offered>>
       => Import!Agree(q)
  BY DEF Import!Agree, Agreed, Offered
<1> QED
  BY <1>1, <1>2, <1>3

LEMMA AgreedFacts ==
  ASSUME TypeInv
  PROVE  /\ \A q : q \in Agreed <=> \E i \in DOMAIN queue : applies(queue, i) /\ q = queue[i].preview
         /\ \A q : q \in Agreed' <=> \E i \in DOMAIN queue' : applies(queue', i) /\ q = queue'[i].preview
BY DEF Agreed, applies

\* When the first job leaves the queue, no preview is newly agreed to.
LEMMA LeaveAgreed ==
  ASSUME TypeInv, queue # <<>>, queue' = Tail(queue)
  PROVE  /\ Agreed' \subseteq Agreed
         /\ Head(queue).kind = "prepare" => Agreed' = Agreed
         /\ Head(queue).kind = "apply" /\ QueuedInv => Agreed' = Agreed \ {Head(queue).preview}
<1>0. queue \in Seq(Jobs)
  BY DEF TypeInv
<1>1. /\ 1 \in DOMAIN queue /\ Head(queue) = queue[1]
      /\ \A i \in DOMAIN queue' : i \in Nat \ {0} /\ i + 1 \in DOMAIN queue /\ queue'[i] = queue[i + 1]
  BY <1>0, TailFacts
<1>2. \A i \in DOMAIN queue : i # 1 => i - 1 \in DOMAIN queue' /\ queue'[i - 1] = queue[i]
  <2>1. /\ Len(queue) \in Nat \ {0} /\ DOMAIN queue = 1 .. Len(queue)
        /\ Len(queue') = Len(queue) - 1 /\ DOMAIN queue' = 1 .. Len(queue')
    BY <1>0, EmptySeq, HeadTailProperties, LenProperties
  <2>2. \A i \in DOMAIN queue : i # 1 => i - 1 \in DOMAIN queue' /\ (i - 1) + 1 = i
    BY <2>1
  <2> QED
    BY <1>1, <2>2
<1>3. /\ \A i \in DOMAIN queue' : \E k \in DOMAIN queue : k # 1 /\ queue'[i] = queue[k]
      /\ \A k \in DOMAIN queue : k # 1 => \E i \in DOMAIN queue' : queue'[i] = queue[k]
  <2>1. \A i \in Nat \ {0} : i + 1 # 1
    OBVIOUS
  <2> QED
    BY <1>1, <1>2, <2>1
<1>4. Agreed' \subseteq Agreed
  BY <1>3, AgreedFacts DEF applies
<1>5. ASSUME Head(queue).kind = "prepare"
      PROVE  Agreed' = Agreed
  <2>1. \A q : q \in Agreed => q \in Agreed'
    BY <1>1, <1>3, <1>5, AgreedFacts DEF applies
  <2> QED
    BY <1>4, <2>1
<1>6. ASSUME Head(queue).kind = "apply", QueuedInv
      PROVE  Agreed' = Agreed \ {Head(queue).preview}
  <2>1. applies(queue, 1)
    BY <1>1, <1>6 DEF applies
  <2>2. \A k \in DOMAIN queue : k # 1 /\ applies(queue, k) => queue[k].preview # queue[1].preview
    BY <1>1, <1>6, <2>1 DEF QueuedInv
  <2>3. \A q : q \in Agreed' => q # queue[1].preview
    BY <1>3, <2>2, AgreedFacts DEF applies
  <2>4. \A q : q \in Agreed /\ q # queue[1].preview => q \in Agreed'
    BY <1>3, AgreedFacts DEF applies
  <2> QED
    BY <1>1, <1>4, <2>3, <2>4
<1> QED
  BY <1>4, <1>5, <1>6

LEMMA AppendAgreed ==
  ASSUME TypeInv, NEW j \in Jobs, queue' = Append(queue, j)
  PROVE  /\ j.kind = "prepare" => Agreed' = Agreed
         /\ j.kind = "apply" => Agreed' = Agreed \cup {j.preview}
<1> DEFINE n == Len(queue) + 1
<1>1. /\ n \in DOMAIN queue' /\ queue'[n] = j
      /\ \A i \in DOMAIN queue : i \in DOMAIN queue' /\ queue'[i] = queue[i]
      /\ \A i \in DOMAIN queue' : i \in DOMAIN queue \/ i = n
  BY AppendFacts DEF TypeInv
<1> HIDE DEF n
<1>2. Agreed \subseteq Agreed'
  BY <1>1, AgreedFacts DEF applies
<1>3. ASSUME j.kind = "prepare"
      PROVE  Agreed' \subseteq Agreed
  BY <1>1, <1>3, AgreedFacts DEF applies
<1>4. ASSUME j.kind = "apply"
      PROVE  Agreed' = Agreed \cup {j.preview}
  <2>1. j.preview \in Agreed'
    BY <1>1, <1>4, AgreedFacts DEF applies
  <2>2. \A q : q \in Agreed' => q \in Agreed \/ q = j.preview
    BY <1>1, <1>4, AgreedFacts DEF applies
  <2> QED
    BY <1>2, <2>1, <2>2
<1> QED
  BY <1>2, <1>3, <1>4

\* A committed transaction is the import of its file, of a preview still true.
LEMMA CommitImports ==
  ASSUME IInv, Commit
  PROVE  \E p \in Agreed : Import!Import(p)
<1>p. PICK p : p = job.preview
  OBVIOUS
<1>0. /\ TypeInv /\ TxInv /\ QueuedInv /\ tx # None /\ tx.todo = {} /\ applies(queue, 1)
      /\ rows' = tx.rows /\ settings' = tx.settings
      /\ queue' = Tail(queue) /\ UNCHANGED card /\ queue \in Seq(Jobs)
  BY DEF IInv, WayInv, TypeInv, TxInv, Commit, leave
<1>1. queue # <<>> /\ job = queue[1] /\ Head(queue) = job /\ 1 \in DOMAIN queue /\ job.kind = "apply"
  <2>1. queue # <<>>
    BY <1>0, EmptySeq, LenProperties DEF applies
  <2> QED
    BY <1>0, <2>1, TailFacts DEF job, applies
<1>2. p \in Agreed
  BY <1>0, <1>1, <1>p, AgreedFacts
<1>3. Agreed' = Agreed \ {p}
  BY <1>0, <1>1, <1>p, LeaveAgreed
<1>4. Import!Overwritten(p.file, rows, settings) = p.view
  BY <1>0, <1>1, <1>p DEF TxInv, unchangedSince
<1>5. rows' = Import!Imported(p.file, rows)
  <2>1. /\ rows' \in [Dates -> Rows]
        /\ \A d \in Dates : rows'[d] = IF d \in DOMAIN p.file.entries THEN p.file.entries[d] ELSE rows[d]
    BY <1>0, <1>1, <1>p DEF TxInv
  <2> QED
    BY <2>1 DEF Import!Imported
<1>6. settings' = Import!ImportedSettings(p.file, settings)
  BY <1>0, <1>1, <1>p DEF TxInv, Import!ImportedSettings
<1>7. UNCHANGED Offered
  BY <1>0 DEF Offered
<1>8. Import!Import(p)
  BY <1>2, <1>3, <1>4, <1>5, <1>6, <1>7 DEF Import!Import, Agreed, Offered
<1> QED
  BY <1>2, <1>8

\* data-transfer.ts, DataTransferCard.tsx: the whole transfer, with its previews,
\* its lock, its statements and its left cards, is an import in one step.
THEOREM TransferImplementsImport == Spec => ImplementsImport
<1>1. Init => Import!Init
  BY DEF Init, Import!Init, freshCard
<1>2. IInv /\ [Next]_vars => [Import!Next]_(Import!vars)
  <2> SUFFICES ASSUME IInv, [Next]_vars
               PROVE  [Import!Next]_(Import!vars)
    OBVIOUS
  <2>0. TypeInv /\ card \in Cards
    BY DEF IInv, TypeInv
  <2>1. ASSUME UNCHANGED <<rows, settings, queue>>
        PROVE  [Import!Next]_(Import!vars)
    <3>1. UNCHANGED <<rows, settings, Agreed>>
      BY <2>1 DEF Agreed
    <3> QED
      BY <3>1, PromiseSteps DEF Import!Next
  <2>2. CASE Confirm
    <3>1. CASE UNCHANGED queue
      BY <2>1, <2>2, <3>1 DEF Confirm, database
    <3>2. CASE ~UNCHANGED queue
      <4> DEFINE j == [kind |-> "apply", life |-> card.life, preview |-> prepared]
      <4>1. /\ card.preview # None /\ prepared # None /\ prepared.token = card.preview.token
            /\ queue' = Append(queue, j) /\ card' = [card EXCEPT !.busy = TRUE, !.says = "nothing", !.of = card.preview.token]
            /\ UNCHANGED <<rows, settings>>
        BY <2>2, <3>2 DEF Confirm, isPrepared, database
      <4>2. prepared = card.preview /\ prepared \in Previews /\ card.life \in Nat
        BY <2>0, <4>1 DEF IInv, WayInv, PreparedInv, TypeInv, Cards
      <4>3. j \in Jobs /\ j.kind = "apply" /\ j.preview = card.preview
        BY <4>2 DEF Jobs
      <4>4. Agreed' = Agreed \cup {card.preview}
        BY <2>0, <4>1, <4>3, AppendAgreed
      <4>5. card.preview \in Offered /\ UNCHANGED Offered
        BY <2>0, <4>1 DEF Offered, Cards
      <4>6. PICK q : q = card.preview
        OBVIOUS
      <4>7. q \in Offered /\ Import!Agree(q)
        BY <4>1, <4>4, <4>5, <4>6, PromiseSteps
      <4> QED
        BY <4>7 DEF Import!Next, Offered
    <3> QED
      BY <3>1, <3>2
  <2>3. CASE \E d \in decrypting : Decrypted(d)
    <3>1. PICK d \in decrypting : Decrypted(d)
      BY <2>3
    <3>2. CASE UNCHANGED queue
      BY <2>1, <3>1, <3>2 DEF Decrypted, database
    <3>3. CASE ~UNCHANGED queue
      <4> DEFINE j == [kind |-> "prepare", life |-> d.life, file |-> d.file, generation |-> generation + 1]
      <4>1. queue' = Append(queue, j) /\ UNCHANGED <<rows, settings>>
        BY <3>1, <3>3 DEF Decrypted, database
      <4>2. generation + 1 \in Nat
        BY <2>0 DEF TypeInv
      <4>3. j \in Jobs /\ j.kind = "prepare"
        BY <2>0, <4>2 DEF TypeInv, Jobs
      <4>4. Agreed' = Agreed
        BY <2>0, <4>1, <4>3, AppendAgreed
      <4> QED
        BY <4>1, <4>4, PromiseSteps DEF Import!Next
    <3> QED
      BY <3>2, <3>3
  <2>4. CASE PrepareReads
    <3>1. /\ queue # <<>> /\ Head(queue).kind = "prepare" /\ queue' = Tail(queue)
          /\ UNCHANGED <<rows, settings>>
      BY <2>4 DEF PrepareReads, holds, leave, database
    <3>2. Agreed' = Agreed
      BY <2>0, <3>1, LeaveAgreed
    <3> QED
      BY <3>1, <3>2, PromiseSteps DEF Import!Next
  <2>5. CASE Refuse \/ RollBack
    <3>1. queue # <<>>
      <4>1. CASE Refuse
        BY <4>1 DEF Refuse, holds
      <4>2. CASE RollBack
        <5>1. 1 \in DOMAIN queue
          BY <4>2 DEF RollBack, IInv, TxInv, applies
        <5> QED
          BY <5>1
      <4> QED
        BY <2>5, <4>1, <4>2
    <3>2. queue' = Tail(queue) /\ UNCHANGED <<rows, settings, card>>
      BY <2>5 DEF Refuse, RollBack, leave, database
    <3>3. Agreed' \subseteq Agreed /\ UNCHANGED Offered
      BY <2>0, <3>1, <3>2, LeaveAgreed DEF Offered
    <3>4. Import!GiveUp
      BY <3>2, <3>3, PromiseSteps
    <3> QED
      BY <3>4 DEF Import!Next
  <2>6. CASE Commit
    BY <2>6, CommitImports DEF Import!Next, Agreed
  <2>7. CASE Edit
    <3>1. /\ \/ \E d \in Dates, c \in Contents \cup {NoRow} :
                  rows' = [rows EXCEPT ![d] = c] /\ UNCHANGED settings
             \/ settings' \in Values /\ UNCHANGED rows
          /\ UNCHANGED <<queue, card>>
      BY <2>7 DEF Edit
    <3>2. Import!Edit
      BY <3>1 DEF Import!Edit
    <3> QED
      BY <3>2 DEF Import!Next
  <2>8. CASE Kill
    <3>1. /\ UNCHANGED <<rows, settings>> /\ queue' = <<>> /\ card' = freshCard(card.life)
      BY <2>8 DEF Kill
    <3>2. Offered' = {} /\ Agreed' = {}
      BY <3>1 DEF Offered, Agreed, freshCard
    <3>3. Import!GiveUp
      BY <3>1, <3>2, PromiseSteps
    <3> QED
      BY <3>3 DEF Import!Next
  <2>9. CASE \/ Pick \/ PickerReturns \/ Reopen \/ CancelPreview \/ CardExpires \/ PrepareEnds
             \/ PreviewExpires \/ Dispose \/ Begin \/ Statement \/ ApplyEnds \/ UNCHANGED vars
    <3>1. UNCHANGED <<rows, settings, queue>>
      BY <2>9 DEF Pick, PickerReturns, Reopen, CancelPreview, CardExpires, PrepareEnds,
         PreviewExpires, Dispose, Begin, Statement, ApplyEnds, vars, database
    <3> QED
      BY <2>1, <3>1
  <2> QED
    BY <2>2, <2>3, <2>4, <2>5, <2>6, <2>7, <2>8, <2>9 DEF Next
<1> QED
  BY <1>1, <1>2, InductiveInvariant, PTL DEF Spec, ImplementsImport, Import!Spec
=============================================================================
