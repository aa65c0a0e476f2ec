---------------------------- MODULE Data_proofs ----------------------------
(***************************************************************************)
(* Theorems about what a scan reads and writes in either storage: the rows *)
(* of a store session (StoreSession) and the workbooks (Sources), for any  *)
(* number of rows, links, spreadsheets and workbooks.                      *)
(***************************************************************************)
EXTENDS MCData, FiniteSetTheorems, NaturalsInduction, TLAPS

-----------------------------------------------------------------------------
(* StoreSession: what a write is, merged and applied.                      *)

Cols == [numbers : Store!Numbers, status : Store!Statuses, name : Store!Qualities, fresh : {0, 1}]

\* A write of some result has a status; NoWrite has none.
RealWrites == {w \in Store!RowWrites : w.status # Store!None}
BufferedWrites == RealWrites \cup {Store!NoWrite}

\* The row after what is buffered for it, if anything is.
After(cols, w) == IF w = Store!NoWrite THEN cols ELSE Store!Applied(cols, w)

LEMMA WriteFields ==
    /\ Store!NoWrite \notin RealWrites
    /\ Store!KeepNumbers \notin Store!Numbers /\ Store!Null \in Store!Numbers
    /\ Store!KeepName \notin Store!Qualities
    /\ \A w \in BufferedWrites :
        /\ w = [numbers |-> w.numbers, status |-> w.status, name |-> w.name, fresh |-> w.fresh]
        /\ w.numbers \in Store!Numbers \cup {Store!KeepNumbers}
        /\ w.name \in Store!Qualities \cup {Store!KeepName} /\ w.fresh \in BOOLEAN
        /\ w.status \in Store!Statuses
        /\ w = Store!NoWrite <=> w.status = Store!None
<1> USE DEF BufferedWrites, RealWrites, Store!RowWrites, Store!NoWrite, Store!None, Store!Statuses
<1>1. Store!NoWrite \notin RealWrites
  OBVIOUS
<1>2. Store!KeepNumbers \notin Store!Numbers /\ Store!Null \in Store!Numbers
  BY StoreAssumption DEF Store!KeepNumbers, Store!Numbers, Store!Null
<1>3. Store!KeepName \notin Store!Qualities
  BY DEF Store!KeepName, Store!Qualities
<1>4. ASSUME NEW w \in BufferedWrites
      PROVE /\ w = [numbers |-> w.numbers, status |-> w.status, name |-> w.name, fresh |-> w.fresh]
            /\ w.numbers \in Store!Numbers \cup {Store!KeepNumbers}
            /\ w.name \in Store!Qualities \cup {Store!KeepName} /\ w.fresh \in BOOLEAN
            /\ w.status \in Store!Statuses
            /\ w = Store!NoWrite <=> w.status = Store!None
  <2>1. CASE w \in RealWrites
    BY <2>1
  <2>2. CASE w = Store!NoWrite
    <3>1. w = [numbers |-> w.numbers, status |-> w.status, name |-> w.name, fresh |-> w.fresh]
      BY <2>2
    <3> QED
      BY <2>2, <3>1
  <2> QED
    BY <2>1, <2>2
<1> QED
  BY <1>1, <1>2, <1>3, <1>4

\* A merge is a write, and one of a result if the later one is.
LEMMA OverTyped ==
    ASSUME NEW old \in BufferedWrites, NEW new \in BufferedWrites
    PROVE /\ Store!Over(old, new) \in BufferedWrites
          /\ new \in RealWrites => Store!Over(old, new) \in RealWrites
          /\ Store!Over(old, new).numbers \in {old.numbers, new.numbers}
<1>1. CASE new = Store!NoWrite
  BY <1>1, WriteFields DEF Store!Over
<1>2. CASE new # Store!NoWrite
  <2>1. new.status # Store!None /\ new \in RealWrites
    BY <1>2, WriteFields DEF BufferedWrites
  <2>2. (old.fresh \/ new.fresh) \in BOOLEAN
    BY WriteFields
  <2>3. Store!Over(old, new) \in Store!RowWrites
    BY <1>2, <2>2, WriteFields DEF Store!Over, Store!RowWrites
  <2>4. Store!Over(old, new).status = new.status /\ Store!Over(old, new).numbers \in {old.numbers, new.numbers}
    BY <1>2 DEF Store!Over
  <2> QED
    BY <2>1, <2>3, <2>4 DEF RealWrites, BufferedWrites
<1> QED
  BY <1>1, <1>2

LEMMA AppliedTyped ==
    ASSUME NEW cols \in Cols, NEW w \in RealWrites
    PROVE Store!Applied(cols, w) \in Cols
<1>1. /\ w \in BufferedWrites
      /\ cols.numbers \in Store!Numbers /\ cols.name \in Store!Qualities /\ cols.fresh \in {0, 1}
  BY DEF BufferedWrites, Cols
<1> QED
  BY <1>1, WriteFields DEF Store!Applied, Cols

LEMMA AppliedNumbers ==
    \A cols, w : Store!Applied(cols, w).numbers = IF w.numbers = Store!KeepNumbers THEN cols.numbers ELSE w.numbers
BY DEF Store!Applied

\* Merged and applied at once, two writes leave what they leave one after the other.
LEMMA AppliedOver ==
    ASSUME NEW cols \in Cols, NEW old \in BufferedWrites, NEW new \in BufferedWrites
    PROVE After(cols, Store!Over(old, new)) = After(After(cols, old), new)
<1>1. CASE new = Store!NoWrite
  BY <1>1 DEF Store!Over, After
<1>2. CASE new # Store!NoWrite
  <2> DEFINE both == Store!Over(old, new)
  <2>1. both \in RealWrites /\ both # Store!NoWrite
    BY <1>2, OverTyped, WriteFields DEF BufferedWrites
  <2>2. both = [numbers |-> IF new.numbers = Store!KeepNumbers THEN old.numbers ELSE new.numbers,
                status |-> new.status,
                name |-> IF new.name = Store!KeepName THEN old.name ELSE new.name,
                fresh |-> old.fresh \/ new.fresh]
    BY <1>2 DEF Store!Over
  <2> HIDE DEF both
  <2>3. After(cols, both) = Store!Applied(cols, both)
    BY <2>1 DEF After
  <2>4. both.fresh <=> old.fresh \/ new.fresh
    BY <2>2
  <2>5. CASE old = Store!NoWrite
    <3>1. old.numbers = Store!KeepNumbers /\ old.name = Store!KeepName /\ old.fresh = FALSE
      BY <2>5 DEF Store!NoWrite
    <3>2. Store!Applied(cols, both) = Store!Applied(cols, new)
      BY <2>2, <2>4, <3>1 DEF Store!Applied
    <3> QED
      BY <1>2, <2>3, <2>5, <3>2 DEF After, both
  <2>6. CASE old # Store!NoWrite
    <3>1. Store!Applied(cols, both) = Store!Applied(Store!Applied(cols, old), new)
      BY <2>2, <2>4 DEF Store!Applied
    <3> QED
      BY <1>2, <2>3, <2>6, <3>1 DEF After, both
  <2> QED
    BY <2>5, <2>6
<1> QED
  BY <1>1, <1>2

-----------------------------------------------------------------------------
(* StoreSession: the inductive invariants.                                 *)

StoreType ==
    /\ post \in [Rows -> [link : Links, live : BOOLEAN]]
    /\ saved \in [Rows -> [cols : Cols, lock : BOOLEAN]]
    /\ item \in [Rows -> Store!Statuses \cup {"skipped"}]
    /\ session \in [Rows -> [seen : Links \cup {Store!None}, name : Store!Qualities]]
    /\ pending \in [Rows -> BufferedWrites] /\ batch \in [Rows -> BufferedWrites]
    /\ told \in [Rows -> Cols] /\ results \in Nat

\* What is buffered for a row was read from the link the row had when the pass opened.
OfSeen(w, seen) == w.numbers = Store!KeepNumbers \/ w.numbers.link \in {Store!None, seen}

LinkInv ==
    \A r \in Rows :
        /\ OfSeen(pending[r], session[r].seen) /\ OfSeen(batch[r], session[r].seen)
        /\ saved[r].cols.numbers.link \in {Store!None, post[r].link} \/ r \in moved

\* What is saved, flushed and buffered, in that order, make the row its results told.
TellInv ==
    \A r \in Rows : r \notin apart => After(After(saved[r].cols, batch[r]), pending[r]) = told[r]

\* The writes of a TikTok result, by its status.
LEMMA TikTokForms ==
    \A r, n : \A w \in Store!TikTokWrites(r, n) :
        \/ \E num \in {[link |-> session[r].seen, n |-> n], Store!Null}, q \in 0 .. 2 :
               w = [numbers |-> num, status |-> "Success", fresh |-> TRUE,
                    name |-> IF session[r].name >= q THEN Store!KeepName ELSE q]
        \/ \E q \in 0 .. 2 :
               w = [numbers |-> Store!Null, status |-> "hidden", fresh |-> FALSE,
                    name |-> IF session[r].name > 0 \/ session[r].name >= q THEN Store!KeepName ELSE q]
        \/ \E q \in 0 .. 2 :
               w = [numbers |-> Store!KeepNumbers, status |-> "error", fresh |-> FALSE,
                    name |-> IF session[r].name > 0 \/ session[r].name >= q THEN Store!KeepName ELSE q]
BY DEF Store!TikTokWrites, Store!NameColumn, Store!Written, Store!Null, Store!KeepNumbers, Store!KeepName

\* What a result may write is a write, its numbers read from the link of the session.
LEMMA WritesTyped ==
    ASSUME StoreType, NEW r \in Rows, session[r].seen # Store!None, results < MaxResults,
           NEW w \in Store!Writes(r, results + 1)
    PROVE w \in RealWrites /\ OfSeen(w, session[r].seen)
<1> DEFINE num == [link |-> session[r].seen, n |-> results + 1]
           names == Store!Qualities \cup {Store!KeepName}
<1>1. session[r].seen \in Links /\ session[r].name \in Store!Qualities
  BY DEF StoreType
<1>2. num \in Store!Numbers /\ num.link = session[r].seen
  BY <1>1, StoreAssumption DEF StoreType, Store!Numbers
<1>3. Store!Null \in Store!Numbers /\ Store!Null.link = Store!None
  BY DEF Store!Numbers, Store!Null
<1> HIDE DEF num
<1>4. ASSUME NEW n \in {num, Store!Null, Store!KeepNumbers}, NEW st \in {"Success", "hidden", "error", "status"},
             NEW q \in names, NEW f \in BOOLEAN, w = [numbers |-> n, status |-> st, name |-> q, fresh |-> f]
      PROVE w \in RealWrites /\ OfSeen(w, session[r].seen)
  <2>1. w \in Store!RowWrites
    BY <1>2, <1>3, <1>4 DEF Store!RowWrites, Store!Statuses
  <2> QED
    BY <2>1, <1>2, <1>3, <1>4 DEF RealWrites, Store!None, OfSeen
<1>5. \A q \in 0 .. 2 : (IF session[r].name >= q THEN Store!KeepName ELSE q) \in names
                        /\ (IF session[r].name > 0 \/ session[r].name >= q THEN Store!KeepName ELSE q) \in names
  BY <1>1 DEF Store!Qualities
<1>6. CASE w \in Store!TikTokWrites(r, results + 1)
  <2>1. \/ \E n \in {num, Store!Null}, q \in names : w = [numbers |-> n, status |-> "Success", name |-> q, fresh |-> TRUE]
        \/ \E q \in names : w = [numbers |-> Store!Null, status |-> "hidden", name |-> q, fresh |-> FALSE]
        \/ \E q \in names : w = [numbers |-> Store!KeepNumbers, status |-> "error", name |-> q, fresh |-> FALSE]
    BY <1>5, <1>6, TikTokForms DEF num
  <2> QED
    BY <1>4, <2>1
<1>7. CASE w \in Store!ThreadsWrites(r, results + 1)
  <2>1. 1 \in names /\ Store!KeepName \in names
    BY DEF Store!Qualities
  <2>2. PICK n \in {num, Store!Null, Store!KeepNumbers}, q \in {1, Store!KeepName} :
            w = [numbers |-> n, status |-> "status", name |-> q, fresh |-> q # Store!KeepName \/ n \notin {Store!KeepNumbers, Store!Null}]
    BY <1>7 DEF Store!ThreadsWrites, Store!Written, num
  <2>3. PICK f \in BOOLEAN : w = [numbers |-> n, status |-> "status", name |-> q, fresh |-> f]
    BY <2>2
  <2> QED
    BY <1>4, <2>1, <2>3
<1> QED
  BY <1>6, <1>7 DEF Store!Writes

-----------------------------------------------------------------------------
(* StoreSession: its steps.                                                *)

StoreInv == StoreType /\ LinkInv /\ TellInv

LEMMA StoreInit == Store!Init => StoreInv
<1> DEFINE Posts == {[link |-> l, live |-> TRUE] : l \in Links}
<1>1. ASSUME NEW p \in Posts
      PROVE p \in [link : Links, live : BOOLEAN]
  <2>1. PICK l \in Links : p = [link |-> l, live |-> TRUE]
    BY Zenon
  <2> QED
    BY <2>1
<1>2. Store!Init => post \in [Rows -> Posts]
  BY SMT DEF Store!Init
<1> HIDE DEF Posts
<1> DEFINE Starts == {[cols |-> [Store!Blank EXCEPT !.name = q], lock |-> lock] : q \in {0, 2}, lock \in BOOLEAN}
<1>3. ASSUME NEW row \in Starts
      PROVE row \in [cols : Cols, lock : BOOLEAN] /\ row.cols.numbers.link = Store!None
  BY WriteFields DEF Store!Blank, Cols, Store!Statuses, Store!Qualities, Store!Null, Store!None
<1>4. Store!Init => saved \in [Rows -> Starts]
  BY SMT DEF Store!Init
<1> HIDE DEF Starts
<1> SUFFICES ASSUME Store!Init PROVE StoreInv
  OBVIOUS
<1>5. item = [r \in Rows |-> Store!None] /\ session = [r \in Rows |-> Store!NotRead]
  BY SMT DEF Store!Init
<1>6. pending = [r \in Rows |-> Store!NoWrite] /\ batch = pending
  BY SMT DEF Store!Init
<1>7. results = 0 /\ told = [r \in Rows |-> saved[r].cols]
  BY SMT DEF Store!Init
<1>8. /\ post \in [Rows -> [link : Links, live : BOOLEAN]] /\ saved \in [Rows -> [cols : Cols, lock : BOOLEAN]]
      /\ \A r \in Rows : saved[r].cols.numbers.link = Store!None
  BY <1>1, <1>2, <1>3, <1>4
<1>9. StoreType
  BY <1>5, <1>6, <1>7, <1>8 DEF StoreType, BufferedWrites, Store!NotRead, Store!Qualities, Store!Statuses
<1>10. LinkInv
  BY <1>6, <1>8 DEF LinkInv, OfSeen, Store!NoWrite
<1>11. TellInv
  BY <1>6, <1>7 DEF TellInv, After
<1> QED
  BY <1>9, <1>10, <1>11 DEF StoreInv

LEMMA StoreOpen == StoreInv /\ Store!Open => StoreInv'
<1> SUFFICES ASSUME StoreInv, Store!Open PROVE StoreInv'
  OBVIOUS
<1> USE DEF StoreInv
<1>1. \A r \in Rows : batch[r] = Store!NoWrite /\ pending[r] = Store!NoWrite
  BY DEF Store!Open, Store!Buffered
<1>2. /\ UNCHANGED <<post, saved, item, pending, batch, results, told, apart, moved>>
      /\ session' = [r \in Rows |-> IF post[r].live /\ ~saved[r].lock
                                    THEN [seen |-> post[r].link, name |-> saved[r].cols.name] ELSE Store!NotRead]
  BY DEF Store!Open, Store!history
<1>3. StoreType'
  BY <1>2 DEF StoreType, Cols, Store!NotRead, Store!Qualities
<1>4. LinkInv'
  BY <1>1, <1>2 DEF LinkInv, OfSeen, Store!NoWrite
<1>5. TellInv'
  BY <1>2 DEF TellInv
<1> QED
  BY <1>3, <1>4, <1>5

LEMMA StoreResult == \A r \in Rows : StoreInv /\ Store!Result(r) => StoreInv'
<1> SUFFICES ASSUME NEW r \in Rows, StoreInv, Store!Result(r) PROVE StoreInv'
  OBVIOUS
<1> USE DEF StoreInv
<1>1. PICK w \in Store!Writes(r, results + 1) :
        /\ pending' = [pending EXCEPT ![r] = Store!Over(@, w)]
        /\ session' = (IF w.name = Store!KeepName THEN session ELSE [session EXCEPT ![r].name = w.name])
        /\ told' = [told EXCEPT ![r] = Store!Applied(@, w)]
  BY DEF Store!Result
<1>2. /\ session[r].seen # Store!None /\ results < MaxResults /\ results' = results + 1
      /\ UNCHANGED <<post, saved, item, batch, apart, moved>>
  BY DEF Store!Result
<1>3. w \in RealWrites /\ OfSeen(w, session[r].seen)
  BY <1>2, WritesTyped
<1>4. w \in BufferedWrites /\ w # Store!NoWrite /\ w.name \in Store!Qualities \cup {Store!KeepName}
  BY <1>3, WriteFields DEF BufferedWrites
<1>5. /\ pending \in [Rows -> BufferedWrites] /\ told \in [Rows -> Cols] /\ results \in Nat
      /\ session \in [Rows -> [seen : Links \cup {Store!None}, name : Store!Qualities]]
  BY DEF StoreType
<1>6. Store!Over(pending[r], w) \in BufferedWrites /\ Store!Over(pending[r], w).numbers \in {pending[r].numbers, w.numbers}
  BY <1>4, <1>5, OverTyped
<1>7. Store!Applied(told[r], w) \in Cols
  BY <1>3, <1>5, AppliedTyped
<1>8. /\ session' \in [Rows -> [seen : Links \cup {Store!None}, name : Store!Qualities]]
      /\ \A s \in Rows : session'[s].seen = session[s].seen
  BY <1>1, <1>4, <1>5
<1>9. /\ pending'[r] = Store!Over(pending[r], w) /\ told'[r] = Store!Applied(told[r], w)
      /\ \A s \in Rows \ {r} : pending'[s] = pending[s] /\ told'[s] = told[s]
  BY <1>1, <1>5
<1>10. StoreType'
  <2>1. pending' \in [Rows -> BufferedWrites] /\ told' \in [Rows -> Cols] /\ results' \in Nat
    BY <1>1, <1>2, <1>5, <1>6, <1>7
  <2> QED
    BY <1>2, <1>8, <2>1 DEF StoreType
<1>11. LinkInv'
  <2>1. OfSeen(pending'[r], session[r].seen)
    BY <1>3, <1>6, <1>9 DEF LinkInv, OfSeen
  <2> QED
    BY <1>2, <1>8, <1>9, <2>1 DEF LinkInv
<1>12. TellInv'
  <2>1. ASSUME NEW s \in Rows, s \notin apart
        PROVE After(After(saved[s].cols, batch[s]), pending'[s]) = told'[s]
    <3>1. After(After(saved[s].cols, batch[s]), pending[s]) = told[s]
      BY <2>1 DEF TellInv
    <3>2. CASE s = r
      <4>1. PICK c : c = After(saved[s].cols, batch[s])
        OBVIOUS
      <4>2. c \in Cols
        BY <4>1, AppliedTyped, WriteFields DEF StoreType, After, BufferedWrites
      <4>3. After(c, Store!Over(pending[s], w)) = After(After(c, pending[s]), w)
        BY <1>4, <1>5, <4>2, AppliedOver
      <4> QED
        BY <1>4, <1>9, <3>1, <3>2, <4>1, <4>3 DEF After
    <3> QED
      BY <1>9, <3>1, <3>2
  <2> QED
    BY <1>2, <2>1 DEF TellInv
<1> QED
  BY <1>10, <1>11, <1>12

LEMMA StoreFlush == StoreInv /\ Store!Flush => StoreInv'
<1> SUFFICES ASSUME StoreInv, Store!Flush PROVE StoreInv'
  OBVIOUS
<1> USE DEF StoreInv
<1>1. CASE Store!FlushBegin
  <2>1. /\ \A r \in Rows : batch[r] = Store!NoWrite
        /\ batch' = pending /\ pending' = [r \in Rows |-> Store!NoWrite]
        /\ UNCHANGED <<post, saved, item, session, results, told, apart, moved>>
    BY <1>1 DEF Store!FlushBegin, Store!Buffered, Store!Empty, Store!history, Store!counters
  <2>2. StoreType'
    BY <2>1 DEF StoreType, BufferedWrites
  <2>3. LinkInv'
    BY <2>1 DEF LinkInv, OfSeen, Store!NoWrite
  <2>4. TellInv'
    BY <2>1 DEF TellInv, After
  <2> QED
    BY <2>2, <2>3, <2>4
<1>2. CASE Store!FlushCommits
  <2>1. PICK done : done = {r \in Store!Buffered(batch) : Store!Writable(r)}
    OBVIOUS
  <2>2. /\ batch' = [r \in Rows |-> Store!NoWrite]
        /\ saved' = [r \in Rows |-> IF r \in done THEN [saved[r] EXCEPT !.cols = Store!Applied(@, batch[r])] ELSE saved[r]]
        /\ item' = [r \in Rows |-> IF r \notin Store!Buffered(batch) \/ item[r] # Store!None THEN item[r]
                                   ELSE IF r \in done THEN batch[r].status ELSE "skipped"]
        /\ apart' = apart \cup (Store!Buffered(batch) \ done)
        /\ moved' = moved \ {r \in done : batch[r].numbers # Store!KeepNumbers}
        /\ UNCHANGED <<post, session, pending, results, told>>
    BY <1>2, <2>1 DEF Store!FlushCommits, Store!Empty, Store!counters
  <2>3. /\ Store!Buffered(batch) = {r \in Rows : batch[r] # Store!NoWrite} /\ done \subseteq Store!Buffered(batch)
        /\ \A r \in done : post[r].link = session[r].seen
    BY <2>1 DEF Store!Buffered, Store!Writable
  <2>4. \A r \in done : batch[r] \in RealWrites /\ batch[r].status \in Store!Statuses
    BY <2>3, WriteFields DEF StoreType, BufferedWrites
  <2>5. \A r \in done : Store!Applied(saved[r].cols, batch[r]) \in Cols
    BY <2>3, <2>4, AppliedTyped DEF StoreType
  <2>6. \A r \in Rows : /\ r \in done => saved'[r].cols = Store!Applied(saved[r].cols, batch[r])
                        /\ r \notin done => saved'[r] = saved[r]
                        /\ saved'[r] \in [cols : Cols, lock : BOOLEAN]
    BY <2>2, <2>5 DEF StoreType
  <2>7. StoreType'
    <3>1. saved' \in [Rows -> [cols : Cols, lock : BOOLEAN]]
      BY <2>2, <2>6
    <3>2. item' \in [Rows -> Store!Statuses \cup {"skipped"}]
      BY <2>2, <2>4 DEF StoreType
    <3> QED
      BY <2>2, <3>1, <3>2 DEF StoreType, BufferedWrites
  <2>8. LinkInv'
    <3>1. ASSUME NEW r \in Rows
          PROVE saved'[r].cols.numbers.link \in {Store!None, post[r].link} \/ r \in moved'
      <4>1. CASE r \in done /\ batch[r].numbers # Store!KeepNumbers
        <5>1. saved'[r].cols.numbers = batch[r].numbers
          BY <2>6, <4>1, AppliedNumbers
        <5> QED
          BY <2>3, <4>1, <5>1 DEF LinkInv, OfSeen
      <4>2. CASE ~(r \in done /\ batch[r].numbers # Store!KeepNumbers)
        <5>1. saved'[r].cols.numbers = saved[r].cols.numbers
          BY <2>6, <4>2, AppliedNumbers
        <5> QED
          BY <2>2, <4>2, <5>1 DEF LinkInv
      <4> QED
        BY <4>1, <4>2
    <3> QED
      BY <2>2, <3>1 DEF LinkInv, OfSeen, Store!NoWrite
  <2>9. TellInv'
    <3>1. ASSUME NEW r \in Rows, r \notin apart'
          PROVE saved'[r].cols = After(saved[r].cols, batch[r]) /\ r \notin apart
      BY <2>2, <2>3, <2>6, <3>1 DEF After
    <3> QED
      BY <2>2, <3>1 DEF TellInv, After
  <2> QED
    BY <2>7, <2>8, <2>9
<1>3. CASE Store!FlushFails
  <2>1. /\ batch' = [r \in Rows |-> Store!NoWrite]
        /\ pending' = [r \in Rows |-> Store!Over(batch[r], pending[r])]
        /\ UNCHANGED <<post, saved, item, session, results, told, apart, moved>>
    BY <1>3 DEF Store!FlushFails, Store!PutBack, Store!Empty, Store!history, Store!counters
  <2>2. \A r \in Rows : batch[r] \in BufferedWrites /\ pending[r] \in BufferedWrites /\ saved[r].cols \in Cols
    BY DEF StoreType
  <2>3. \A r \in Rows : /\ Store!Over(batch[r], pending[r]) \in BufferedWrites
                        /\ Store!Over(batch[r], pending[r]).numbers \in {batch[r].numbers, pending[r].numbers}
    BY <2>2, OverTyped
  <2>4. StoreType'
    BY <2>1, <2>3 DEF StoreType, BufferedWrites
  <2>5. LinkInv'
    BY <2>1, <2>3 DEF LinkInv, OfSeen, Store!NoWrite
  <2>6. TellInv'
    <3>1. ASSUME NEW r \in Rows
          PROVE After(saved[r].cols, Store!Over(batch[r], pending[r])) = After(After(saved[r].cols, batch[r]), pending[r])
      BY <2>2, AppliedOver
    <3>2. \A r \in Rows : After(saved[r].cols, Store!NoWrite) = saved[r].cols
      BY DEF After
    <3> QED
      BY <2>1, <3>1, <3>2 DEF TellInv
  <2> QED
    BY <2>4, <2>5, <2>6
<1>4. CASE Store!FlushCancelled
  <2>1. /\ batch' = [r \in Rows |-> Store!NoWrite] /\ apart' = apart \cup {r \in Rows : batch[r] # Store!NoWrite}
        /\ UNCHANGED <<post, saved, item, session, pending, results, told, moved>>
    BY <1>4 DEF Store!FlushCancelled, Store!Buffered, Store!Empty, Store!counters
  <2>2. StoreType'
    BY <2>1 DEF StoreType, BufferedWrites
  <2>3. LinkInv'
    BY <2>1 DEF LinkInv, OfSeen, Store!NoWrite
  <2>4. TellInv'
    BY <2>1 DEF TellInv, After
  <2> QED
    BY <2>2, <2>3, <2>4
<1> QED
  BY <1>1, <1>2, <1>3, <1>4 DEF Store!Flush

LEMMA StoreDrop == StoreInv /\ Store!Drop => StoreInv'
<1> SUFFICES ASSUME StoreInv, Store!Drop PROVE StoreInv'
  OBVIOUS
<1> USE DEF StoreInv
<1>1. /\ \A r \in Rows : batch[r] = Store!NoWrite
      /\ apart' = apart \cup {r \in Rows : pending[r] # Store!NoWrite}
      /\ pending' = [r \in Rows |-> Store!NoWrite] /\ session' = [r \in Rows |-> Store!NotRead]
      /\ UNCHANGED <<post, saved, item, batch, results, told, moved>>
  BY DEF Store!Drop, Store!Buffered, Store!Empty, Store!counters
<1>2. StoreType'
  BY <1>1 DEF StoreType, BufferedWrites, Store!NotRead, Store!Qualities
<1>3. LinkInv'
  BY <1>1 DEF LinkInv, OfSeen, Store!NoWrite
<1>4. TellInv'
  BY <1>1 DEF TellInv, After
<1> QED
  BY <1>2, <1>3, <1>4

LEMMA StoreEdit == \A r \in Rows : StoreInv /\ Store!Edit(r) => StoreInv'
<1> SUFFICES ASSUME NEW r \in Rows, StoreInv, Store!Edit(r) PROVE StoreInv'
  OBVIOUS
<1> USE DEF StoreInv
<1>1. /\ apart' = apart \cup {r}
      /\ UNCHANGED <<item, session, pending, batch, results, told>>
  BY DEF Store!Edit
<1>2. \/ /\ \E l \in Links : post' = [post EXCEPT ![r].link = l]
         /\ moved' = moved \cup {r} /\ saved' = saved
      \/ post' = [post EXCEPT ![r].live = ~@] /\ saved' = saved /\ moved' = moved
      \/ saved' = [saved EXCEPT ![r].lock = ~@] /\ post' = post /\ moved' = moved
      \/ saved' = [saved EXCEPT ![r].cols.name = 2] /\ post' = post /\ moved' = moved
  BY DEF Store!Edit
<1>3. post \in [Rows -> [link : Links, live : BOOLEAN]] /\ saved \in [Rows -> [cols : Cols, lock : BOOLEAN]]
  BY DEF StoreType
<1>4. /\ post' \in [Rows -> [link : Links, live : BOOLEAN]] /\ saved' \in [Rows -> [cols : Cols, lock : BOOLEAN]]
      /\ \A s \in Rows : /\ saved'[s].cols.numbers = saved[s].cols.numbers
                         /\ s # r => saved'[s] = saved[s] /\ post'[s] = post[s]
      /\ post'[r].link = post[r].link \/ r \in moved'
      /\ moved \subseteq moved'
  <2>1. CASE /\ \E l \in Links : post' = [post EXCEPT ![r].link = l]
             /\ moved' = moved \cup {r} /\ saved' = saved
    BY <1>3, <2>1
  <2>2. CASE post' = [post EXCEPT ![r].live = ~@] /\ saved' = saved /\ moved' = moved
    BY <1>3, <2>2
  <2>3. CASE saved' = [saved EXCEPT ![r].lock = ~@] /\ post' = post /\ moved' = moved
    BY <1>3, <2>3
  <2>4. CASE saved' = [saved EXCEPT ![r].cols.name = 2] /\ post' = post /\ moved' = moved
    <3>1. saved[r].cols \in Cols /\ [saved[r].cols EXCEPT !.name = 2] \in Cols
          /\ [saved[r].cols EXCEPT !.name = 2].numbers = saved[r].cols.numbers
      BY <1>3 DEF Cols, Store!Qualities
    <3>2. PICK cols : cols = [saved[r].cols EXCEPT !.name = 2]
      OBVIOUS
    <3>3. saved' = [saved EXCEPT ![r] = [saved[r] EXCEPT !.cols = cols]]
      BY <1>3, <2>4, <3>2
    <3>4. cols \in Cols /\ cols.numbers = saved[r].cols.numbers
      BY <3>1, <3>2
    <3> QED
      BY <1>3, <2>4, <3>3, <3>4
  <2> QED
    BY <1>2, <2>1, <2>2, <2>3, <2>4
<1>5. StoreType'
  BY <1>1, <1>4 DEF StoreType
<1>6. LinkInv'
  BY <1>1, <1>4 DEF LinkInv
<1>7. TellInv'
  BY <1>1, <1>4 DEF TellInv
<1> QED
  BY <1>5, <1>6, <1>7

LEMMA StoreStep == StoreInv /\ [Store!Next]_Store!vars => StoreInv'
<1>1. StoreInv /\ UNCHANGED Store!vars => StoreInv'
  BY DEF StoreInv, StoreType, LinkInv, TellInv, Store!vars, Store!counters, Store!history
<1> QED
  BY <1>1, StoreOpen, StoreResult, StoreFlush, StoreDrop, StoreEdit DEF Store!Next

\* The numbers of a post were read from the link it has, unless staff edited that link since they
\* were written (_upsert_sql), of any number of posts, passes, results and failed flushes.
THEOREM NumbersStay == Store!Spec => []NumbersOfLink
<1>1. StoreInv => NumbersOfLink
  <2> SUFFICES ASSUME StoreInv PROVE NumbersOfLink
    OBVIOUS
  <2>1. Store!NoWrite \in Store!RowWrites
    BY DEF Store!NoWrite, Store!RowWrites, Store!Statuses
  <2>2. BufferedWrites \subseteq Store!RowWrites
    BY <2>1 DEF BufferedWrites, RealWrites
  <2>3. Store!TypeOK
    BY <2>2 DEF StoreInv, StoreType, Cols, Store!TypeOK
  <2> QED
    BY <2>3 DEF StoreInv, LinkInv, NumbersOfLink, Store!NumbersOfLink
<1> QED
  BY <1>1, StoreInit, StoreStep, PTL DEF Store!Spec

\* With nothing left to flush, a row nobody else touched is what its results would have made it
\* written one at a time and in order (_buffer, flush).
THEOREM MergesTell == Store!Spec => []SavedIsTold
<1>1. StoreInv => SavedIsTold
  BY DEF StoreInv, TellInv, After, SavedIsTold, Store!SavedIsTold
<1> QED
  BY <1>1, StoreInit, StoreStep, PTL DEF Store!Spec

-----------------------------------------------------------------------------
(* Sources: sheets and names.                                              *)

LEMMA SmallestNumber ==
    ASSUME NEW T \in SUBSET Nat, T # {}
    PROVE \E x \in T : \A y \in T : x <= y
<1>1. PICK x \in T : \A y \in T : ~(<<y, x>> \in OpToRel(<, Nat))
  BY WFMin, NatLessThanWellFounded
<1>2. \A y \in T : ~(y < x)
  BY <1>1 DEF OpToRel
<1> QED
  BY <1>2

\* The default sheet of a workbook is one of its sheets, if it has any.
LEMMA DefaultIsSheet ==
    ASSUME NEW sheets \in SheetSets
    PROVE Default(sheets) \in sheets \cup {NoSheet} /\ Adopted(sheets) \subseteq sheets \cup {NoSheet}
<1>1. PICK n \in sheets \cup {0} : sheets \subseteq 1 .. n
  BY SourcesAssumption
<1>2. n \in Nat /\ sheets \subseteq Nat
  BY <1>1
<1>3. CASE sheets \cap Months # {}
  <2> DEFINE S == sheets \cap Months
             T == {k \in Nat : n - k \in S}
  <2>1. PICK s : s \in S
    BY <1>3
  <2>2. T \in SUBSET Nat /\ n - s \in T
    BY <1>1, <1>2, <2>1
  <2>3. PICK k \in T : \A m \in T : k <= m
    BY <2>2, SmallestNumber
  <2>4. ASSUME NEW y \in S
        PROVE n - k >= y
    <3>1. n - y \in T /\ y \in Nat
      BY <1>1, <1>2
    <3> QED
      BY <1>2, <2>3, <3>1
  <2>5. Max(S) \in S
    BY <2>3, <2>4 DEF Max
  <2> QED
    BY <1>3, <2>5 DEF Default, Adopted
<1>4. CASE sheets \cap Months = {} /\ sheets # {}
  <2>1. \E x \in sheets : \A y \in sheets : x =< y
    BY <1>2, <1>4, SmallestNumber
  <2>2. Min(sheets) \in sheets
    BY <2>1 DEF Min
  <2> QED
    BY <1>4, <2>2 DEF Default, Adopted
<1>5. CASE sheets = {}
  BY <1>5 DEF Default, Adopted
<1> QED
  BY <1>3, <1>4, <1>5

\* While there is room, a workbook is published under a name that no other has.
LEMMA NameIsFree ==
    ASSUME NEW dir \in {"data", "local"}, IsFiniteSet(DOMAIN files), Room
    PROVE PublishedName(dir) \in Names \ DOMAIN files
<1> DEFINE Copy(c) == [dir |-> dir, copy |-> c]
           taken == [c \in 1 .. MaxFiles |-> Copy(c)]
           free == {c \in 1 .. MaxFiles : Copy(c) \notin DOMAIN files}
<1>1. MaxFiles \in Nat
  BY SourcesAssumption
<1>2. IsFiniteSet(1 .. MaxFiles) /\ Cardinality(1 .. MaxFiles) = MaxFiles
  BY <1>1, FS_Interval
<1>3. free # {}
  <2> SUFFICES ASSUME free = {} PROVE FALSE
    OBVIOUS
  <2>1. PICK D : D = DOMAIN files
    OBVIOUS
  <2>2. PICK t \in Injection(1 .. MaxFiles, D) : TRUE
    <3>1. taken \in [1 .. MaxFiles -> D]
      BY <2>1
    <3>2. IsInjective(taken)
      BY DEF IsInjective
    <3> QED
      BY <3>1, <3>2 DEF Injection
  <2>3. IsFiniteSet(D) /\ Cardinality(D) < MaxFiles
    BY <2>1 DEF Room
  <2>4. Cardinality(1 .. MaxFiles) <= Cardinality(D)
    BY <2>2, <2>3, FS_Injection
  <2>5. Cardinality(D) \in Nat
    BY <2>3, FS_CardinalityType
  <2> QED
    BY <1>1, <1>2, <2>3, <2>4, <2>5
<1>4. PICK c \in free : \A d \in free : c <= d
  <2>1. free \in SUBSET Nat
    BY <1>1
  <2> HIDE DEF free
  <2> QED
    BY <1>3, <2>1, SmallestNumber
<1>5. /\ Copy(c) \in Names /\ Copy(c).dir = dir /\ Copy(c) \notin DOMAIN files
      /\ \A d \in 1 .. Copy(c).copy - 1 : Copy(d) \in DOMAIN files
  BY <1>1, <1>4 DEF Names
<1> QED
  BY <1>5 DEF PublishedName

-----------------------------------------------------------------------------
(* Sources: the inductive invariant.                                       *)

Kinds == {"none", "sync", "upload", "select", "prefs", "push", "run"}
Places == {"idle", "download", "names", "save", "rows", "source", "register", "finish", "adopt", "file", "sheet", "scan"}
UrlsOrNone == Urls \cup {NoUrl}
Jobs == [kind : Kinds, at : Places, file : Names \cup {NoFile}, url : UrlsOrNone,
         platform : Platforms \cup {NoPlatform}, prefs : [Platforms -> Entries], sheet : Int]
ReadersOf(fs) == [at : {"none", "list", "show"}, file : fs \cup {NoFile}, sheet : Int]

SourceType ==
    /\ files \in [DOMAIN files -> [url : UrlsOrNone, sheets : SheetSets]]
    /\ DOMAIN files \subseteq Names /\ IsFiniteSet(DOMAIN files)
    /\ registry \in [DOMAIN registry -> UrlsOrNone] /\ DOMAIN registry \subseteq DOMAIN files
    /\ selected \in [file : DOMAIN files \cup {NoFile}, sheet : Int, scan : Int]
    /\ prefs \in [Platforms -> Entries] /\ view \in DOMAIN files \cup {NoFile}
    /\ jobs \in [{"request", "run"} -> Jobs]
    /\ reader \in ReadersOf(DOMAIN files) /\ crossed \in BOOLEAN

\* What a job refers to is there, and was loaded from where the job says.
JobFits(job) ==
    /\ job.kind = "none" => job = Idle
    /\ job.file \in DOMAIN files \cup {NoFile}
    /\ job.at \in {"register", "finish", "adopt", "names", "file", "sheet", "scan"} => job.file \in DOMAIN files
    /\ job.at \in {"file", "sheet", "scan"} => job.sheet \in files[job.file].sheets \cup {NoSheet}
    /\ job.at = "register" => files[job.file].url = job.url
    /\ job.at = "source" => job.platform \in Platforms

\* One job at a time: the sources a run has read stay the saved ones.
OneJob ==
    /\ jobs["request"].kind = "none" \/ jobs["run"].kind = "none"
    /\ jobs["run"].at \in {"download", "register", "adopt"} => jobs["run"].prefs = prefs

\* The thread of the run has written the workbook it selects, and not yet the sheets.
Writing == jobs["run"].at \in {"sheet", "scan"}

\* What the selection holds between the writes of that thread and of a reader it did not cross.
SelectionInv ==
    /\ selected.file = NoFile => selected = Unselected
    /\ reader.at = "list" => reader.file \in DOMAIN files
    /\ reader.at = "show" \/ Writing => selected.file # NoFile
    /\ ~crossed =>
        /\ reader.at = "list" => selected = Unselected
        /\ reader.at = "show" => reader.sheet \in Tabs(selected.file)
        /\ Writing => selected.file = jobs["run"].file
        /\ jobs["run"].at = "scan" => selected.sheet \in Tabs(selected.file) \cup {NoSheet}
        /\ ~Writing => Fits

SourceInv ==
    SourceType /\ JobFits(jobs["request"]) /\ JobFits(jobs["run"]) /\ OneJob /\ RegistryMatches /\ SelectionInv

LEMMA IdleTyped == Idle \in Jobs /\ Idle.at = "idle" /\ Idle.kind = "none" /\ Idle.file = NoFile
                 /\ Idle.sheet = NoSheet
<1>1. [file |-> NoFile, url |-> NoUrl] \in Entries
  BY DEF Entries
<1>2. Empty \in [Platforms -> Entries]
  BY <1>1 DEF Empty
<1> HIDE DEF Empty
<1> QED
  BY <1>2 DEF Idle, Jobs, Kinds, Places, UrlsOrNone, NoSheet

LEMMA NoReaderTyped ==
    NoReader.at = "none" /\ NoReader \in ReadersOf(DOMAIN files) /\ NoReader.file = NoFile /\ NoReader.sheet = NoSheet
BY DEF NoReader, ReadersOf, NoSheet

\* Sheets are numbers, and the name of a workbook is not that of none.
LEMMA SheetsTyped ==
    ASSUME SourceType, NEW f \in DOMAIN files
    PROVE files[f].sheets \in SheetSets /\ Tabs(f) \subseteq Int /\ f # NoFile
<1>1. files[f].sheets \in SheetSets /\ f \in Names
  BY DEF SourceType
<1>2. PICK n \in files[f].sheets \cup {0} : files[f].sheets \subseteq 1 .. n
  BY <1>1, SourcesAssumption
<1> QED
  BY <1>1, <1>2, SourcesAssumption DEF Tabs, Other

\* Nothing is lost when the workbooks, the registry and the selection stay and its thread does not write.
LEMMA JobsStep ==
    ASSUME SourceInv, UNCHANGED <<files, registry, selected, view, reader, crossed>>, prefs' \in [Platforms -> Entries],
           jobs' \in [{"request", "run"} -> Jobs], JobFits(jobs'["request"]), JobFits(jobs'["run"]), OneJob',
           ~Writing, ~Writing'
    PROVE SourceInv'
<1>1. SourceType' /\ JobFits(jobs["request"])' /\ JobFits(jobs["run"])' /\ RegistryMatches'
  BY DEF SourceInv, SourceType, JobFits, RegistryMatches
<1>2. SelectionInv'
  BY DEF SourceInv, SelectionInv, Writing, Fits, Tabs
<1> QED
  BY <1>1, <1>2 DEF SourceInv

\* A job that ends leaves the other as it was.
LEMMA EndStep ==
    ASSUME SourceInv, NEW j \in {"request", "run"}, End(j)
    PROVE /\ jobs' \in [{"request", "run"} -> Jobs] /\ JobFits(jobs'["request"]) /\ JobFits(jobs'["run"])
          /\ jobs'["request"].kind = "none" \/ jobs'["run"].kind = "none"
          /\ jobs'["run"] \in {Idle, jobs["run"]}
          /\ jobs[j].kind # "none" => jobs'["run"] = Idle /\ \A k \in {"request", "run"} \ {j} : jobs[k] = Idle
<1>1. jobs' = [jobs EXCEPT ![j] = Idle] /\ jobs \in [{"request", "run"} -> Jobs]
  BY DEF End, SourceInv, SourceType
<1>2. JobFits(Idle)
  BY IdleTyped DEF JobFits
<1>3. jobs' \in [{"request", "run"} -> Jobs]
  BY <1>1, IdleTyped
<1>4. jobs'[j] = Idle /\ \A k \in {"request", "run"} \ {j} : jobs'[k] = jobs[k]
  BY <1>1
<1>5. jobs[j].kind # "none" => \A k \in {"request", "run"} \ {j} : jobs[k] = Idle
  BY DEF SourceInv, OneJob, JobFits
<1> QED
  BY <1>2, <1>3, <1>4, <1>5, IdleTyped DEF SourceInv, OneJob

LEMMA LeaveStep ==
    ASSUME SourceInv, NEW j \in {"request", "run"}, End(j), jobs[j].kind # "none", jobs[j].at \notin {"sheet", "scan"},
           UNCHANGED <<files, registry, selected, prefs, view, reader, crossed>>
    PROVE SourceInv'
<1>1. OneJob' /\ ~Writing /\ ~Writing'
  BY EndStep, IdleTyped DEF OneJob, Writing
<1>2. prefs' \in [Platforms -> Entries]
  BY DEF SourceInv, SourceType
<1> QED
  BY <1>1, <1>2, EndStep, JobsStep

\* A selection that fits, while no reader and no thread is about to write.
LEMMA SelectStep ==
    ASSUME SourceInv, selected' \in [file : DOMAIN files \cup {NoFile}, sheet : Int, scan : Int], Fits',
           UNCHANGED <<files, registry>>, prefs' \in [Platforms -> Entries],
           view' \in DOMAIN files \cup {NoFile}, reader' = NoReader, crossed' \in BOOLEAN,
           jobs' \in [{"request", "run"} -> Jobs],
           JobFits(jobs'["request"]), JobFits(jobs'["run"]), OneJob', ~Writing'
    PROVE SourceInv'
<1>1. reader' \in ReadersOf(DOMAIN files) /\ reader'.at = "none"
  BY NoReaderTyped
<1>2. SourceType' /\ JobFits(jobs["request"])' /\ JobFits(jobs["run"])' /\ RegistryMatches'
  BY <1>1 DEF SourceInv, SourceType, JobFits, RegistryMatches
<1>3. SelectionInv'
  BY <1>1 DEF SelectionInv, Writing, Fits
<1> QED
  BY <1>2, <1>3 DEF SourceInv

\* A reader changes the selection, what it reads and where it is.
LEMMA ReadStep ==
    ASSUME SourceInv, UNCHANGED <<files, registry, prefs, jobs, crossed>>,
           selected' \in [file : DOMAIN files \cup {NoFile}, sheet : Int, scan : Int],
           view' \in DOMAIN files \cup {NoFile}, reader' \in ReadersOf(DOMAIN files), SelectionInv'
    PROVE SourceInv'
BY DEF SourceInv, SourceType, JobFits, OneJob, RegistryMatches

-----------------------------------------------------------------------------
(* Sources: its steps.                                                     *)

LEMMA BeginStep ==
    ASSUME SourceInv, NEW j \in {"request", "run"}, NEW job \in Jobs, JobFits(job), Begin(j, job),
           j = "run" => job.at = "source", job.at \notin {"sheet", "scan"}, UNCHANGED <<files, registry, selected, prefs, view, reader, crossed>>
    PROVE SourceInv'
<1>1. jobs \in [{"request", "run"} -> Jobs] /\ jobs' = [jobs EXCEPT ![j] = job]
  BY DEF Begin, SourceInv, SourceType
<1>2. \A k \in {"request", "run"} : jobs[k].kind = "none" /\ jobs[k] = Idle
  BY <1>1 DEF Begin, Blocked, SourceInv, JobFits
<1>3. jobs'[j] = job /\ \A k \in {"request", "run"} \ {j} : jobs'[k] = Idle
  BY <1>1, <1>2
<1>4. JobFits(Idle)
  BY IdleTyped DEF JobFits
<1>5. OneJob' /\ ~Writing /\ ~Writing'
  BY <1>2, <1>3, IdleTyped DEF OneJob, Writing
<1>6. prefs' \in [Platforms -> Entries] /\ jobs' \in [{"request", "run"} -> Jobs]
  BY <1>1 DEF SourceInv, SourceType
<1> QED
  BY <1>3, <1>4, <1>5, <1>6, JobsStep

LEMMA UrlKnown == SourceType => \A f : UrlOf(f) \in UrlsOrNone
BY DEF SourceType, UrlOf, UrlsOrNone

LEMMA SourceStart == SourceInv /\ Start => SourceInv'
<1> SUFFICES ASSUME SourceInv, Start PROVE SourceInv'
  OBVIOUS
<1>1. UNCHANGED <<files, registry, selected, prefs, view, reader, crossed>>
  BY DEF Start, reading
<1>2. DOMAIN files \subseteq Names /\ SourceType /\ prefs \in [Platforms -> Entries]
  BY DEF SourceInv, SourceType
<1>3. PICK idle : idle = Idle
  OBVIOUS
<1>4. idle \in Jobs /\ idle.kind = "none" /\ idle.at = "idle" /\ idle.file = NoFile
  BY <1>3, IdleTyped
<1>5. ASSUME NEW u \in Urls, Begin("request", [Idle EXCEPT !.kind = "sync", !.at = "download", !.url = u])
      PROVE SourceInv'
  <2>1. PICK job : job = [idle EXCEPT !.kind = "sync", !.at = "download", !.url = u]
    OBVIOUS
  <2>2. job \in Jobs /\ job.kind = "sync" /\ job.at = "download" /\ job.file = NoFile
    BY <1>4, <2>1 DEF Jobs, Kinds, Places, UrlsOrNone
  <2>3. JobFits(job)
    BY <2>2 DEF JobFits
  <2> QED
    BY <1>1, <1>3, <1>5, <2>1, <2>2, <2>3, BeginStep
<1>6. ASSUME Begin("request", [Idle EXCEPT !.kind = "upload", !.at = "download"])
      PROVE SourceInv'
  <2>1. PICK job : job = [idle EXCEPT !.kind = "upload", !.at = "download"]
    OBVIOUS
  <2>2. job \in Jobs /\ job.kind = "upload" /\ job.at = "download" /\ job.file = NoFile
    BY <1>4, <2>1 DEF Jobs, Kinds, Places
  <2>3. JobFits(job)
    BY <2>2 DEF JobFits
  <2> QED
    BY <1>1, <1>3, <1>6, <2>1, <2>2, <2>3, BeginStep
<1>7. ASSUME NEW f \in DOMAIN files, Begin("request", [Idle EXCEPT !.kind = "select", !.at = "names", !.file = f])
      PROVE SourceInv'
  <2>1. PICK job : job = [idle EXCEPT !.kind = "select", !.at = "names", !.file = f]
    OBVIOUS
  <2>2. job \in Jobs /\ job.kind = "select" /\ job.at = "names" /\ job.file = f
    BY <1>2, <1>4, <2>1 DEF Jobs, Kinds, Places
  <2>3. JobFits(job)
    BY <2>2 DEF JobFits
  <2> QED
    BY <1>1, <1>3, <1>7, <2>1, <2>2, <2>3, BeginStep
<1>8. ASSUME NEW p \in Platforms, NEW f \in DOMAIN files \cup {NoFile}, NEW u \in Urls \cup {NoUrl},
             Begin("request", [Idle EXCEPT !.kind = "prefs", !.at = "save", !.prefs = [prefs EXCEPT ![p] = [file |-> f, url |-> u]]])
      PROVE SourceInv'
  <2>1. PICK newPrefs : newPrefs = [prefs EXCEPT ![p] = [file |-> f, url |-> u]]
    OBVIOUS
  <2>2. newPrefs \in [Platforms -> Entries]
    BY <1>2, <2>1 DEF Entries
  <2>3. PICK job : job = [idle EXCEPT !.kind = "prefs", !.at = "save", !.prefs = newPrefs]
    OBVIOUS
  <2>4. job \in Jobs /\ job.kind = "prefs" /\ job.at = "save" /\ job.file = NoFile
    BY <1>4, <2>2, <2>3 DEF Jobs, Kinds, Places
  <2>5. JobFits(job)
    BY <2>4 DEF JobFits
  <2> QED
    BY <1>1, <1>3, <1>8, <2>1, <2>3, <2>4, <2>5, BeginStep
<1>9. ASSUME Begin("request", [Idle EXCEPT !.kind = "push", !.at = "rows"])
      PROVE SourceInv'
  <2>1. PICK job : job = [idle EXCEPT !.kind = "push", !.at = "rows"]
    OBVIOUS
  <2>2. job \in Jobs /\ job.kind = "push" /\ job.at = "rows" /\ job.file = NoFile
    BY <1>4, <2>1 DEF Jobs, Kinds, Places
  <2>3. JobFits(job)
    BY <2>2 DEF JobFits
  <2> QED
    BY <1>1, <1>3, <1>9, <2>1, <2>2, <2>3, BeginStep
<1>10. ASSUME NEW p \in Platforms, Begin("run", [Idle EXCEPT !.kind = "run", !.at = "source", !.platform = p])
       PROVE SourceInv'
  <2>1. PICK job : job = [idle EXCEPT !.kind = "run", !.at = "source", !.platform = p]
    OBVIOUS
  <2>2. job \in Jobs /\ job.kind = "run" /\ job.at = "source" /\ job.file = NoFile /\ job.platform = p
    BY <1>4, <2>1 DEF Jobs, Kinds, Places
  <2>3. JobFits(job)
    BY <2>2 DEF JobFits
  <2> QED
    BY <1>1, <1>3, <1>10, <2>1, <2>2, <2>3, BeginStep
<1> QED
  BY <1>5, <1>6, <1>7, <1>8, <1>9, <1>10 DEF Start

LEMMA SourceReadTest == SourceInv /\ reader = NoReader /\ ReadTest => SourceInv'
<1> SUFFICES ASSUME SourceInv, reader = NoReader, ReadTest PROVE SourceInv'
  OBVIOUS
<1>1. PICK f \in Preferred : reader' = [NoReader EXCEPT !.at = "list", !.file = f]
  BY DEF ReadTest
<1>2. UNCHANGED <<files, registry, prefs, jobs, crossed, selected, view>> /\ selected.file \notin DOMAIN files
  BY DEF ReadTest, Listed
<1>3. f \in DOMAIN files
  BY <1>1 DEF Preferred
<1>4. reader'.at = "list" /\ reader'.file = f /\ reader' \in ReadersOf(DOMAIN files)
  BY <1>1, <1>3, NoReaderTyped DEF ReadersOf
<1>5. selected = Unselected /\ selected.file = NoFile
  BY <1>2 DEF SourceInv, SourceType, SelectionInv
<1>6. SelectionInv'
  BY <1>2, <1>3, <1>4, <1>5 DEF SourceInv, SelectionInv, Writing, Fits, Tabs
<1> QED
  BY <1>2, <1>4, <1>6, ReadStep DEF SourceInv, SourceType

LEMMA SourceFallsBack == SourceInv /\ ReadFallsBack => SourceInv'
<1> SUFFICES ASSUME SourceInv, ReadFallsBack PROVE SourceInv'
  OBVIOUS
<1>1. /\ reader.at = "list" /\ selected' = [selected EXCEPT !.file = reader.file] /\ reader' = NoReader
      /\ UNCHANGED <<files, registry, prefs, jobs, crossed, view>>
  BY DEF ReadFallsBack
<1>2. reader.file \in DOMAIN files /\ reader.file # NoFile
  BY <1>1, SheetsTyped DEF SourceInv, SelectionInv
<1>3. /\ selected' \in [file : DOMAIN files, sheet : Int, scan : Int] /\ selected'.file = reader.file
      /\ selected'.sheet = selected.sheet /\ selected'.scan = selected.scan
  BY <1>1, <1>2 DEF SourceInv, SourceType
<1>4. ~crossed => ~Writing /\ selected.sheet = NoSheet /\ selected.scan = NoSheet
  BY <1>1 DEF SourceInv, SelectionInv, Unselected
<1>5. SelectionInv'
  BY <1>1, <1>2, <1>3, <1>4, NoReaderTyped DEF SelectionInv, Writing, Fits
<1> QED
  BY <1>1, <1>3, <1>5, NoReaderTyped, ReadStep DEF SourceInv, SourceType

LEMMA SourcePreview == SourceInv /\ reader = NoReader /\ (PreviewStart \/ PreviewTest) => SourceInv'
<1> SUFFICES ASSUME SourceInv, reader = NoReader, PreviewStart \/ PreviewTest PROVE SourceInv'
  OBVIOUS
<1>1. /\ UNCHANGED <<files, registry, prefs, jobs, crossed, selected>> /\ view' \in DOMAIN files \cup {NoFile}
      /\ reader.at = "none"
  BY NoReaderTyped DEF PreviewStart, PreviewTest, Listed
<1>2. CASE reader' = reader
  <2>1. SelectionInv'
    BY <1>1, <1>2 DEF SourceInv, SelectionInv, Writing, Fits, Tabs
  <2> QED
    BY <1>1, <1>2, <2>1, ReadStep DEF SourceInv, SourceType
<1>3. CASE PreviewTest /\ reader' # reader
  <2>1. PICK s \in Tabs(view) : reader' = [NoReader EXCEPT !.at = "show", !.sheet = s]
    BY <1>3 DEF PreviewTest
  <2>2. view \in DOMAIN files /\ selected.file = view /\ s \in Int /\ view # NoFile
    BY <1>3, <2>1, SheetsTyped DEF PreviewTest, PreviewKeeps, SourceInv, SourceType
  <2>3. reader'.at = "show" /\ reader'.sheet = s /\ reader' \in ReadersOf(DOMAIN files)
    BY <2>1, <2>2 DEF NoReader, ReadersOf
  <2>4. SelectionInv'
    BY <1>1, <2>2, <2>3 DEF SourceInv, SelectionInv, Writing, Fits, Tabs
  <2> QED
    BY <1>1, <2>3, <2>4, ReadStep DEF SourceInv, SourceType
<1> QED
  BY <1>2, <1>3 DEF PreviewStart

LEMMA SourceShows == SourceInv /\ PreviewShows => SourceInv'
<1> SUFFICES ASSUME SourceInv, PreviewShows PROVE SourceInv'
  OBVIOUS
<1>1. /\ reader.at = "show" /\ selected' = [selected EXCEPT !.sheet = reader.sheet] /\ reader' = NoReader
      /\ UNCHANGED <<files, registry, prefs, jobs, crossed, view>>
  BY DEF PreviewShows
<1>2. /\ selected' \in [file : DOMAIN files \cup {NoFile}, sheet : Int, scan : Int]
      /\ selected'.file = selected.file /\ selected'.scan = selected.scan /\ selected'.sheet = reader.sheet
  BY <1>1 DEF SourceInv, SourceType, ReadersOf
<1>3. SelectionInv'
  BY <1>1, <1>2, NoReaderTyped DEF SourceInv, SelectionInv, Writing, Fits, Tabs
<1> QED
  BY <1>1, <1>2, <1>3, NoReaderTyped, ReadStep DEF SourceInv, SourceType

LEMMA SourceRunSource == SourceInv /\ RunSource => SourceInv'
<1> SUFFICES ASSUME SourceInv, RunSource PROVE SourceInv'
  OBVIOUS
<1>1. PICK url : url = IF prefs[jobs["run"].platform].url # NoUrl THEN prefs[jobs["run"].platform].url
                       ELSE UrlOf(prefs[jobs["run"].platform].file)
  OBVIOUS
<1>2. /\ jobs["run"].at = "source" /\ UNCHANGED <<files, registry, selected, prefs, view, reader, crossed>>
      /\ IF url = NoUrl THEN End("run")
         ELSE jobs' = [jobs EXCEPT !["run"].at = "download", !["run"].url = url, !["run"].prefs = prefs]
  BY <1>1 DEF RunSource, reading
<1>3. CASE url = NoUrl
  <2>1. jobs["run"].kind # "none"
    BY <1>2, IdleTyped DEF SourceInv, JobFits
  <2> QED
    BY <1>2, <1>3, <2>1, LeaveStep
<1>4. CASE url # NoUrl
  <2>1. /\ jobs \in [{"request", "run"} -> Jobs] /\ JobFits(jobs["run"]) /\ JobFits(jobs["request"])
        /\ prefs \in [Platforms -> Entries] /\ OneJob /\ SourceType
    BY DEF SourceInv, SourceType
  <2>2. jobs["run"].kind # "none" /\ prefs[jobs["run"].platform] \in Entries
    BY <1>2, <2>1, IdleTyped DEF JobFits
  <2>3. url \in UrlsOrNone
    BY <1>1, <2>1, <2>2, UrlKnown DEF Entries, UrlsOrNone
  <2>4. PICK job : job = [jobs["run"] EXCEPT !.at = "download", !.url = url, !.prefs = prefs]
    OBVIOUS
  <2>5. /\ job \in Jobs /\ job.kind = jobs["run"].kind /\ job.at = "download"
        /\ job.file = jobs["run"].file /\ job.prefs = prefs
    BY <2>1, <2>3, <2>4 DEF Jobs, Places
  <2>6. jobs' = [jobs EXCEPT !["run"] = job]
    BY <1>2, <1>4, <2>1, <2>4
  <2>7. jobs' \in [{"request", "run"} -> Jobs] /\ jobs'["run"] = job /\ jobs'["request"] = jobs["request"]
    BY <2>1, <2>5, <2>6
  <2>8. JobFits(job)
    BY <2>1, <2>2, <2>5 DEF JobFits
  <2>9. OneJob' /\ ~Writing /\ ~Writing'
    BY <1>2, <2>1, <2>2, <2>5, <2>7 DEF OneJob, Writing
  <2> QED
    BY <1>2, <2>1, <2>7, <2>8, <2>9, JobsStep
<1> QED
  BY <1>3, <1>4

\* A job that goes on: its file and place change, the rest of it and the other job stay.
LEMMA MoveStep ==
    ASSUME SourceInv, NEW j \in {"request", "run"}, jobs[j].kind # "none",
           NEW f \in Names \cup {NoFile}, NEW at \in Places,
           jobs' = [jobs EXCEPT ![j].file = f, ![j].at = at],
           at \in {"adopt", "register"} => jobs[j].at \in {"download", "register"}, at \notin {"source", "download"},
           prefs' = prefs
    PROVE /\ jobs' \in [{"request", "run"} -> Jobs] /\ OneJob'
          /\ jobs'[j] = [jobs[j] EXCEPT !.file = f, !.at = at]
          /\ \A k \in {"request", "run"} \ {j} : jobs'[k] = Idle
<1>1. jobs \in [{"request", "run"} -> Jobs]
  BY DEF SourceInv, SourceType
<1>2. PICK job : job = [jobs[j] EXCEPT !.file = f, !.at = at]
  OBVIOUS
<1>3. job \in Jobs /\ job.kind = jobs[j].kind /\ job.prefs = jobs[j].prefs /\ job.at = at
  BY <1>1, <1>2 DEF Jobs
<1>4. jobs' = [jobs EXCEPT ![j] = job]
  BY <1>1, <1>2
<1>5. jobs' \in [{"request", "run"} -> Jobs] /\ jobs'[j] = job
  BY <1>1, <1>3, <1>4
<1>6. \A k \in {"request", "run"} \ {j} : jobs'[k] = jobs[k] /\ jobs[k] = Idle
  BY <1>1, <1>4 DEF SourceInv, OneJob, JobFits
<1>7. OneJob'
  BY <1>3, <1>5, <1>6, IdleTyped DEF SourceInv, OneJob
<1> QED
  BY <1>2, <1>5, <1>6, <1>7

LEMMA SourcePublish == \A j \in {"request", "run"} : SourceInv /\ Publish(j) => SourceInv'
<1> SUFFICES ASSUME NEW j \in {"request", "run"}, SourceInv, Publish(j) PROVE SourceInv'
  OBVIOUS
<1>1. PICK f : f = PublishedName(IF jobs[j].kind = "upload" THEN "local" ELSE "data")
  OBVIOUS
<1>2. PICK at : at = IF jobs[j].kind = "upload" THEN "finish" ELSE "register"
  OBVIOUS
<1>3. PICK sheets \in SheetSets : Put(f, jobs[j].url, sheets)
  BY <1>1 DEF Publish
<1>4. /\ jobs[j].at = "download" /\ Room /\ jobs' = [jobs EXCEPT ![j].file = f, ![j].at = at]
      /\ UNCHANGED <<registry, selected, prefs, view, reader, crossed>>
  BY <1>1, <1>2 DEF Publish, reading
<1>5. /\ jobs \in [{"request", "run"} -> Jobs] /\ SourceType /\ JobFits(jobs[j])
      /\ IsFiniteSet(DOMAIN files) /\ DOMAIN files \subseteq Names
  BY DEF SourceInv, SourceType
<1>6. f \in Names \ DOMAIN files
  BY <1>1, <1>4, <1>5, NameIsFree
<1>7. jobs[j].kind # "none" /\ jobs[j].url \in UrlsOrNone
  BY <1>4, <1>5, IdleTyped DEF JobFits, Jobs
<1>8. /\ jobs' \in [{"request", "run"} -> Jobs] /\ OneJob'
      /\ jobs'[j] = [jobs[j] EXCEPT !.file = f, !.at = at]
      /\ \A k \in {"request", "run"} \ {j} : jobs'[k] = Idle
  BY <1>2, <1>4, <1>6, <1>7, MoveStep DEF Places
<1>9. /\ DOMAIN files' = DOMAIN files \cup {f} /\ files'[f] = [url |-> jobs[j].url, sheets |-> sheets]
      /\ \A g \in DOMAIN files : files'[g] = files[g]
      /\ files' \in [DOMAIN files' -> [url : UrlsOrNone, sheets : SheetSets]]
  BY <1>3, <1>5, <1>6, <1>7 DEF Put, SourceType
<1>10. IsFiniteSet(DOMAIN files')
  BY <1>5, <1>9, FS_AddElement
<1>11. jobs'[j].file = f /\ jobs'[j].at = at /\ jobs'[j].url = jobs[j].url /\ jobs'[j].kind = jobs[j].kind
  BY <1>5, <1>8 DEF Jobs
<1>12. JobFits(jobs["request"])' /\ JobFits(jobs["run"])'
  <2>1. JobFits(jobs[j])'
    BY <1>2, <1>7, <1>9, <1>11 DEF JobFits
  <2>2. \A k \in {"request", "run"} \ {j} : JobFits(jobs[k])'
    BY <1>8, IdleTyped DEF JobFits
  <2> QED
    BY <2>1, <2>2
<1>13. SourceType'
  <2>1. reader \in ReadersOf(DOMAIN files) => reader \in ReadersOf(DOMAIN files')
    BY <1>9 DEF ReadersOf
  <2> QED
    BY <1>4, <1>5, <1>6, <1>8, <1>9, <1>10, <2>1 DEF SourceType
<1>14. RegistryMatches'
  BY <1>4, <1>5, <1>9 DEF SourceInv, SourceType, RegistryMatches
<1>15. SelectionInv'
  <2>1. ~Writing /\ ~Writing'
    BY <1>2, <1>4, <1>7, <1>8, <1>11, IdleTyped DEF Writing, SourceInv, OneJob, JobFits
  <2>2. selected.file \in DOMAIN files \cup {NoFile} /\ NoFile \notin DOMAIN files
    BY <1>5, SourcesAssumption DEF SourceType
  <2>3. \A g \in DOMAIN files : Tabs(g)' = Tabs(g)
    BY <1>9 DEF Tabs
  <2>4. Fits => Fits'
    BY <1>4, <1>9, <2>2, <2>3 DEF Fits
  <2> QED
    BY <1>4, <1>9, <2>1, <2>2, <2>3, <2>4 DEF SourceInv, SelectionInv, Writing
<1> QED
  BY <1>8, <1>12, <1>13, <1>14, <1>15 DEF SourceInv

LEMMA SourceRegister == \A j \in {"request", "run"} : SourceInv /\ Register(j) => SourceInv'
<1> SUFFICES ASSUME NEW j \in {"request", "run"}, SourceInv, Register(j) PROVE SourceInv'
  OBVIOUS
<1>1. PICK name : name = jobs[j].file
  OBVIOUS
<1>2. PICK at : at = IF j = "run" THEN "adopt" ELSE "finish"
  OBVIOUS
<1>3. /\ jobs[j].at = "register"
      /\ registry' = [f \in DOMAIN registry \cup {name} |-> IF f = name THEN jobs[j].url ELSE registry[f]]
      /\ jobs' = [jobs EXCEPT ![j].at = at]
      /\ UNCHANGED <<files, selected, prefs, view, reader, crossed>>
  BY <1>1, <1>2 DEF Register, RegisteredAs, Move, reading
<1>4. /\ jobs \in [{"request", "run"} -> Jobs] /\ SourceType /\ JobFits(jobs[j])
      /\ name \in DOMAIN files /\ name \in Names /\ files[name].url = jobs[j].url
  BY <1>1, <1>3 DEF SourceInv, SourceType, JobFits
<1>5. jobs[j].kind # "none" /\ jobs[j].url \in UrlsOrNone
  BY <1>3, <1>4, IdleTyped DEF JobFits, Jobs
<1>6. jobs' = [jobs EXCEPT ![j].file = name, ![j].at = at]
  <2>1. [jobs[j] EXCEPT !.file = name, !.at = at] = [jobs[j] EXCEPT !.at = at]
    BY <1>1, <1>4 DEF Jobs
  <2> QED
    BY <1>3, <1>4, <2>1
<1>7. /\ jobs' \in [{"request", "run"} -> Jobs] /\ OneJob'
      /\ jobs'[j] = [jobs[j] EXCEPT !.file = name, !.at = at]
      /\ \A k \in {"request", "run"} \ {j} : jobs'[k] = Idle
  <2>1. at \in Places /\ at \notin {"source", "download"} /\ name \in Names \cup {NoFile}
    BY <1>2, <1>4 DEF Places
  <2>2. prefs' = prefs /\ jobs[j].at \in {"download", "register"}
    BY <1>3
  <2> QED
    BY <1>5, <1>6, <2>1, <2>2, MoveStep
<1>8. jobs'[j].file = name /\ jobs'[j].at = at /\ jobs'[j].kind = jobs[j].kind
  BY <1>4, <1>7 DEF Jobs
<1>9. JobFits(jobs["request"])' /\ JobFits(jobs["run"])'
  <2>1. JobFits(jobs[j])'
    BY <1>2, <1>3, <1>4, <1>5, <1>8 DEF JobFits
  <2>2. \A k \in {"request", "run"} \ {j} : JobFits(jobs[k])'
    BY <1>7, IdleTyped DEF JobFits
  <2> QED
    BY <2>1, <2>2
<1>10. SourceType' /\ RegistryMatches'
  BY <1>3, <1>4, <1>5, <1>7 DEF SourceInv, SourceType, RegistryMatches
<1>11. SelectionInv'
  <2>1. ~Writing /\ ~Writing'
    BY <1>2, <1>3, <1>5, <1>7, <1>8, IdleTyped DEF Writing, SourceInv, OneJob, JobFits
  <2> QED
    BY <1>3, <2>1 DEF SourceInv, SelectionInv, Writing, Fits, Tabs
<1> QED
  BY <1>7, <1>9, <1>10, <1>11 DEF SourceInv

\* The sheets chosen in a workbook that is there.
LEMMA SelectFits ==
    ASSUME SourceInv, NEW f \in DOMAIN files, NEW sheet \in Tabs(f) \cup {NoSheet},
           NEW scan \in files[f].sheets \cup {NoSheet}, Select(f, sheet, scan)
    PROVE selected' \in [file : DOMAIN files \cup {NoFile}, sheet : Int, scan : Int] /\ (files' = files => Fits')
<1>1. f # NoFile /\ Tabs(f) \subseteq Int
  BY SheetsTyped DEF SourceInv
<1>2. sheet \in Int /\ scan \in Int
  BY <1>1 DEF Tabs, NoSheet
<1> QED
  BY <1>1, <1>2 DEF Select, Fits, Tabs

LEMMA SourceFinish == SourceInv /\ reader = NoReader /\ Finish => SourceInv'
<1> SUFFICES ASSUME SourceInv, reader = NoReader, Finish PROVE SourceInv'
  OBVIOUS
<1>1. PICK f : f = jobs["request"].file
  OBVIOUS
<1>2. /\ jobs["request"].at = "finish" /\ End("request") /\ UNCHANGED <<files, registry, prefs, view, reader>>
      /\ \/ UNCHANGED <<selected, crossed>>
         \/ Select(f, Default(files[f].sheets), Default(files[f].sheets))
  BY <1>1 DEF Finish
<1>3. jobs["request"].kind # "none"
  BY <1>2, IdleTyped DEF SourceInv, JobFits
<1>4. CASE UNCHANGED <<selected, crossed>>
  BY <1>2, <1>3, <1>4, LeaveStep
<1>5. CASE Select(f, Default(files[f].sheets), Default(files[f].sheets))
  <2>1. f \in DOMAIN files /\ files[f].sheets \in SheetSets /\ prefs \in [Platforms -> Entries] /\ view \in DOMAIN files \cup {NoFile}
    BY <1>1, <1>2 DEF SourceInv, SourceType, JobFits
  <2>2. Default(files[f].sheets) \in files[f].sheets \cup {NoSheet}
    BY <2>1, DefaultIsSheet
  <2>3. selected' \in [file : DOMAIN files \cup {NoFile}, sheet : Int, scan : Int] /\ Fits'
    BY <1>2, <1>5, <2>1, <2>2, SelectFits DEF Tabs
  <2>4. OneJob' /\ ~Writing' /\ crossed' \in BOOLEAN
    BY <1>2, <1>3, <1>5, EndStep, IdleTyped DEF OneJob, Writing, Select
  <2> QED
    BY <1>2, <2>1, <2>3, <2>4, EndStep, SelectStep
<1> QED
  BY <1>2, <1>4, <1>5

LEMMA SourceAdopt == SourceInv /\ Adopt => SourceInv' /\ \A p \in Platforms \ {jobs["run"].platform} : prefs'[p] = prefs[p]
<1> SUFFICES ASSUME SourceInv, Adopt
             PROVE SourceInv' /\ \A p \in Platforms \ {jobs["run"].platform} : prefs'[p] = prefs[p]
  OBVIOUS
<1>1. PICK run : run = jobs["run"]
  OBVIOUS
<1>2. /\ run.at = "adopt" /\ UNCHANGED <<files, registry, selected, view, reader, crossed>>
      /\ prefs' = [run.prefs EXCEPT ![run.platform] = [file |-> run.file, url |-> run.url]]
  BY <1>1 DEF Adopt, AdoptedPrefs, reading
<1>3. /\ run \in Jobs /\ run.file \in DOMAIN files /\ run.prefs = prefs /\ prefs \in [Platforms -> Entries]
      /\ DOMAIN files \subseteq Names /\ files[run.file].sheets \in SheetSets /\ jobs \in [{"request", "run"} -> Jobs]
      /\ run.kind # "none"
  BY <1>1, <1>2, IdleTyped DEF SourceInv, SourceType, JobFits, OneJob
<1>4. prefs' \in [Platforms -> Entries] /\ \A p \in Platforms \ {run.platform} : prefs'[p] = prefs[p]
  <2>1. [file |-> run.file, url |-> run.url] \in Entries
    BY <1>3 DEF Entries, Jobs, UrlsOrNone
  <2> QED
    BY <1>2, <1>3, <2>1
<1>5. PICK sheet \in Adopted(files[run.file].sheets) : jobs' = [jobs EXCEPT !["run"].at = "file", !["run"].sheet = sheet]
  BY <1>1 DEF Adopt
<1>6. sheet \in files[run.file].sheets \cup {NoSheet} /\ sheet \in Int
  BY <1>3, <1>5, DefaultIsSheet, SheetsTyped DEF SourceInv, Tabs, NoSheet
<1>7. PICK job : job = [run EXCEPT !.at = "file", !.sheet = sheet]
  OBVIOUS
<1>8. job \in Jobs /\ job.at = "file" /\ job.sheet = sheet /\ job.file = run.file /\ job.kind = run.kind
  BY <1>3, <1>6, <1>7 DEF Jobs, Places
<1>9. jobs' \in [{"request", "run"} -> Jobs] /\ jobs'["run"] = job /\ jobs'["request"] = jobs["request"]
  BY <1>1, <1>3, <1>5, <1>7, <1>8
<1>10. JobFits(jobs'["run"]) /\ JobFits(jobs'["request"])
  BY <1>3, <1>6, <1>8, <1>9 DEF JobFits, SourceInv
<1>11. OneJob' /\ ~Writing /\ ~Writing'
  BY <1>1, <1>2, <1>3, <1>8, <1>9 DEF SourceInv, OneJob, Writing
<1> QED
  BY <1>1, <1>2, <1>4, <1>9, <1>10, <1>11, JobsStep

\* The place of a run moves on while its thread writes, or the run ends.
LEMMA WriterStep ==
    ASSUME SourceInv, jobs["run"].at \in {"file", "sheet"}, NEW at \in {"sheet", "scan"}, Move("run", at),
           UNCHANGED prefs
    PROVE /\ jobs' \in [{"request", "run"} -> Jobs] /\ jobs'["run"].at = at /\ jobs'["run"].file = jobs["run"].file
          /\ jobs'["request"] = jobs["request"]
          /\ files' = files => JobFits(jobs["run"])' /\ JobFits(jobs["request"])'
          /\ OneJob'
<1>1. jobs \in [{"request", "run"} -> Jobs] /\ jobs["run"].kind # "none"
  BY IdleTyped DEF SourceInv, SourceType, JobFits
<1>2. PICK job : job = [jobs["run"] EXCEPT !.at = at]
  OBVIOUS
<1>3. /\ job \in Jobs /\ job.at = at /\ job.file = jobs["run"].file /\ job.sheet = jobs["run"].sheet
      /\ job.kind = jobs["run"].kind
  BY <1>1, <1>2 DEF Jobs, Places
<1>4. jobs' \in [{"request", "run"} -> Jobs] /\ jobs'["run"] = job /\ jobs'["request"] = jobs["request"]
  BY <1>1, <1>2, <1>3 DEF Move
<1>5. files' = files => JobFits(jobs["run"])' /\ JobFits(jobs["request"])'
  BY <1>1, <1>3, <1>4 DEF SourceInv, JobFits
<1> QED
  BY <1>1, <1>3, <1>4, <1>5 DEF SourceInv, OneJob

\* The write of the workbook crosses a reader that is about to write: that is what crossed remembers.
LEMMA SourceAdoptFile == SourceInv /\ AdoptFile => SourceInv'
<1> SUFFICES ASSUME SourceInv, AdoptFile PROVE SourceInv'
  OBVIOUS
<1>1. /\ jobs["run"].at = "file" /\ Move("run", "sheet") /\ UNCHANGED <<files, registry, prefs, view, reader>>
      /\ selected' = [selected EXCEPT !.file = jobs["run"].file] /\ crossed' = (reader # NoReader)
  BY DEF AdoptFile
<1>2. /\ jobs' \in [{"request", "run"} -> Jobs] /\ jobs'["run"].at = "sheet" /\ jobs'["run"].file = jobs["run"].file
      /\ JobFits(jobs["run"])' /\ JobFits(jobs["request"])' /\ OneJob'
  BY <1>1, WriterStep
<1>3. jobs["run"].file \in DOMAIN files /\ jobs["run"].file # NoFile
  BY <1>1, SheetsTyped DEF SourceInv, JobFits
<1>4. selected' \in [file : DOMAIN files \cup {NoFile}, sheet : Int, scan : Int] /\ selected'.file = jobs["run"].file
  BY <1>1, <1>3 DEF SourceInv, SourceType
<1>5. SelectionInv'
  BY <1>1, <1>2, <1>3, <1>4, NoReaderTyped DEF SourceInv, SelectionInv, Writing
<1>6. SourceType' /\ RegistryMatches'
  BY <1>1, <1>2, <1>4 DEF SourceInv, SourceType, RegistryMatches
<1> QED
  BY <1>2, <1>5, <1>6 DEF SourceInv

LEMMA SourceAdoptSheets == SourceInv /\ AdoptSheets => SourceInv'
<1> SUFFICES ASSUME SourceInv, AdoptSheets PROVE SourceInv'
  OBVIOUS
<1>1. UNCHANGED <<files, registry, prefs, view, reader, crossed>> /\ Writing
  BY DEF AdoptSheets, reading, Writing
<1>2. /\ jobs["run"].file \in DOMAIN files /\ jobs["run"].sheet \in files[jobs["run"].file].sheets \cup {NoSheet}
      /\ jobs["run"].sheet \in Int /\ selected.file # NoFile /\ selected.file \in DOMAIN files \cup {NoFile}
  BY <1>1, SheetsTyped DEF SourceInv, SourceType, SelectionInv, JobFits, Writing, Jobs
<1>3. CASE jobs["run"].at = "sheet" /\ Move("run", "scan") /\ selected' = [selected EXCEPT !.sheet = jobs["run"].sheet]
  <2>1. /\ jobs' \in [{"request", "run"} -> Jobs] /\ jobs'["run"].at = "scan" /\ jobs'["run"].file = jobs["run"].file
        /\ JobFits(jobs["run"])' /\ JobFits(jobs["request"])' /\ OneJob'
    BY <1>1, <1>3, WriterStep
  <2>2. /\ selected' \in [file : DOMAIN files \cup {NoFile}, sheet : Int, scan : Int]
        /\ selected'.file = selected.file /\ selected'.sheet = jobs["run"].sheet
    BY <1>2, <1>3 DEF SourceInv, SourceType
  <2>3. SelectionInv'
    BY <1>1, <1>2, <2>1, <2>2 DEF SourceInv, SelectionInv, Writing, Unselected, Tabs
  <2>4. SourceType' /\ RegistryMatches'
    BY <1>1, <2>1, <2>2 DEF SourceInv, SourceType, RegistryMatches
  <2> QED
    BY <2>1, <2>3, <2>4 DEF SourceInv
<1>4. CASE jobs["run"].at = "scan" /\ End("run") /\ selected' = [selected EXCEPT !.scan = jobs["run"].sheet]
  <2>1. /\ jobs' \in [{"request", "run"} -> Jobs] /\ JobFits(jobs'["request"]) /\ JobFits(jobs'["run"]) /\ OneJob'
        /\ ~Writing'
    <3>1. jobs["run"].kind # "none"
      BY <1>4, IdleTyped DEF SourceInv, JobFits
    <3> QED
      BY <1>4, <3>1, EndStep, IdleTyped DEF OneJob, Writing
  <2>2. /\ selected' \in [file : DOMAIN files \cup {NoFile}, sheet : Int, scan : Int]
        /\ selected'.file = selected.file /\ selected'.sheet = selected.sheet /\ selected'.scan = jobs["run"].sheet
    BY <1>2, <1>4 DEF SourceInv, SourceType
  <2>3. SelectionInv'
    BY <1>1, <1>2, <1>4, <2>1, <2>2 DEF SourceInv, SelectionInv, Fits, Unselected, Tabs
  <2>4. SourceType' /\ RegistryMatches' /\ JobFits(jobs["request"])' /\ JobFits(jobs["run"])'
    BY <1>1, <2>1, <2>2 DEF SourceInv, SourceType, RegistryMatches, JobFits
  <2> QED
    BY <2>1, <2>3, <2>4 DEF SourceInv
<1> QED
  BY <1>3, <1>4 DEF AdoptSheets

LEMMA SourceSelectFile == SourceInv /\ reader = NoReader /\ SelectFile => SourceInv'
<1> SUFFICES ASSUME SourceInv, reader = NoReader, SelectFile PROVE SourceInv'
  OBVIOUS
<1>1. PICK f : f = jobs["request"].file
  OBVIOUS
<1>2. PICK data : data = files[f].sheets
  OBVIOUS
<1>3. PICK sheet \in Tabs(f) \cup {Default(data)}, scan \in data \cup {Default(data)} : Select(f, sheet, scan)
  BY <1>1, <1>2 DEF SelectFile
<1>4. jobs["request"].at = "names" /\ End("request") /\ UNCHANGED <<files, registry, prefs, view, reader>>
  BY DEF SelectFile
<1>5. f \in DOMAIN files /\ data \in SheetSets /\ prefs \in [Platforms -> Entries] /\ view \in DOMAIN files \cup {NoFile}
  BY <1>1, <1>2, <1>4 DEF SourceInv, SourceType, JobFits
<1>6. Default(data) \in data \cup {NoSheet}
  BY <1>5, DefaultIsSheet
<1>7. selected' \in [file : DOMAIN files \cup {NoFile}, sheet : Int, scan : Int] /\ Fits'
  BY <1>2, <1>3, <1>4, <1>5, <1>6, SelectFits DEF Tabs
<1>8. OneJob' /\ ~Writing' /\ crossed' \in BOOLEAN
  <2>1. jobs["request"].kind # "none"
    BY <1>4, IdleTyped DEF SourceInv, JobFits
  <2> QED
    BY <1>3, <1>4, <2>1, EndStep, IdleTyped DEF OneJob, Writing, Select
<1> QED
  BY <1>4, <1>5, <1>7, <1>8, EndStep, SelectStep

LEMMA SourceSavePrefs == SourceInv /\ SavePrefs => SourceInv'
<1> SUFFICES ASSUME SourceInv, SavePrefs PROVE SourceInv'
  OBVIOUS
<1>1. /\ jobs["request"].at = "save" /\ End("request") /\ prefs' = jobs["request"].prefs
      /\ UNCHANGED <<files, registry, selected, view, reader, crossed>>
  BY DEF SavePrefs, reading
<1>2. prefs' \in [Platforms -> Entries]
  BY <1>1 DEF SourceInv, SourceType, Jobs
<1>3. jobs["request"].kind # "none" /\ jobs["run"] = Idle
  BY <1>1, IdleTyped DEF SourceInv, JobFits, OneJob
<1>4. OneJob' /\ ~Writing /\ ~Writing'
  BY <1>1, <1>3, EndStep, IdleTyped DEF OneJob, Writing
<1> QED
  BY <1>1, <1>2, <1>4, EndStep, JobsStep

LEMMA SourceRestart == SourceInv /\ Restart => SourceInv'
<1> SUFFICES ASSUME SourceInv, Restart PROVE SourceInv'
  OBVIOUS
<1>1. /\ selected' = Unselected /\ view' = NoFile /\ reader' = NoReader /\ crossed' = FALSE
      /\ UNCHANGED <<files, registry, prefs>>
      /\ jobs' = [j \in {"request", "run"} |-> Idle] /\ prefs \in [Platforms -> Entries]
  BY DEF Restart, SourceInv, SourceType
<1>2. JobFits(Idle) /\ Unselected \in [file : DOMAIN files \cup {NoFile}, sheet : Int, scan : Int] /\ Unselected.file = NoFile
  BY IdleTyped DEF JobFits, Unselected, NoSheet
<1>3. jobs' \in [{"request", "run"} -> Jobs] /\ jobs'["request"] = Idle /\ jobs'["run"] = Idle
  BY <1>1, IdleTyped
<1>4. OneJob' /\ ~Writing' /\ Fits'
  BY <1>1, <1>2, <1>3, IdleTyped DEF OneJob, Writing, Fits
<1> QED
  BY <1>1, <1>2, <1>3, <1>4, SelectStep

LEMMA SourceInit == Init => SourceInv
<1> SUFFICES ASSUME Init PROVE SourceInv
  OBVIOUS
<1>1. /\ files = <<>> /\ registry = <<>> /\ selected = Unselected /\ view = NoFile /\ reader = NoReader /\ crossed = FALSE
      /\ jobs = [j \in {"request", "run"} |-> Idle]
  BY DEF Init
<1>2. prefs \in [Platforms -> Entries]
  <2>1. PICK u \in Urls \cup {NoUrl} : prefs = [p \in Platforms |-> [file |-> NoFile, url |-> u]]
    BY DEF Init
  <2> QED
    BY <2>1 DEF Entries
<1>3. DOMAIN files = {} /\ DOMAIN registry = {} /\ IsFiniteSet({})
  BY <1>1, FS_EmptySet
<1>4. SourceType
  <2>1. files \in [{} -> [url : UrlsOrNone, sheets : SheetSets]] /\ registry \in [{} -> UrlsOrNone]
    BY <1>1, <1>3
  <2>2. jobs \in [{"request", "run"} -> Jobs] /\ reader \in ReadersOf(DOMAIN files)
    BY <1>1, IdleTyped, NoReaderTyped
  <2>3. selected \in [file : DOMAIN files \cup {NoFile}, sheet : Int, scan : Int]
    BY <1>1 DEF Unselected, NoSheet
  <2> QED
    BY <1>1, <1>2, <1>3, <2>1, <2>2, <2>3 DEF SourceType
<1>5. JobFits(jobs["request"]) /\ JobFits(jobs["run"]) /\ OneJob
  BY <1>1, IdleTyped DEF JobFits, OneJob
<1>6. RegistryMatches /\ SelectionInv
  BY <1>1, <1>3, IdleTyped, NoReaderTyped DEF RegistryMatches, SelectionInv, Writing, Fits, Unselected
<1> QED
  BY <1>4, <1>5, <1>6 DEF SourceInv

LEMMA SourceStep == SourceInv /\ [Next]_vars => SourceInv'
<1> SUFFICES ASSUME SourceInv, [Next]_vars PROVE SourceInv'
  OBVIOUS
<1>1. DOMAIN jobs = {"request", "run"}
  BY DEF SourceInv, SourceType
<1>2. CASE UNCHANGED vars
  <2>1. UNCHANGED <<files, registry, selected, prefs, jobs, view, reader, crossed>>
    BY <1>2 DEF vars, reading
  <2> QED
    BY <2>1 DEF SourceInv, SourceType, JobFits, OneJob, RegistryMatches, SelectionInv, Writing, Fits, Tabs
<1>3. ASSUME NEW j \in {"request", "run"}, Leave(j)
      PROVE SourceInv'
  BY <1>3, LeaveStep DEF Leave, reading
<1>4. CASE reader = NoReader /\ LoopStep
  BY <1>1, <1>3, <1>4, SourceReadTest, SourcePreview, SourceStart, SourceRunSource, SourcePublish, SourceRegister,
     SourceFinish, SourceSelectFile, SourceSavePrefs DEF LoopStep, JobStep
<1> QED
  BY <1>2, <1>4, SourceFallsBack, SourceShows, SourceAdopt, SourceAdoptFile, SourceAdoptSheets, SourceRestart DEF Next

\* The registry names the spreadsheet each workbook was loaded from, and the selected sheets are in
\* the selected workbook, whatever syncs, uploads, selections, previews and restarts come between, as
\* long as no run's thread writes the workbook between a reader's test of the selection and its write.
THEOREM SourcesStay == Spec => []SourcesMatch
<1>1. SourceInv => SourcesMatch
  <2> SUFFICES ASSUME SourceInv PROVE SourcesMatch
    OBVIOUS
  <2>1. TypeOK /\ RegistryMatches
    BY DEF SourceInv, SourceType, JobFits, TypeOK, UrlsOrNone, Jobs, ReadersOf
  <2>2. SheetsFitUncrossed
    BY DEF SourceInv, SelectionInv, Writing, SheetsFitUncrossed, SheetsFit
  <2> QED
    BY <2>1, <2>2 DEF SourcesMatch
<1> QED
  BY <1>1, SourceInit, SourceStep, PTL DEF Spec

\* A scheduled run that adopts the workbook it synced leaves the saved sources of the other
\* platforms as they are (adopt_synced_source writes them all).
THEOREM OthersStay == Spec => OthersKept
<1>1. SourceInv /\ [Next]_vars => [Adopt => \A p \in Platforms \ {jobs["run"].platform} : prefs'[p] = prefs[p]]_vars
  BY SourceAdopt
<1> QED
  BY <1>1, SourceInit, SourceStep, PTL DEF Spec, OthersKept
=============================================================================
