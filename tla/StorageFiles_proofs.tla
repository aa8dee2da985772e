------------------------ MODULE StorageFiles_proofs ------------------------
(* Proofs about StorageFiles: contents never get older, and waiting means    *)
(* written, for any files, any number of contents, faults and crashes.       *)
EXTENDS StorageFiles, TLAPS, SequenceTheorems

Steps == {"save", "removeSimple", "removeBackup", "open", "fill",
          "clearBackup", "rename", "removeSafe"}

Calls == {"writeSync", "writeScheduled", "writeSyncAll"}

File == [s : Int, zero : Int, one : Int, oneIsYounger : BOOLEAN]
Entry == [base : Bases, content : Nat \ {0}]
Posted ==
    [call : {"write", "writeSync"}, base : Bases, content : Nat \ {0}]
        \cup [call : {"writeScheduled", "writeSyncAll"}]
Working == [step : Steps, base : Bases, content : Nat \ {0}, call : Calls]

HasContent(c) == c.call \in {"write", "writeSync"}
IsSync(c) == c.call \in {"writeSync", "writeSyncAll"}

-----------------------------------------------------------------------------
(* Reading *)

LEMMA MatchingIs ==
    ASSUME NEW d \in File
    PROVE  /\ Matching(d) = 0 \/ Matching(d) \in DOMAIN ToTry(d)
           /\ Matching(d) # 0 => Whole(d[ToTry(d)[Matching(d)]])
           /\ Matching(d) = 0 => \A i \in DOMAIN ToTry(d) : ~Whole(d[ToTry(d)[i]])
           /\ \A i \in DOMAIN ToTry(d) :
                Whole(d[ToTry(d)[i]]) => Matching(d) <= i
<1> DEFINE I == {i \in 1..Len(ToTry(d)) : Whole(d[ToTry(d)[i]])}
<1>1. Matching(d) = IF I # {} THEN Min(I) ELSE 0
    BY SMT DEF Matching, SelectInSeq
<1>2. /\ ToTry(d) \in {<<"s">>, <<"zero">>, <<"one">>, <<"zero", "one">>,
                        <<"one", "zero">>}
      /\ Len(ToTry(d)) \in {1, 2}
    BY DEF ToTry
<1>3. DOMAIN ToTry(d) = 1..Len(ToTry(d))
    BY <1>2
<1>4. I \subseteq {1, 2}
    BY <1>2
<1>5. I # {} => Min(I) \in I /\ \A i \in I : Min(I) <= i
    <2>1. CASE 1 \in I
        <3>1. \A i \in I : 1 <= i
            BY <1>4
        <3> QED
            BY <1>4, <2>1, <3>1 DEF Min
    <2>2. CASE 1 \notin I
        BY <1>4, <2>2 DEF Min
    <2> QED
        BY <2>1, <2>2
<1> QED
    BY <1>1, <1>2, <1>3, <1>5

\* A file that was put in place is what is read.
LEMMA ReadableSafe ==
    ASSUME NEW d \in File, d.s # NoFile
    PROVE  Readable(d) = IF Whole(d.s) THEN d.s ELSE NoFile
<1>1. ToTry(d) = <<"s">>
    BY DEF ToTry
<1>2. DOMAIN ToTry(d) = {1} /\ ToTry(d)[1] = "s"
    BY <1>1
<1>3. d["s"] = d.s
    BY DEF File
<1>4. Matching(d) = IF Whole(d.s) THEN 1 ELSE 0
    BY <1>2, <1>3, MatchingIs
<1> QED
    BY <1>2, <1>3, <1>4 DEF Readable

\* The only plain copy is read, if it is whole.
LEMMA ReadableZero ==
    ASSUME NEW d \in File, d.s = NoFile, d.one = NoFile
    PROVE  Readable(d) = IF Whole(d.zero) THEN d.zero ELSE NoFile
<1>1. ToTry(d) = <<"zero">>
    BY DEF ToTry
<1>2. DOMAIN ToTry(d) = {1} /\ ToTry(d)[1] = "zero"
    BY <1>1
<1>3. d["zero"] = d.zero
    BY DEF File
<1>4. Matching(d) = IF Whole(d.zero) THEN 1 ELSE 0
    BY <1>2, <1>3, MatchingIs
<1> QED
    BY <1>2, <1>3, <1>4 DEF Readable

LEMMA ReadableOne ==
    ASSUME NEW d \in File, d.s = NoFile, d.zero = NoFile, d.one # NoFile
    PROVE  Readable(d) = IF Whole(d.one) THEN d.one ELSE NoFile
<1>1. ToTry(d) = <<"one">>
    BY DEF ToTry
<1>2. DOMAIN ToTry(d) = {1} /\ ToTry(d)[1] = "one"
    BY <1>1
<1>3. d["one"] = d.one
    BY DEF File
<1>4. Matching(d) = IF Whole(d.one) THEN 1 ELSE 0
    BY <1>2, <1>3, MatchingIs
<1> QED
    BY <1>2, <1>3, <1>4 DEF Readable

\* Of two plain copies the younger one is read, or the other one.
LEMMA ReadableBoth ==
    ASSUME NEW d \in File, d.s = NoFile, d.zero # NoFile, d.one # NoFile
    PROVE  LET first == IF d.oneIsYounger THEN "one" ELSE "zero"
               second == IF d.oneIsYounger THEN "zero" ELSE "one"
           IN /\ ToTry(d) = <<first, second>>
              /\ Matching(d) = IF Whole(d[first]) THEN 1
                               ELSE IF Whole(d[second]) THEN 2 ELSE 0
              /\ Readable(d) = IF Whole(d[first]) THEN d[first]
                               ELSE IF Whole(d[second]) THEN d[second]
                               ELSE NoFile
<1> DEFINE first == IF d.oneIsYounger THEN "one" ELSE "zero"
           second == IF d.oneIsYounger THEN "zero" ELSE "one"
<1>1. ToTry(d) = <<first, second>>
    BY DEF ToTry
<1> HIDE DEF first, second
<1>2. DOMAIN ToTry(d) = {1, 2} /\ ToTry(d)[1] = first /\ ToTry(d)[2] = second
    BY <1>1
<1>3. Matching(d) = IF Whole(d[first]) THEN 1
                    ELSE IF Whole(d[second]) THEN 2 ELSE 0
    BY <1>2, MatchingIs
<1>4. Readable(d) = IF Whole(d[first]) THEN d[first]
                    ELSE IF Whole(d[second]) THEN d[second] ELSE NoFile
    BY <1>2, <1>3 DEF Readable
<1>5. ToTry(d) = <<first, second>>
    BY <1>1
<1> QED
    BY <1>3, <1>4, <1>5 DEF first, second

\* A whole plain copy is read, unless a younger one or an 's' is there.
LEMMA ReadablePlain ==
    ASSUME NEW d \in File, d.s = NoFile, Whole(d.zero), ~d.oneIsYounger
    PROVE  Readable(d) = d.zero
<1>1. d["zero"] = d.zero
    BY DEF File
<1>2. CASE d.one = NoFile
    BY <1>2, ReadableZero
<1>3. CASE d.one # NoFile
    BY <1>1, <1>3, ReadableBoth DEF Whole, NoFile
<1> QED
    BY <1>2, <1>3

AtMost(d, n) == d.s <= n /\ d.zero <= n /\ d.one <= n

LEMMA ReadableAtMost ==
    ASSUME NEW d \in File, NEW n \in Nat, AtMost(d, n)
    PROVE  Readable(d) \in Nat /\ Readable(d) <= n
<1>1. /\ d.s \in Int /\ d.zero \in Int /\ d.one \in Int
      /\ d["zero"] = d.zero /\ d["one"] = d.one
    BY DEF File
<1>2. CASE d.s # NoFile
    BY <1>1, <1>2, ReadableSafe DEF AtMost, Whole, NoFile
<1>3. CASE d.s = NoFile /\ d.one = NoFile
    BY <1>1, <1>3, ReadableZero DEF AtMost, Whole, NoFile
<1>4. CASE d.s = NoFile /\ d.zero = NoFile /\ d.one # NoFile
    BY <1>1, <1>4, ReadableOne DEF AtMost, Whole, NoFile
<1>5. CASE d.s = NoFile /\ d.zero # NoFile /\ d.one # NoFile
    BY <1>1, <1>5, ReadableBoth DEF AtMost, Whole, NoFile
<1> QED
    BY <1>2, <1>3, <1>4, <1>5

\* Removing the copy that is not read changes nothing of what is read.
LEMMA OnlyReadIsRead ==
    ASSUME NEW d \in File, Len(ToTry(d)) = 2, Matching(d) # 0
    PROVE  /\ OnlyRead(d) \in File
           /\ OnlyRead(d).s = d.s /\ d.s = NoFile
           /\ OnlyRead(d).zero \in {d.zero, NoFile}
           /\ OnlyRead(d).one \in {d.one, NoFile} /\ d.one # NoFile
           /\ OnlyRead(d).oneIsYounger = d.oneIsYounger
           /\ ~d.oneIsYounger /\ Whole(d.zero) => OnlyRead(d).zero = d.zero
           /\ Readable(OnlyRead(d)) = Readable(d)
<1>1. d.s = NoFile /\ d.zero # NoFile /\ d.one # NoFile
    BY DEF ToTry
<1> DEFINE first == IF d.oneIsYounger THEN "one" ELSE "zero"
           second == IF d.oneIsYounger THEN "zero" ELSE "one"
           read == IF Whole(d[first]) THEN first ELSE second
           r == OnlyRead(d)
<1>2. /\ ToTry(d) = <<first, second>>
      /\ Matching(d) = IF Whole(d[first]) THEN 1
                       ELSE IF Whole(d[second]) THEN 2 ELSE 0
      /\ Readable(d) = IF Whole(d[first]) THEN d[first]
                       ELSE IF Whole(d[second]) THEN d[second] ELSE NoFile
    BY <1>1, ReadableBoth
<1>3. ToTry(d)[Matching(d)] = read /\ Whole(d[read]) /\ Readable(d) = d[read]
    <2> HIDE DEF first, second
    <2> QED
        BY <1>2
<1>4. DOMAIN d = {"s", "zero", "one", "oneIsYounger"}
    BY DEF File
<1>5. read \in {"zero", "one"}
    OBVIOUS
<1>6. read = "zero" \/ ~(~d.oneIsYounger /\ Whole(d.zero))
    BY DEF File
<1> HIDE DEF read, first, second
<1>7. r = [f \in {"s", "zero", "one", "oneIsYounger"} |->
                IF f \in {"zero", "one"} \ {read} THEN NoFile ELSE d[f]]
    BY <1>3, <1>4 DEF OnlyRead
<1>8. /\ d.s \in Int /\ d.zero \in Int /\ d.one \in Int /\ d.oneIsYounger \in BOOLEAN
      /\ d["s"] = d.s /\ d["zero"] = d.zero /\ d["one"] = d.one
      /\ d["oneIsYounger"] = d.oneIsYounger
    BY DEF File
<1>9. /\ r["s"] = d.s /\ r["oneIsYounger"] = d.oneIsYounger
      /\ r["zero"] = IF read = "zero" THEN d.zero ELSE NoFile
      /\ r["one"] = IF read = "one" THEN d.one ELSE NoFile
    BY <1>5, <1>7, <1>8
<1>10. r = [s |-> r["s"], zero |-> r["zero"], one |-> r["one"],
            oneIsYounger |-> r["oneIsYounger"]]
    BY <1>7
<1> HIDE DEF r
<1>11. /\ r.s = d.s /\ r.oneIsYounger = d.oneIsYounger
       /\ r.zero = IF read = "zero" THEN d.zero ELSE NoFile
       /\ r.one = IF read = "one" THEN d.one ELSE NoFile
    BY <1>9, <1>10
<1>12. r \in File
    BY <1>8, <1>9, <1>10 DEF File, NoFile
<1>13. Readable(r) = Readable(d)
    <2>1. CASE read = "zero"
        BY <1>1, <1>3, <1>8, <1>11, <1>12, <2>1, ReadableZero
    <2>2. CASE read = "one"
        BY <1>1, <1>3, <1>8, <1>11, <1>12, <2>2, ReadableOne
    <2> QED
        BY <1>5, <2>1, <2>2
<1>14. ~d.oneIsYounger /\ Whole(d.zero) => r.zero = d.zero
    BY <1>6, <1>11
<1>15. r.zero \in {d.zero, NoFile} /\ r.one \in {d.one, NoFile}
    BY <1>11
<1> QED
    BY <1>1, <1>11, <1>12, <1>13, <1>14, <1>15 DEF r

-----------------------------------------------------------------------------
(* The queue of the manager                                                  *)

Unique(q) == \A i, j \in DOMAIN q : q[i].base = q[j].base => i = j

\* r is q with the content c of b in it, and no other of b.
WithEntry(q, r, b, c) ==
    /\ r \in Seq(Entry) /\ Unique(r)
    /\ \A i \in DOMAIN r :
          \/ r[i].base = b /\ r[i].content = c
          \/ r[i].base # b /\ \E j \in DOMAIN q : r[i] = q[j]
    /\ \E i \in DOMAIN r : r[i].base = b /\ r[i].content = c
    /\ \A j \in DOMAIN q : q[j].base # b => \E i \in DOMAIN r : r[i] = q[j]

\* r is q without the content of b.
WithoutEntry(q, r, b) ==
    /\ r \in Seq(Entry) /\ Unique(r)
    /\ \A i \in DOMAIN r : r[i].base # b /\ \E j \in DOMAIN q : r[i] = q[j]
    /\ \A j \in DOMAIN q : q[j].base # b => \E i \in DOMAIN r : r[i] = q[j]

LEMMA ScheduledIs ==
    ASSUME NEW q \in Seq(Entry), Unique(q), NEW b \in Bases,
           NEW c, c \in Nat \ {0},
           NEW r, r = Scheduled(q, b, c)
    PROVE  WithEntry(q, r, b, c)
<1> DEFINE entry == [base |-> b, content |-> c]
<1>1. entry \in Entry /\ entry.base = b /\ entry.content = c
    BY DEF Entry
<1> HIDE DEF entry
<1>2. CASE \E i \in DOMAIN q : q[i].base = b
    <2>1. r = [i \in DOMAIN q |-> IF q[i].base = b THEN entry ELSE q[i]]
        BY <1>2 DEF Scheduled, entry
    <2>2. DOMAIN r = DOMAIN q /\ r \in Seq(Entry)
        BY <1>1, <2>1
    <2>3. \A i \in DOMAIN r : r[i] = IF q[i].base = b THEN entry ELSE q[i]
        BY <2>1
    <2>4. \A i \in DOMAIN r : r[i].base = q[i].base
        BY <1>1, <2>2, <2>3
    <2>5. Unique(r)
        BY <2>2, <2>4 DEF Unique
    <2> QED
        BY <1>1, <1>2, <2>2, <2>3, <2>5 DEF WithEntry
<1>3. CASE \A i \in DOMAIN q : q[i].base # b
    <2>1. r = Append(q, entry)
        BY <1>3 DEF Scheduled, entry
    <2>2. /\ r \in Seq(Entry) /\ DOMAIN r = 1..(Len(q) + 1)
          /\ DOMAIN q = 1..Len(q) /\ Len(q) \in Nat
          /\ \A i \in 1..Len(q) : r[i] = q[i]
          /\ r[Len(q) + 1] = entry
        BY <1>1, <2>1
    <2>3. Unique(r)
        BY <1>1, <1>3, <2>2 DEF Unique
    <2> QED
        BY <1>1, <1>3, <2>2, <2>3 DEF WithEntry
<1> QED
    BY <1>2, <1>3

LEMMA RemoveAtIs ==
    ASSUME NEW q \in Seq(Entry), NEW k \in DOMAIN q
    PROVE  /\ RemoveAt(q, k) \in Seq(Entry)
           /\ Len(RemoveAt(q, k)) = Len(q) - 1
           /\ \A i \in 1..(Len(q) - 1) :
                RemoveAt(q, k)[i] = IF i < k THEN q[i] ELSE q[i + 1]
<1>1. k \in 1..Len(q) /\ Len(q) \in Nat
    OBVIOUS
<1> DEFINE x == SubSeq(q, 1, k - 1)
           y == SubSeq(q, k + 1, Len(q))
<1>2. x \in Seq(Entry) /\ Len(x) = k - 1 /\ \A i \in 1..(k - 1) : x[i] = q[i]
    BY <1>1
<1>3. /\ y \in Seq(Entry) /\ Len(y) = Len(q) - k
      /\ \A i \in 1..(Len(q) - k) : y[i] = q[k + i]
    BY <1>1
<1>4. RemoveAt(q, k) = x \o y
    BY DEF RemoveAt
<1> HIDE DEF x, y
<1>5. /\ x \o y \in Seq(Entry) /\ Len(x \o y) = Len(q) - 1
      /\ \A i \in 1..(Len(q) - 1) :
            (x \o y)[i] = IF i <= k - 1 THEN x[i] ELSE y[i - (k - 1)]
    <2>1. x \in Seq(Entry) /\ y \in Seq(Entry)
        BY <1>2, <1>3
    <2>2. /\ x \o y \in Seq(Entry) /\ Len(x \o y) = Len(x) + Len(y)
          /\ \A i \in 1..(Len(x) + Len(y)) :
                (x \o y)[i] = IF i <= Len(x) THEN x[i] ELSE y[i - Len(x)]
        BY <2>1, ConcatProperties, Zenon
    <2>3. Len(x) = k - 1 /\ Len(x) + Len(y) = Len(q) - 1
        BY <1>1, <1>2, <1>3
    <2> QED
        BY <2>2, <2>3
<1>6. ASSUME NEW i \in 1..(Len(q) - 1)
      PROVE  (x \o y)[i] = IF i < k THEN q[i] ELSE q[i + 1]
    <2>1. CASE i < k
        BY <1>1, <1>2, <1>5, <2>1
    <2>2. CASE ~(i < k)
        <3>1. i - (k - 1) \in 1..(Len(q) - k) /\ k + (i - (k - 1)) = i + 1
            BY <1>1, <2>2
        <3> QED
            BY <1>1, <1>3, <1>5, <2>2, <3>1
    <2> QED
        BY <2>1, <2>2
<1> QED
    BY <1>4, <1>5, <1>6

LEMMA UnscheduledIs ==
    ASSUME NEW q \in Seq(Entry), Unique(q), NEW b \in Bases,
           NEW r, r = Unscheduled(q, b)
    PROVE  WithoutEntry(q, r, b)
<1>1. DOMAIN q = 1..Len(q) /\ Len(q) \in Nat
    OBVIOUS
<1>2. CASE \E i \in DOMAIN q : q[i].base = b
    <2> DEFINE I == {i \in 1..Len(q) : q[i].base = b}
               k == SelectInSeq(q, LAMBDA e : e.base = b)
    <2>1. PICK n \in DOMAIN q : q[n].base = b
        BY <1>2
    <2>2. I = {n}
        BY <1>1, <2>1 DEF Unique
    <2>3. k = IF I # {} THEN Min(I) ELSE 0
        BY DEF SelectInSeq
    <2>4. Min(I) = n
        <3>1. n \in Int
            BY <1>1
        <3> HIDE DEF I
        <3> QED
            BY <2>2, <3>1 DEF Min
    <2>5. k = n
        BY <2>2, <2>3, <2>4
    <2>6. r = RemoveAt(q, n)
        <3> HIDE DEF I
        <3>1. r = RemoveAt(q, k)
            BY <1>1, <1>2 DEF Unscheduled, RemoveFirstMatch
        <3> HIDE DEF k
        <3> QED
            BY <2>5, <3>1
    <2> HIDE DEF I, k
    <2>7. /\ r \in Seq(Entry) /\ DOMAIN r = 1..(Len(q) - 1)
          /\ \A i \in 1..(Len(q) - 1) :
                r[i] = IF i < n THEN q[i] ELSE q[i + 1]
        BY <1>1, <2>1, <2>6, RemoveAtIs
    <2> DEFINE from(i) == IF i < n THEN i ELSE i + 1
    <2>8. \A i \in DOMAIN r : /\ from(i) \in DOMAIN q /\ from(i) # n
                              /\ r[i] = q[from(i)]
        BY <1>1, <2>1, <2>7
    <2>9. \A i, j \in DOMAIN r : from(i) = from(j) => i = j
        BY <1>1, <2>1, <2>7
    <2>10. Unique(r)
        <3> HIDE DEF from
        <3> QED
            BY <2>8, <2>9 DEF Unique
    <2>11. \A i \in DOMAIN r : r[i].base # b
        <3> HIDE DEF from
        <3> QED
            BY <2>1, <2>8 DEF Unique
    <2>12. ASSUME NEW j \in DOMAIN q, q[j].base # b
           PROVE  \E i \in DOMAIN r : r[i] = q[j]
        <3>1. CASE j < n
            BY <1>1, <2>1, <2>7, <3>1
        <3>2. CASE j > n
            <4>1. j - 1 \in 1..(Len(q) - 1) /\ ~(j - 1 < n) /\ j - 1 + 1 = j
                BY <1>1, <2>1, <3>2
            <4> QED
                BY <2>7, <4>1
        <3>3. j # n
            BY <2>1, <2>12
        <3> QED
            BY <1>1, <2>1, <3>1, <3>2, <3>3
    <2> QED
        BY <2>7, <2>8, <2>10, <2>11, <2>12 DEF WithoutEntry
<1>3. CASE \A i \in DOMAIN q : q[i].base # b
    <2>1. r = q
        BY <1>1, <1>3 DEF Unscheduled, RemoveFirstMatch
    <2> QED
        BY <1>3, <2>1 DEF WithoutEntry
<1> QED
    BY <1>2, <1>3

-----------------------------------------------------------------------------
(* The invariant: of the disk D, the calls p, the queue q, the work w, the   *)
(* files u that are waited for, the last contents l and the files g whose    *)
(* last content is given up                                                  *)

Typed(D, p, q, w, u, l, g) ==
    /\ D \in [Bases -> File]
    /\ p \in Seq(Posted)
    /\ q \in Seq(Entry)
    /\ w \in Working \cup {Nothing}
    /\ u \subseteq Bases
    /\ l \in [Bases -> Nat \ {0}]
    /\ g \subseteq Bases

\* The later a content is in its way to the disk, the older it is.
WorkOrdered(D, w, l) ==
    w # Nothing => AtMost(D[w.base], w.content) /\ w.content <= l[w.base]

QueueOrdered(D, q, w, l) ==
    /\ Unique(q)
    /\ \A i \in DOMAIN q :
        /\ AtMost(D[q[i].base], q[i].content)
        /\ q[i].content <= l[q[i].base]
        /\ w # Nothing /\ w.base = q[i].base => w.content < q[i].content

CallsOrdered(D, p, q, w, l) ==
    /\ \A i \in DOMAIN p : HasContent(p[i]) =>
        /\ AtMost(D[p[i].base], p[i].content)
        /\ p[i].content <= l[p[i].base]
        /\ w # Nothing /\ w.base = p[i].base => w.content < p[i].content
        /\ \A k \in DOMAIN q : q[k].base = p[i].base => q[k].content < p[i].content
    /\ \A i, j \in DOMAIN p :
        i < j /\ HasContent(p[i]) /\ HasContent(p[j]) /\ p[i].base = p[j].base
            => p[i].content < p[j].content

Ordered(D, p, q, w, l) ==
    /\ \A b \in Bases : AtMost(D[b], l[b])
    /\ WorkOrdered(D, w, l)
    /\ QueueOrdered(D, q, w, l)
    /\ CallsOrdered(D, p, q, w, l)

Pending(p, q, w, b, n) ==
    \/ \E i \in DOMAIN p : HasContent(p[i]) /\ p[i].base = b /\ p[i].content = n
    \/ \E i \in DOMAIN q : q[i].base = b /\ q[i].content = n
    \/ w # Nothing /\ w.base = b /\ w.content = n

\* The last content can be read, or it is on its way, or it is given up.
Followed(D, p, q, w, l, g) ==
    \A b \in Bases :
        b \in g \/ Readable(D[b]) = l[b] \/ Pending(p, q, w, b, l[b])

\* What the steps of writeNow() have done so far.
Placing(d, w, l, g) ==
    /\ w.step \in {"removeSimple", "removeBackup"} => d.s = w.content
    /\ w.step \in {"fill", "clearBackup", "rename", "removeSafe"}
            => ~d.oneIsYounger
    /\ w.step = "fill" => ~Whole(d.zero)
    /\ w.step \in {"clearBackup", "rename", "removeSafe"} =>
            \/ d.zero = w.content
            \/ ~Whole(d.zero) /\ (w.content = l[w.base] => w.base \in g)

\* The main thread waits for one call at a time, and hands over nothing then.
Waits(p, w, u, l) ==
    /\ \A i \in DOMAIN p : p[i].call = "writeSync" =>
            u = {p[i].base} /\ p[i].content = l[p[i].base]
    /\ \A i \in DOMAIN p : p[i].call = "writeSyncAll" =>
            u = Bases /\ \A j \in DOMAIN p : i < j => ~HasContent(p[j])
    /\ \A i, j \in DOMAIN p : IsSync(p[i]) /\ IsSync(p[j]) => i = j
    /\ w # Nothing /\ w.call = "writeSync" =>
            u = {w.base} /\ w.content = l[w.base]
    /\ w # Nothing /\ w.call = "writeSyncAll" =>
            u = Bases /\ \A j \in DOMAIN p : ~HasContent(p[j])
    /\ w # Nothing /\ IsSync(w) => \A j \in DOMAIN p : ~IsSync(p[j])

State(D, p, q, w, u, l, g) ==
    /\ Typed(D, p, q, w, u, l, g)
    /\ Ordered(D, p, q, w, l)
    /\ Followed(D, p, q, w, l, g)
    /\ w # Nothing => Placing(D[w.base], w, l, g)
    /\ Waits(p, w, u, l)

IInv == State(disk, posted, scheduled, writing, waiting, last, lost)

LEMMA WorkingIs ==
    ASSUME NEW w \in Working
    PROVE  /\ w # Nothing /\ w.step \in Steps /\ w.base \in Bases
           /\ w.content \in Nat \ {0} /\ w.call \in Calls
           /\ w.step # "none"
<1>1. /\ w.step \in Steps /\ w.base \in Bases
      /\ w.content \in Nat \ {0} /\ w.call \in Calls
    BY DEF Working
<1>2. w.step # "none"
    BY <1>1 DEF Steps
<1>3. Nothing.step = "none"
    BY DEF Nothing
<1> QED
    BY <1>1, <1>2, <1>3

LEMMA EntriesAre ==
    ASSUME NEW q \in Seq(Entry)
    PROVE  \A i \in DOMAIN q : q[i].base \in Bases /\ q[i].content \in Nat \ {0}
<1>1. \A i \in DOMAIN q : q[i] \in Entry
    OBVIOUS
<1> QED
    BY <1>1 DEF Entry

LEMMA CallsAre ==
    ASSUME NEW c \in Posted
    PROVE  /\ HasContent(c) => c.base \in Bases /\ c.content \in Nat \ {0}
           /\ c.call \in {"write", "writeSync", "writeScheduled", "writeSyncAll"}
BY DEF Posted, HasContent

\* One step of writeNow(): files are as new as what is written.
LEMMA GoesOn ==
    ASSUME NEW D, NEW p, NEW q, NEW w, NEW u, NEW l, NEW g,
           State(D, p, q, w, u, l, g), w # Nothing,
           NEW step \in Steps, NEW n, n = [w EXCEPT !.step = step],
           NEW d \in File, AtMost(d, w.content),
           NEW E, E = [D EXCEPT ![w.base] = d],
           NEW h, g \subseteq h, h \subseteq Bases,
           Placing(d, n, l, h)
    PROVE  State(E, p, q, n, u, l, h)
<1>1. w \in Working
    BY DEF State, Typed
<1>2. /\ w.base \in Bases /\ w.content \in Nat \ {0} /\ w.call \in Calls
      /\ n \in Working /\ n # Nothing
      /\ n.base = w.base /\ n.content = w.content /\ n.call = w.call
      /\ n.step = step
    BY <1>1, WorkingIs DEF Working, Nothing, Steps
<1>3. /\ E \in [Bases -> File] /\ E[w.base] = d
      /\ \A b \in Bases \ {w.base} : E[b] = D[b]
    BY <1>2 DEF State, Typed
<1>4. Typed(E, p, q, n, u, l, h)
    BY <1>2, <1>3 DEF State, Typed
<1>5. ASSUME NEW b \in Bases, NEW m \in Nat, AtMost(D[b], m),
             b = w.base => w.content <= m
      PROVE  AtMost(E[b], m)
    <2>1. CASE b = w.base
        <3>1. d.s \in Int /\ d.zero \in Int /\ d.one \in Int
            BY DEF File
        <3> QED
            BY <1>2, <1>3, <1>5, <2>1, <3>1 DEF AtMost
    <2>2. CASE b # w.base
        BY <1>3, <1>5, <2>2
    <2> QED
        BY <2>1, <2>2
<1>6. \A b \in Bases : AtMost(E[b], l[b])
    BY <1>2, <1>5 DEF State, Typed, Ordered, WorkOrdered
<1>7. WorkOrdered(E, n, l)
    BY <1>2, <1>3 DEF State, Ordered, WorkOrdered
<1>8. QueueOrdered(E, q, n, l)
    <2>1. QueueOrdered(D, q, w, l) /\ q \in Seq(Entry)
        BY DEF State, Ordered, Typed
    <2>2. \A i \in DOMAIN q : q[i].base \in Bases /\ q[i].content \in Nat
        BY <2>1, EntriesAre
    <2>3. \A i \in DOMAIN q : AtMost(E[q[i].base], q[i].content)
        BY <1>2, <1>5, <2>1, <2>2 DEF QueueOrdered
    <2> QED
        BY <1>2, <2>1, <2>3 DEF QueueOrdered
<1>9. CallsOrdered(E, p, q, n, l)
    <2>1. CallsOrdered(D, p, q, w, l) /\ p \in Seq(Posted)
        BY DEF State, Ordered, Typed
    <2>2. \A i \in DOMAIN p :
            HasContent(p[i]) => p[i].base \in Bases /\ p[i].content \in Nat
        BY <2>1, CallsAre
    <2>3. \A i \in DOMAIN p :
            HasContent(p[i]) => AtMost(E[p[i].base], p[i].content)
        BY <1>2, <1>5, <2>1, <2>2 DEF CallsOrdered
    <2> QED
        BY <1>2, <2>1, <2>3 DEF CallsOrdered
<1>10. Followed(E, p, q, n, l, h)
    <2> SUFFICES ASSUME NEW b \in Bases, b \notin h
                 PROVE  Readable(E[b]) = l[b] \/ Pending(p, q, n, b, l[b])
        BY DEF Followed
    <2>1. Readable(D[b]) = l[b] \/ Pending(p, q, w, b, l[b])
        BY DEF State, Followed
    <2>2. Pending(p, q, w, b, l[b]) => Pending(p, q, n, b, l[b])
        BY <1>2 DEF Pending
    <2>3. CASE b = w.base /\ Readable(D[b]) = l[b]
        <3>1. /\ AtMost(D[b], w.content) /\ w.content <= l[b]
              /\ D[b] \in File /\ l[b] \in Nat
            BY <2>3 DEF State, Ordered, WorkOrdered, Typed
        <3>2. l[b] <= w.content
            BY <1>2, <2>3, <3>1, ReadableAtMost
        <3> QED
            BY <1>2, <2>3, <3>1, <3>2 DEF Pending
    <2>4. CASE b # w.base
        BY <1>3, <2>1, <2>2, <2>4
    <2> QED
        BY <2>1, <2>2, <2>3, <2>4
<1>11. Waits(p, n, u, l)
    BY <1>2 DEF State, Waits, IsSync
<1> QED
    BY <1>2, <1>3, <1>4, <1>6, <1>7, <1>8, <1>9, <1>10, <1>11
    DEF State, Ordered

\* writeNow() returns: the content is in place or given up, if it is the last.
LEMMA Returns ==
    ASSUME NEW D, NEW p, NEW q, NEW w, NEW u, NEW l, NEW g,
           State(D, p, q, w, u, l, g), w # Nothing,
           NEW d \in File, AtMost(d, w.content),
           NEW E, E = [D EXCEPT ![w.base] = d],
           NEW h, g \subseteq h, h \subseteq Bases,
           w.content = l[w.base] => w.base \in h \/ Readable(d) = w.content
    PROVE  State(E, p, q, Nothing, u, l, h)
<1>1. w \in Working
    BY DEF State, Typed
<1>2. w.base \in Bases /\ w.content \in Nat \ {0} /\ w.call \in Calls
    BY <1>1, WorkingIs
<1>3. /\ E \in [Bases -> File] /\ E[w.base] = d
      /\ \A b \in Bases \ {w.base} : E[b] = D[b]
    BY <1>2 DEF State, Typed
<1>4. Typed(E, p, q, Nothing, u, l, h)
    BY <1>3 DEF State, Typed
<1>5. ASSUME NEW b \in Bases, NEW m \in Nat, AtMost(D[b], m),
             b = w.base => w.content <= m
      PROVE  AtMost(E[b], m)
    <2>1. CASE b = w.base
        <3>1. d.s \in Int /\ d.zero \in Int /\ d.one \in Int
            BY DEF File
        <3> QED
            BY <1>2, <1>3, <1>5, <2>1, <3>1 DEF AtMost
    <2>2. CASE b # w.base
        BY <1>3, <1>5, <2>2
    <2> QED
        BY <2>1, <2>2
<1>6. \A b \in Bases : AtMost(E[b], l[b])
    BY <1>2, <1>5 DEF State, Typed, Ordered, WorkOrdered
<1>7. WorkOrdered(E, Nothing, l)
    BY DEF WorkOrdered
<1>8. QueueOrdered(E, q, Nothing, l)
    <2>1. QueueOrdered(D, q, w, l) /\ q \in Seq(Entry)
        BY DEF State, Ordered, Typed
    <2>2. \A i \in DOMAIN q : q[i].base \in Bases /\ q[i].content \in Nat
        BY <2>1, EntriesAre
    <2>3. \A i \in DOMAIN q : AtMost(E[q[i].base], q[i].content)
        BY <1>2, <1>5, <2>1, <2>2 DEF QueueOrdered
    <2> QED
        BY <2>1, <2>3 DEF QueueOrdered
<1>9. CallsOrdered(E, p, q, Nothing, l)
    <2>1. CallsOrdered(D, p, q, w, l) /\ p \in Seq(Posted)
        BY DEF State, Ordered, Typed
    <2>2. \A i \in DOMAIN p :
            HasContent(p[i]) => p[i].base \in Bases /\ p[i].content \in Nat
        BY <2>1, CallsAre
    <2>3. \A i \in DOMAIN p :
            HasContent(p[i]) => AtMost(E[p[i].base], p[i].content)
        BY <1>2, <1>5, <2>1, <2>2 DEF CallsOrdered
    <2> QED
        BY <2>1, <2>3 DEF CallsOrdered
<1>10. Followed(E, p, q, Nothing, l, h)
    <2> SUFFICES ASSUME NEW b \in Bases, b \notin h
                 PROVE  Readable(E[b]) = l[b] \/ Pending(p, q, Nothing, b, l[b])
        BY DEF Followed
    <2>1. Readable(D[b]) = l[b] \/ Pending(p, q, w, b, l[b])
        BY DEF State, Followed
    <2>2. \/ Pending(p, q, w, b, l[b]) => Pending(p, q, Nothing, b, l[b])
          \/ w.base = b /\ w.content = l[b]
        BY DEF Pending
    <2>3. CASE b = w.base
        <3>1. /\ AtMost(D[b], w.content) /\ w.content <= l[b]
              /\ D[b] \in File /\ l[b] \in Nat
            BY <2>3 DEF State, Ordered, WorkOrdered, Typed
        <3>2. CASE w.content = l[b]
            BY <1>3, <2>3, <3>2
        <3>3. CASE w.content # l[b]
            <4>1. Readable(D[b]) # l[b]
                BY <1>2, <3>1, <3>3, ReadableAtMost
            <4> QED
                BY <2>1, <2>2, <3>3, <4>1
        <3> QED
            BY <3>2, <3>3
    <2>4. CASE b # w.base
        BY <1>3, <2>1, <2>2, <2>4
    <2> QED
        BY <2>3, <2>4
<1>11. Waits(p, Nothing, u, l)
    BY DEF State, Waits
<1> QED
    BY <1>4, <1>6, <1>7, <1>8, <1>9, <1>10, <1>11 DEF State, Ordered

-----------------------------------------------------------------------------
(* Calls and the queue                                                       *)

LEMMA TailIs ==
    ASSUME NEW S, NEW p \in Seq(S), p # <<>>
    PROVE  /\ Tail(p) \in Seq(S) /\ Head(p) = p[1] /\ Head(p) \in S
           /\ 1 \in DOMAIN p
           /\ \A i \in DOMAIN Tail(p) :
                i + 1 \in DOMAIN p /\ Tail(p)[i] = p[i + 1] /\ i \in Nat \ {0}
           /\ \A i \in DOMAIN p :
                i = 1 \/ (i - 1 \in DOMAIN Tail(p) /\ Tail(p)[i - 1] = p[i])
<1>1. /\ Len(p) \in Nat \ {0} /\ DOMAIN p = 1..Len(p)
      /\ DOMAIN Tail(p) = 1..(Len(p) - 1)
      /\ \A i \in 1..(Len(p) - 1) : Tail(p)[i] = p[i + 1]
      /\ Tail(p) \in Seq(S) /\ Head(p) = p[1]
    OBVIOUS
<1> HIDE DEF Tail, Head
<1>2. \A i \in 1..Len(p) :
        i = 1 \/ (i - 1 \in 1..(Len(p) - 1) /\ (i - 1) + 1 = i)
    BY <1>1
<1> QED
    BY <1>1, <1>2

\* A call without a content has been taken.
LEMMA Taken ==
    ASSUME NEW D, NEW p, NEW q, NEW w, NEW u, NEW l, NEW g,
           State(D, p, q, w, u, l, g), p # <<>>, ~HasContent(Head(p)),
           NEW r, r = Tail(p)
    PROVE  State(D, r, q, w, u, l, g)
<1>1. p \in Seq(Posted)
    BY DEF State, Typed
<1>2. /\ r \in Seq(Posted) /\ ~HasContent(p[1])
      /\ \A i \in DOMAIN r : i + 1 \in DOMAIN p /\ r[i] = p[i + 1] /\ i \in Nat \ {0}
      /\ \A i \in DOMAIN p : i = 1 \/ (i - 1 \in DOMAIN r /\ r[i - 1] = p[i])
    BY <1>1, TailIs
<1>3. Typed(D, r, q, w, u, l, g)
    BY <1>2 DEF State, Typed
<1>4. \A i, j \in DOMAIN r : /\ i < j => i + 1 < j + 1
                             /\ i + 1 = j + 1 => i = j
    BY <1>2
<1>5. CallsOrdered(D, r, q, w, l)
    <2>1. CallsOrdered(D, p, q, w, l)
        BY DEF State, Ordered
    <2>2. ASSUME NEW i \in DOMAIN r, HasContent(r[i])
          PROVE  /\ AtMost(D[r[i].base], r[i].content)
                 /\ r[i].content <= l[r[i].base]
                 /\ w # Nothing /\ w.base = r[i].base => w.content < r[i].content
                 /\ \A k \in DOMAIN q :
                        q[k].base = r[i].base => q[k].content < r[i].content
        BY <1>2, <2>1, <2>2 DEF CallsOrdered
    <2>3. ASSUME NEW i \in DOMAIN r, NEW j \in DOMAIN r, i < j,
                 HasContent(r[i]), HasContent(r[j]), r[i].base = r[j].base
          PROVE  r[i].content < r[j].content
        BY <1>2, <1>4, <2>1, <2>3 DEF CallsOrdered
    <2> QED
        BY <2>2, <2>3 DEF CallsOrdered
<1>6. Followed(D, r, q, w, l, g)
    <2>1. ASSUME NEW b \in Bases, NEW n, Pending(p, q, w, b, n)
          PROVE  Pending(r, q, w, b, n)
        <3>1. CASE \E i \in DOMAIN p : HasContent(p[i]) /\ p[i].base = b /\ p[i].content = n
            BY <1>2, <3>1 DEF Pending
        <3> QED
            BY <2>1, <3>1 DEF Pending
    <2> QED
        BY <2>1 DEF State, Followed
<1>7. Waits(r, w, u, l)
    <2>1. Waits(p, w, u, l)
        BY DEF State
    <2>2. ASSUME NEW i \in DOMAIN r, r[i].call = "writeSync"
          PROVE  u = {r[i].base} /\ r[i].content = l[r[i].base]
        BY <1>2, <2>1, <2>2 DEF Waits
    <2>3. ASSUME NEW i \in DOMAIN r, r[i].call = "writeSyncAll"
          PROVE  u = Bases /\ \A j \in DOMAIN r : i < j => ~HasContent(r[j])
        BY <1>2, <1>4, <2>1, <2>3 DEF Waits
    <2>4. ASSUME NEW i \in DOMAIN r, NEW j \in DOMAIN r, IsSync(r[i]), IsSync(r[j])
          PROVE  i = j
        BY <1>2, <1>4, <2>1, <2>4 DEF Waits
    <2>5. \A j \in DOMAIN r : \E i \in DOMAIN p : r[j] = p[i]
        BY <1>2
    <2>6. /\ w # Nothing /\ w.call = "writeSync" =>
                u = {w.base} /\ w.content = l[w.base]
          /\ w # Nothing /\ w.call = "writeSyncAll" =>
                u = Bases /\ \A j \in DOMAIN r : ~HasContent(r[j])
          /\ w # Nothing /\ IsSync(w) => \A j \in DOMAIN r : ~IsSync(r[j])
        BY <2>1, <2>5 DEF Waits
    <2> QED
        BY <2>2, <2>3, <2>4, <2>6 DEF Waits
<1> QED
    BY <1>3, <1>5, <1>6, <1>7 DEF State, Ordered

LEMMA AppendIs ==
    ASSUME NEW S, NEW p \in Seq(S), NEW c \in S
    PROVE  /\ Append(p, c) \in Seq(S)
           /\ Len(p) + 1 \in DOMAIN Append(p, c)
           /\ Append(p, c)[Len(p) + 1] = c
           /\ \A i \in DOMAIN p : /\ i \in DOMAIN Append(p, c)
                                  /\ Append(p, c)[i] = p[i]
                                  /\ i < Len(p) + 1
           /\ \A i \in DOMAIN Append(p, c) : i = Len(p) + 1 \/ i \in DOMAIN p
OBVIOUS

\* A call without a content that nobody waits for is made.
LEMMA Called ==
    ASSUME NEW D, NEW p, NEW q, NEW w, NEW u, NEW l, NEW g,
           State(D, p, q, w, u, l, g),
           NEW c \in Posted, ~HasContent(c), ~IsSync(c),
           NEW r, r = Append(p, c)
    PROVE  State(D, r, q, w, u, l, g)
<1> DEFINE z == Len(p) + 1
<1>1. /\ p \in Seq(Posted) /\ r \in Seq(Posted) /\ r[z] = c
      /\ \A i \in DOMAIN p : i \in DOMAIN r /\ r[i] = p[i]
      /\ \A i \in DOMAIN r : i = z \/ i \in DOMAIN p
    BY AppendIs DEF State, Typed
<1> HIDE DEF z
<1>2. \A i \in DOMAIN r : /\ HasContent(r[i]) => i \in DOMAIN p /\ r[i] = p[i]
                          /\ IsSync(r[i]) => i \in DOMAIN p /\ r[i] = p[i]
    BY <1>1
<1>3. Typed(D, r, q, w, u, l, g)
    BY <1>1 DEF State, Typed
<1>4. CallsOrdered(D, r, q, w, l)
    <2>1. CallsOrdered(D, p, q, w, l)
        BY DEF State, Ordered
    <2> QED
        BY <1>2, <2>1 DEF CallsOrdered
<1>5. Followed(D, r, q, w, l, g)
    <2>1. \A n : \A b \in Bases : Pending(p, q, w, b, n) => Pending(r, q, w, b, n)
        BY <1>1 DEF Pending
    <2> QED
        BY <2>1 DEF State, Followed
<1>6. Waits(r, w, u, l)
    <2>1. Waits(p, w, u, l)
        BY DEF State
    <2>2. \A i \in DOMAIN r : r[i].call \in {"writeSync", "writeSyncAll"}
            => i \in DOMAIN p /\ r[i] = p[i]
        BY <1>2 DEF IsSync
    <2> QED
        BY <1>2, <2>1, <2>2 DEF Waits
<1> QED
    BY <1>3, <1>4, <1>5, <1>6 DEF State, Ordered

\* The main thread goes on.
LEMMA Released ==
    ASSUME NEW D, NEW p, NEW q, NEW u, NEW l, NEW g,
           State(D, p, q, Nothing, u, l, g), \A i \in DOMAIN p : ~IsSync(p[i])
    PROVE  State(D, p, q, Nothing, {}, l, g)
<1>1. Waits(p, Nothing, {}, l)
    BY DEF Waits, IsSync
<1> QED
    BY <1>1 DEF State, Typed

\* The first entry of the queue is taken.
LEMMA Begun ==
    ASSUME NEW D, NEW p, NEW q, NEW u, NEW l, NEW g,
           State(D, p, q, Nothing, u, l, g), q # <<>>,
           NEW call \in Calls, call # "writeSync",
           call = "writeSyncAll" =>
                /\ u = Bases
                /\ \A j \in DOMAIN p : ~HasContent(p[j]) /\ ~IsSync(p[j]),
           NEW r, r = Tail(q),
           NEW w, w = Begin(Head(q), call)
    PROVE  State(D, p, r, w, u, l, g)
<1>1. q \in Seq(Entry)
    BY DEF State, Typed
<1>2. /\ r \in Seq(Entry) /\ Head(q) = q[1] /\ 1 \in DOMAIN q
      /\ \A i \in DOMAIN r : i + 1 \in DOMAIN q /\ r[i] = q[i + 1] /\ i \in Nat \ {0}
      /\ \A i \in DOMAIN q : i = 1 \/ (i - 1 \in DOMAIN r /\ r[i - 1] = q[i])
    BY <1>1, TailIs
<1>3. q[1].base \in Bases /\ q[1].content \in Nat \ {0}
    BY <1>1, <1>2, EntriesAre
<1>4. /\ w \in Working /\ w.base = q[1].base /\ w.content = q[1].content
      /\ w.step = "save" /\ w.call = call
    BY <1>2, <1>3 DEF Begin, Working, Steps
<1>5. w # Nothing
    BY <1>4, WorkingIs
<1>6. Typed(D, p, r, w, u, l, g)
    BY <1>2, <1>4 DEF State, Typed
<1>7. QueueOrdered(D, q, Nothing, l) /\ CallsOrdered(D, p, q, Nothing, l)
    BY DEF State, Ordered
<1>8. WorkOrdered(D, w, l)
    BY <1>2, <1>4, <1>7 DEF WorkOrdered, QueueOrdered
<1>9. QueueOrdered(D, r, w, l)
    <2>1. \A i \in DOMAIN r : i + 1 # 1
        BY <1>2
    <2>2. \A i \in DOMAIN r : r[i].base # w.base
        BY <1>2, <1>4, <1>7, <2>1 DEF QueueOrdered, Unique
    <2>3. \A i, j \in DOMAIN r : i + 1 = j + 1 => i = j
        BY <1>2
    <2>4. Unique(r)
        BY <1>2, <1>7, <2>3 DEF QueueOrdered, Unique
    <2> QED
        BY <1>2, <1>7, <2>2, <2>4 DEF QueueOrdered
<1>10. CallsOrdered(D, p, r, w, l)
    <2>1. ASSUME NEW i \in DOMAIN p, HasContent(p[i])
          PROVE  /\ w.base = p[i].base => w.content < p[i].content
                 /\ \A k \in DOMAIN r :
                        r[k].base = p[i].base => r[k].content < p[i].content
        BY <1>2, <1>4, <1>7, <2>1 DEF CallsOrdered
    <2> QED
        BY <1>7, <2>1 DEF CallsOrdered
<1>11. Followed(D, p, r, w, l, g)
    <2>1. ASSUME NEW b \in Bases, NEW n, Pending(p, q, Nothing, b, n)
          PROVE  Pending(p, r, w, b, n)
        <3>1. CASE \E i \in DOMAIN q : q[i].base = b /\ q[i].content = n
            BY <1>2, <1>4, <1>5, <3>1 DEF Pending
        <3> QED
            BY <2>1, <3>1 DEF Pending
    <2> QED
        BY <2>1 DEF State, Followed
<1>12. Waits(p, w, u, l)
    BY <1>4 DEF State, Waits, IsSync
<1>13. Placing(D[w.base], w, l, g)
    BY <1>4 DEF Placing
<1> QED
    BY <1>6, <1>8, <1>9, <1>10, <1>11, <1>12, <1>13 DEF State, Ordered

\* Nobody waits while nothing is waited for.
LEMMA NobodyWaits ==
    ASSUME NEW p, NEW w, NEW l, Waits(p, w, {}, l)
    PROVE  /\ \A i \in DOMAIN p : ~IsSync(p[i])
           /\ w # Nothing => ~IsSync(w)
BY StorageAssumption DEF Waits, IsSync

\* The next content of a file is on its way, behind all others.
LEMMA Handed ==
    ASSUME NEW D, NEW p, NEW q, NEW w, NEW l, NEW g,
           State(D, p, q, w, {}, l, g),
           NEW b \in Bases, NEW call \in {"write", "writeSync"},
           NEW n, n = l[b] + 1,
           NEW k, k = [l EXCEPT ![b] = n],
           NEW c, c = [call |-> call, base |-> b, content |-> n],
           NEW r, r = Append(p, c),
           NEW v, v = IF call = "writeSync" THEN {b} ELSE {}
    PROVE  State(D, r, q, w, v, k, g \ {b})
<1> DEFINE z == Len(p) + 1
<1>1. l \in [Bases -> Nat \ {0}] /\ p \in Seq(Posted) /\ q \in Seq(Entry)
    BY DEF State, Typed
<1>2. /\ n \in Nat \ {0} /\ l[b] < n
      /\ k \in [Bases -> Nat \ {0}] /\ k[b] = n
      /\ \A a \in Bases : k[a] = (IF a = b THEN n ELSE l[a]) /\ l[a] <= k[a]
    BY <1>1
<1>3. /\ c \in Posted /\ HasContent(c) /\ c.call = call /\ c.base = b
      /\ c.content = n
    BY <1>2 DEF Posted, HasContent
<1>4. /\ r \in Seq(Posted) /\ r[z] = c /\ z \in DOMAIN r
      /\ \A i \in DOMAIN p : i \in DOMAIN r /\ r[i] = p[i] /\ i < z
      /\ \A i \in DOMAIN r : i = z \/ i \in DOMAIN p
    BY <1>1, <1>3, AppendIs
<1>5. z \in Nat /\ \A i \in DOMAIN p : i \in Nat
    BY <1>1
<1> HIDE DEF z
<1>6. Typed(D, r, q, w, v, k, g \ {b})
    BY <1>2, <1>4 DEF State, Typed
<1>7. ASSUME NEW d \in File, NEW x \in Nat, NEW y \in Nat, AtMost(d, x), x <= y
      PROVE  AtMost(d, y)
    <2>1. d.s \in Int /\ d.zero \in Int /\ d.one \in Int
        BY DEF File
    <2> QED
        BY <1>7, <2>1 DEF AtMost
<1>8. \A a \in Bases : AtMost(D[a], k[a])
    BY <1>1, <1>2, <1>7 DEF State, Typed, Ordered
<1>9. w \in Working \/ w = Nothing
    BY DEF State, Typed
<1>10. WorkOrdered(D, w, k)
    <2>1. w \in Working => w.base \in Bases /\ w.content \in Nat
        BY WorkingIs
    <2> QED
        BY <1>1, <1>2, <1>9, <2>1 DEF State, Ordered, WorkOrdered
<1>11. \A i \in DOMAIN q : q[i].base \in Bases /\ q[i].content \in Nat
    BY <1>1, EntriesAre
<1>12. QueueOrdered(D, q, w, k)
    BY <1>1, <1>2, <1>11 DEF State, Ordered, QueueOrdered
<1>13. \A i \in DOMAIN p :
        HasContent(p[i]) => p[i].base \in Bases /\ p[i].content \in Nat
    BY <1>1, CallsAre
<1>14. CallsOrdered(D, r, q, w, k)
    <2>1. CallsOrdered(D, p, q, w, l) /\ QueueOrdered(D, q, w, l)
          /\ WorkOrdered(D, w, l)
        BY DEF State, Ordered
    <2>2. ASSUME NEW i \in DOMAIN p, HasContent(p[i])
          PROVE  /\ AtMost(D[p[i].base], p[i].content)
                 /\ p[i].content <= k[p[i].base]
                 /\ w # Nothing /\ w.base = p[i].base => w.content < p[i].content
                 /\ \A j \in DOMAIN q :
                        q[j].base = p[i].base => q[j].content < p[i].content
        BY <1>1, <1>2, <1>13, <2>1, <2>2 DEF CallsOrdered
    <2>3. AtMost(D[b], n)
        BY <1>2, <1>8
    <2>4. w # Nothing /\ w.base = b => w.content < n
        <3>1. w # Nothing => w.content \in Nat
            BY <1>9, WorkingIs
        <3> QED
            BY <1>1, <1>2, <2>1, <3>1 DEF WorkOrdered
    <2>5. \A j \in DOMAIN q : q[j].base = b => q[j].content < n
        BY <1>1, <1>2, <1>11, <2>1 DEF QueueOrdered
    <2>6. ASSUME NEW i \in DOMAIN r, HasContent(r[i])
          PROVE  /\ AtMost(D[r[i].base], r[i].content)
                 /\ r[i].content <= k[r[i].base]
                 /\ w # Nothing /\ w.base = r[i].base => w.content < r[i].content
                 /\ \A j \in DOMAIN q :
                        q[j].base = r[i].base => q[j].content < r[i].content
        <3>1. CASE i = z
            BY <1>2, <1>3, <1>4, <2>3, <2>4, <2>5, <3>1
        <3>2. CASE i \in DOMAIN p
            BY <1>4, <2>2, <2>6, <3>2
        <3> QED
            BY <1>4, <3>1, <3>2
    <2>7. ASSUME NEW i \in DOMAIN r, NEW j \in DOMAIN r, i < j,
                 HasContent(r[i]), HasContent(r[j]), r[i].base = r[j].base
          PROVE  r[i].content < r[j].content
        <3>1. i \in DOMAIN p /\ r[i] = p[i]
            BY <1>4, <1>5, <2>7
        <3>2. CASE j = z
            BY <1>1, <1>2, <1>3, <1>4, <1>13, <2>1, <2>7, <3>1, <3>2 DEF CallsOrdered
        <3>3. CASE j \in DOMAIN p
            BY <1>4, <2>1, <2>7, <3>1, <3>3 DEF CallsOrdered
        <3> QED
            BY <1>4, <3>2, <3>3
    <2> QED
        BY <2>6, <2>7 DEF CallsOrdered
<1>15. Followed(D, r, q, w, k, g \ {b})
    <2>1. Pending(r, q, w, b, k[b])
        BY <1>2, <1>3, <1>4 DEF Pending
    <2>2. \A x : \A a \in Bases : Pending(p, q, w, a, x) => Pending(r, q, w, a, x)
        BY <1>4 DEF Pending
    <2> QED
        BY <1>2, <2>1, <2>2 DEF State, Followed
<1>16. Waits(p, w, {}, l)
    BY DEF State
<1>17. /\ \A i \in DOMAIN p : ~IsSync(p[i])
       /\ w # Nothing => ~IsSync(w)
    BY <1>16, NobodyWaits
<1>18. Waits(r, w, v, k)
    <2>1. \A i \in DOMAIN r : IsSync(r[i]) => i = z
        BY <1>4, <1>17
    <2>2. \A i \in DOMAIN r : r[i].call \in {"writeSync", "writeSyncAll"} => i = z
        BY <2>1 DEF IsSync
    <2>3. w # Nothing => w.call \notin {"writeSync", "writeSyncAll"}
        BY <1>17 DEF IsSync
    <2>4. call # "writeSyncAll"
        OBVIOUS
    <2> QED
        BY <1>2, <1>3, <1>4, <1>17, <2>1, <2>2, <2>3, <2>4 DEF Waits
<1>19. w # Nothing => Placing(D[w.base], w, k, g \ {b})
    <2>1. ASSUME w # Nothing
          PROVE  w.content = k[w.base] => w.content = l[w.base] /\ w.base # b
        <3>1. w.base \in Bases /\ w.content \in Nat /\ w.content <= l[w.base]
            BY <1>9, <2>1, WorkingIs DEF State, Ordered, WorkOrdered
        <3> QED
            BY <1>1, <1>2, <3>1
    <2> QED
        BY <2>1 DEF State, Placing
<1> QED
    BY <1>6, <1>8, <1>10, <1>12, <1>14, <1>15, <1>18, <1>19 DEF State, Ordered

\* What the main thread waits for is all of it.
LEMMA Synced ==
    ASSUME NEW D, NEW p, NEW q, NEW w, NEW l, NEW g,
           State(D, p, q, w, {}, l, g),
           NEW r, r = Append(p, [call |-> "writeSyncAll"])
    PROVE  State(D, r, q, w, Bases, l, g)
<1> DEFINE z == Len(p) + 1
           c == [call |-> "writeSyncAll"]
<1>1. c \in Posted /\ ~HasContent(c) /\ c.call = "writeSyncAll"
    BY DEF Posted, HasContent
<1> HIDE DEF c
<1>2. /\ p \in Seq(Posted) /\ r \in Seq(Posted) /\ r[z] = c
      /\ \A i \in DOMAIN p : i \in DOMAIN r /\ r[i] = p[i] /\ i < z
      /\ \A i \in DOMAIN r : i = z \/ i \in DOMAIN p
    BY <1>1, AppendIs DEF State, Typed, c
<1>3. z \in Nat /\ \A i \in DOMAIN p : i \in Nat
    BY <1>2
<1> HIDE DEF z
<1>4. \A i \in DOMAIN r : HasContent(r[i]) => i \in DOMAIN p /\ r[i] = p[i]
    BY <1>1, <1>2
<1>5. Typed(D, r, q, w, Bases, l, g)
    BY <1>2 DEF State, Typed
<1>6. CallsOrdered(D, r, q, w, l)
    <2>1. CallsOrdered(D, p, q, w, l)
        BY DEF State, Ordered
    <2> QED
        BY <1>4, <2>1 DEF CallsOrdered
<1>7. Followed(D, r, q, w, l, g)
    <2>1. \A n : \A b \in Bases : Pending(p, q, w, b, n) => Pending(r, q, w, b, n)
        BY <1>2 DEF Pending
    <2> QED
        BY <2>1 DEF State, Followed
<1>8. Waits(r, w, Bases, l)
    <2>1. /\ \A i \in DOMAIN p : ~IsSync(p[i])
          /\ w # Nothing => ~IsSync(w)
        BY NobodyWaits DEF State
    <2>2. \A i \in DOMAIN r : IsSync(r[i]) => i = z
        BY <1>2, <2>1
    <2>3. \A i \in DOMAIN r : r[i].call \in {"writeSync", "writeSyncAll"} => i = z
        BY <2>2 DEF IsSync
    <2>4. w # Nothing => w.call \notin {"writeSync", "writeSyncAll"}
        BY <2>1 DEF IsSync
    <2>5. \A j \in DOMAIN r : z < j => ~HasContent(r[j])
        BY <1>2, <1>3
    <2> QED
        BY <1>1, <1>2, <2>1, <2>2, <2>3, <2>4, <2>5 DEF Waits
<1> QED
    BY <1>5, <1>6, <1>7, <1>8 DEF State, Ordered

\* p without its first call, the content c of b: what is left of it.
Behind(D, p, r, u, l, b, c) ==
    /\ 1 \in DOMAIN p
    /\ HasContent(p[1]) /\ p[1].base = b /\ p[1].content = c
    /\ b \in Bases /\ c \in Nat \ {0} /\ c <= l[b] /\ AtMost(D[b], c)
    /\ r \in Seq(Posted)
    /\ \A i \in DOMAIN r : \E j \in DOMAIN p : j # 1 /\ r[i] = p[j]
    /\ \A i \in DOMAIN p : i # 1 => \E j \in DOMAIN r : r[j] = p[i]
    /\ \A i \in DOMAIN r : HasContent(r[i]) /\ r[i].base = b => c < r[i].content
    /\ \A i, j \in DOMAIN r :
          i < j /\ HasContent(r[i]) /\ HasContent(r[j]) /\ r[i].base = r[j].base
              => r[i].content < r[j].content
    /\ Waits(r, Nothing, u, l)

\* What the first call says about what else is on its way to its file.
LEMMA HeadIs ==
    ASSUME NEW D, NEW p, NEW q, NEW u, NEW l, NEW g,
           State(D, p, q, Nothing, u, l, g), p # <<>>, HasContent(Head(p)),
           NEW b, b = Head(p).base, NEW c, c = Head(p).content,
           NEW r, r = Tail(p)
    PROVE  Behind(D, p, r, u, l, b, c)
<1>1. p \in Seq(Posted) /\ CallsOrdered(D, p, q, Nothing, l) /\ Waits(p, Nothing, u, l)
    BY DEF State, Typed, Ordered
<1>2. /\ r \in Seq(Posted) /\ Head(p) = p[1] /\ Head(p) \in Posted /\ 1 \in DOMAIN p
      /\ \A i \in DOMAIN r : i + 1 \in DOMAIN p /\ r[i] = p[i + 1] /\ i \in Nat \ {0}
      /\ \A i \in DOMAIN p : i = 1 \/ (i - 1 \in DOMAIN r /\ r[i - 1] = p[i])
    BY <1>1, TailIs
<1>3. HasContent(p[1]) /\ p[1].base = b /\ p[1].content = c
    BY <1>2
<1>9. /\ b \in Bases /\ c \in Nat \ {0}
      /\ c <= l[b] /\ AtMost(D[b], c)
    BY <1>1, <1>2, <1>3, CallsAre DEF CallsOrdered
<1>4. \A i, j \in DOMAIN r : /\ i < j => i + 1 < j + 1
                             /\ i + 1 = j + 1 => i = j
                             /\ 1 < i + 1 /\ i + 1 # 1
    BY <1>2
<1>5. \A i \in DOMAIN r : HasContent(r[i]) /\ r[i].base = b => c < r[i].content
    BY <1>1, <1>2, <1>3, <1>4 DEF CallsOrdered
<1>6. ASSUME NEW i \in DOMAIN r, NEW j \in DOMAIN r, i < j,
             HasContent(r[i]), HasContent(r[j]), r[i].base = r[j].base
      PROVE  r[i].content < r[j].content
    BY <1>1, <1>2, <1>4, <1>6 DEF CallsOrdered
<1>7. Waits(r, Nothing, u, l)
    <2>1. ASSUME NEW i \in DOMAIN r, r[i].call = "writeSync"
          PROVE  u = {r[i].base} /\ r[i].content = l[r[i].base]
        BY <1>1, <1>2, <2>1 DEF Waits
    <2>2. ASSUME NEW i \in DOMAIN r, r[i].call = "writeSyncAll"
          PROVE  u = Bases /\ \A j \in DOMAIN r : i < j => ~HasContent(r[j])
        BY <1>1, <1>2, <1>4, <2>2 DEF Waits
    <2>3. ASSUME NEW i \in DOMAIN r, NEW j \in DOMAIN r, IsSync(r[i]), IsSync(r[j])
          PROVE  i = j
        BY <1>1, <1>2, <1>4, <2>3 DEF Waits
    <2> QED
        BY <2>1, <2>2, <2>3 DEF Waits
<1>8. /\ \A i \in DOMAIN r : \E j \in DOMAIN p : j # 1 /\ r[i] = p[j]
      /\ \A i \in DOMAIN p : i # 1 => \E j \in DOMAIN r : r[j] = p[i]
    BY <1>2, <1>4
<1> QED
    BY <1>2, <1>3, <1>5, <1>6, <1>7, <1>8, <1>9 DEF Behind

LEMMA Queued ==
    ASSUME NEW D, NEW p, NEW q, NEW u, NEW l, NEW g,
           State(D, p, q, Nothing, u, l, g), p # <<>>, HasContent(Head(p)),
           NEW b, b = Head(p).base, NEW c, c = Head(p).content,
           NEW r, r = Tail(p),
           NEW s, s = Scheduled(q, b, c)
    PROVE  State(D, r, s, Nothing, u, l, g)
<1>1. /\ q \in Seq(Entry) /\ QueueOrdered(D, q, Nothing, l)
      /\ CallsOrdered(D, p, q, Nothing, l) /\ Followed(D, p, q, Nothing, l, g)
    BY DEF State, Typed, Ordered
<1>0. Behind(D, p, r, u, l, b, c)
    BY HeadIs
<1>2. /\ 1 \in DOMAIN p
      /\ HasContent(p[1]) /\ p[1].base = b /\ p[1].content = c
      /\ b \in Bases /\ c \in Nat \ {0} /\ c <= l[b] /\ AtMost(D[b], c)
      /\ r \in Seq(Posted)
      /\ \A i \in DOMAIN r : \E j \in DOMAIN p : j # 1 /\ r[i] = p[j]
      /\ \A i \in DOMAIN p : i # 1 => \E j \in DOMAIN r : r[j] = p[i]
      /\ \A i \in DOMAIN r : HasContent(r[i]) /\ r[i].base = b
            => c < r[i].content
      /\ \A i, j \in DOMAIN r :
            i < j /\ HasContent(r[i]) /\ HasContent(r[j]) /\ r[i].base = r[j].base
                => r[i].content < r[j].content
      /\ Waits(r, Nothing, u, l)
    BY <1>0 DEF Behind
<1>3. /\ s \in Seq(Entry) /\ Unique(s)
      /\ \A i \in DOMAIN s :
            \/ s[i].base = b /\ s[i].content = c
            \/ s[i].base # b /\ \E j \in DOMAIN q : s[i] = q[j]
      /\ \E i \in DOMAIN s : s[i].base = b /\ s[i].content = c
      /\ \A j \in DOMAIN q : q[j].base # b => \E i \in DOMAIN s : s[i] = q[j]
    <2>1. Unique(q)
        BY <1>1 DEF QueueOrdered
    <2>2. q \in Seq(Entry) /\ b \in Bases /\ c \in Nat \ {0}
        BY <1>1, <1>2
    <2>3. WithEntry(q, s, b, c)
        BY <2>1, <2>2, ScheduledIs
    <2> QED
        BY <2>3 DEF WithEntry
<1>4. Typed(D, r, s, Nothing, u, l, g)
    BY <1>2, <1>3 DEF State, Typed
<1>5. QueueOrdered(D, s, Nothing, l)
    BY <1>1, <1>2, <1>3 DEF QueueOrdered
<1>6. CallsOrdered(D, r, s, Nothing, l)
    <2>1. ASSUME NEW i \in DOMAIN r, HasContent(r[i])
          PROVE  /\ AtMost(D[r[i].base], r[i].content)
                 /\ r[i].content <= l[r[i].base]
                 /\ \A k \in DOMAIN s :
                        s[k].base = r[i].base => s[k].content < r[i].content
        <3>1. PICK j \in DOMAIN p : r[i] = p[j]
            BY <1>2
        <3>2. ASSUME NEW k \in DOMAIN s, s[k].base = r[i].base
              PROVE  s[k].content < r[i].content
            <4>1. CASE s[k].base = b /\ s[k].content = c
                BY <1>2, <2>1, <3>2, <4>1
            <4>2. CASE s[k].base # b /\ \E n \in DOMAIN q : s[k] = q[n]
                BY <1>1, <2>1, <3>1, <3>2, <4>2 DEF CallsOrdered
            <4> QED
                BY <1>3, <4>1, <4>2
        <3> QED
            BY <1>1, <2>1, <3>1, <3>2 DEF CallsOrdered
    <2> QED
        BY <1>2, <2>1 DEF CallsOrdered
<1>7. Followed(D, r, s, Nothing, l, g)
    <2> SUFFICES ASSUME NEW a \in Bases, Pending(p, q, Nothing, a, l[a])
                 PROVE  Pending(r, s, Nothing, a, l[a])
        BY <1>1 DEF Followed
    <2>1. CASE \E i \in DOMAIN p :
                HasContent(p[i]) /\ p[i].base = a /\ p[i].content = l[a]
        <3>1. PICK i \in DOMAIN p :
                HasContent(p[i]) /\ p[i].base = a /\ p[i].content = l[a]
            BY <2>1
        <3>2. CASE i = 1
            BY <1>2, <1>3, <3>1, <3>2 DEF Pending
        <3>3. CASE i # 1
            BY <1>2, <3>1, <3>3 DEF Pending
        <3> QED
            BY <3>2, <3>3
    <2>2. CASE \E i \in DOMAIN q : q[i].base = a /\ q[i].content = l[a]
        <3>1. PICK i \in DOMAIN q : q[i].base = a /\ q[i].content = l[a]
            BY <2>2
        <3>2. CASE a = b
            <4>1. q[i].content < c
                BY <1>1, <1>2, <3>1, <3>2 DEF CallsOrdered
            <4>2. l[a] \in Nat
                BY DEF State, Typed
            <4> QED
                BY <1>2, <3>1, <3>2, <4>1, <4>2
        <3>3. CASE a # b
            BY <1>3, <3>1, <3>3 DEF Pending
        <3> QED
            BY <3>2, <3>3
    <2> QED
        BY <2>1, <2>2 DEF Pending
<1> QED
    BY <1>2, <1>4, <1>5, <1>6, <1>7 DEF State, Ordered, WorkOrdered

\* A content that is to be written at once: what was scheduled is older.
LEMMA AtOnce ==
    ASSUME NEW D, NEW p, NEW q, NEW u, NEW l, NEW g,
           State(D, p, q, Nothing, u, l, g), p # <<>>, Head(p).call = "writeSync",
           NEW b, b = Head(p).base, NEW c, c = Head(p).content,
           NEW r, r = Tail(p),
           NEW s, s = Unscheduled(q, b),
           NEW w, w = Begin(Head(p), "writeSync")
    PROVE  State(D, r, s, w, u, l, g)
<1>1. /\ q \in Seq(Entry) /\ QueueOrdered(D, q, Nothing, l)
      /\ CallsOrdered(D, p, q, Nothing, l) /\ Followed(D, p, q, Nothing, l, g)
      /\ Waits(p, Nothing, u, l)
    BY DEF State, Typed, Ordered
<1>13. HasContent(Head(p)) /\ Head(p) = p[1]
    BY <1>1 DEF HasContent, State, Typed
<1>0. Behind(D, p, r, u, l, b, c)
    BY <1>13, HeadIs
<1>2. /\ 1 \in DOMAIN p
      /\ HasContent(p[1]) /\ p[1].base = b /\ p[1].content = c
      /\ b \in Bases /\ c \in Nat \ {0} /\ c <= l[b] /\ AtMost(D[b], c)
      /\ r \in Seq(Posted)
      /\ \A i \in DOMAIN r : \E j \in DOMAIN p : j # 1 /\ r[i] = p[j]
      /\ \A i \in DOMAIN p : i # 1 => \E j \in DOMAIN r : r[j] = p[i]
      /\ \A i \in DOMAIN r : HasContent(r[i]) /\ r[i].base = b
            => c < r[i].content
      /\ \A i, j \in DOMAIN r :
            i < j /\ HasContent(r[i]) /\ HasContent(r[j]) /\ r[i].base = r[j].base
                => r[i].content < r[j].content
      /\ Waits(r, Nothing, u, l)
    BY <1>0 DEF Behind
<1>3. /\ s \in Seq(Entry) /\ Unique(s)
      /\ \A i \in DOMAIN s : s[i].base # b /\ \E j \in DOMAIN q : s[i] = q[j]
      /\ \A j \in DOMAIN q : q[j].base # b => \E i \in DOMAIN s : s[i] = q[j]
    <2>1. Unique(q)
        BY <1>1 DEF QueueOrdered
    <2>2. q \in Seq(Entry) /\ b \in Bases
        BY <1>1, <1>2
    <2>3. WithoutEntry(q, s, b)
        BY <2>1, <2>2, UnscheduledIs
    <2> QED
        BY <2>3 DEF WithoutEntry
<1>4. /\ w \in Working /\ w.base = b /\ w.content = c
      /\ w.step = "save" /\ w.call = "writeSync"
    BY <1>2, <1>13 DEF Begin, Working, Steps, Calls
<1>5. w # Nothing
    BY <1>4, WorkingIs
<1>6. Typed(D, r, s, w, u, l, g)
    BY <1>2, <1>3, <1>4 DEF State, Typed
<1>7. QueueOrdered(D, s, w, l)
    BY <1>1, <1>3, <1>4 DEF QueueOrdered
<1>8. CallsOrdered(D, r, s, w, l)
    <2>1. ASSUME NEW i \in DOMAIN r, HasContent(r[i])
          PROVE  /\ AtMost(D[r[i].base], r[i].content)
                 /\ r[i].content <= l[r[i].base]
                 /\ \A k \in DOMAIN s :
                        s[k].base = r[i].base => s[k].content < r[i].content
        <3>1. PICK j \in DOMAIN p : r[i] = p[j]
            BY <1>2
        <3> QED
            BY <1>1, <1>3, <2>1, <3>1 DEF CallsOrdered
    <2>2. \A i \in DOMAIN r : HasContent(r[i]) /\ w.base = r[i].base
            => w.content < r[i].content
        BY <1>2, <1>4
    <2> QED
        BY <1>2, <2>1, <2>2 DEF CallsOrdered
<1>9. Followed(D, r, s, w, l, g)
    <2> SUFFICES ASSUME NEW a \in Bases, Pending(p, q, Nothing, a, l[a])
                 PROVE  Pending(r, s, w, a, l[a])
        BY <1>1 DEF Followed
    <2>1. CASE \E i \in DOMAIN p :
                HasContent(p[i]) /\ p[i].base = a /\ p[i].content = l[a]
        <3>1. PICK i \in DOMAIN p :
                HasContent(p[i]) /\ p[i].base = a /\ p[i].content = l[a]
            BY <2>1
        <3>2. CASE i = 1
            BY <1>2, <1>4, <1>5, <3>1, <3>2 DEF Pending
        <3>3. CASE i # 1
            BY <1>2, <3>1, <3>3 DEF Pending
        <3> QED
            BY <3>2, <3>3
    <2>2. CASE \E i \in DOMAIN q : q[i].base = a /\ q[i].content = l[a]
        <3>1. PICK i \in DOMAIN q : q[i].base = a /\ q[i].content = l[a]
            BY <2>2
        <3>2. CASE a = b
            <4>1. q[i].content < c
                BY <1>1, <1>2, <3>1, <3>2 DEF CallsOrdered
            <4>2. l[a] \in Nat
                BY DEF State, Typed
            <4> QED
                BY <1>2, <3>1, <3>2, <4>1, <4>2
        <3>3. CASE a # b
            BY <1>3, <3>1, <3>3 DEF Pending
        <3> QED
            BY <3>2, <3>3
    <2> QED
        BY <2>1, <2>2 DEF Pending
<1>10. Waits(r, w, u, l)
    <2>1. u = {b} /\ c = l[b]
        BY <1>1, <1>2, <1>13 DEF Waits
    <2>2. IsSync(p[1])
        BY <1>13 DEF IsSync
    <2>3. \A i \in DOMAIN r : ~IsSync(r[i])
        BY <1>1, <1>2, <2>2 DEF Waits
    <2> QED
        BY <1>2, <1>4, <2>1, <2>3 DEF Waits
<1>11. Placing(D[w.base], w, l, g)
    BY <1>4 DEF Placing
<1>12. WorkOrdered(D, w, l)
    BY <1>2, <1>4 DEF WorkOrdered
<1> QED
    BY <1>6, <1>7, <1>8, <1>9, <1>10, <1>11, <1>12 DEF State, Ordered

\* One entry of the queue is taken, or the main thread goes on.
LEMMA OneTaken ==
    ASSUME NEW D, NEW p, NEW q, NEW u, NEW l, NEW g,
           State(D, p, q, Nothing, u, l, g),
           NEW call \in Calls, call # "writeSync",
           call = "writeSyncAll" =>
                /\ u = Bases
                /\ \A j \in DOMAIN p : ~HasContent(p[j]) /\ ~IsSync(p[j]),
           NEW s, NEW w, NEW v,
           \/ q # <<>> /\ w = Begin(Head(q), call) /\ s = Tail(q) /\ v = u
           \/ /\ q = <<>> /\ w = Nothing /\ s = q
              /\ v = IF call = "writeSyncAll" THEN {} ELSE u
    PROVE  State(D, p, s, w, v, l, g)
<1>1. CASE q # <<>> /\ w = Begin(Head(q), call) /\ s = Tail(q) /\ v = u
    BY <1>1, Begun
<1>2. CASE q = <<>> /\ w = Nothing /\ s = q /\ call = "writeSyncAll" /\ v = {}
    BY <1>2, Released
<1>3. CASE q = <<>> /\ w = Nothing /\ s = q /\ call # "writeSyncAll" /\ v = u
    BY <1>3
<1> QED
    BY <1>1, <1>2, <1>3

-----------------------------------------------------------------------------
(* The steps                                                                 *)

LEMMA InitHolds == Init => IInv
<1> SUFFICES ASSUME Init
             PROVE  State(disk, <<>>, <<>>, Nothing, {}, last, {})
    BY DEF Init, IInv
<1>1. last \in [Bases -> Nat \ {0}] /\ \A b \in Bases : last[b] = 1
    BY DEF Init
<1>2. ASSUME NEW b \in Bases
      PROVE  /\ disk[b] \in File /\ AtMost(disk[b], last[b])
             /\ Readable(disk[b]) = last[b]
    <2> DEFINE d == disk[b]
    <2>1. d \in Left(b) /\ Readable(d) = 1
        BY DEF Init
    <2> HIDE DEF d
    <2>2. /\ d = [s |-> d.s, zero |-> d.zero, one |-> d.one,
                 oneIsYounger |-> d.oneIsYounger]
          /\ d.s \in {0, 1} /\ d.zero \in {0, -1, 1} /\ d.one \in {0, -1, 1}
          /\ d.oneIsYounger \in BOOLEAN
        <3>1. CASE b \in Legacy
            BY <2>1, <3>1 DEF Left, NoFile, Torn
        <3>2. CASE b \notin Legacy
            BY <2>1, <3>2 DEF Left, NoFile, Torn
        <3> QED
            BY <3>1, <3>2
    <2>3. d \in File
        BY <2>2 DEF File
    <2>4. AtMost(d, 1)
        BY <2>2 DEF AtMost
    <2> QED
        BY <1>1, <2>1, <2>3, <2>4 DEF d
<1>3. disk \in [Bases -> File]
    BY <1>2 DEF Init
<1>4. Typed(disk, <<>>, <<>>, Nothing, {}, last, {})
    BY <1>1, <1>3 DEF Typed
<1>5. Ordered(disk, <<>>, <<>>, Nothing, last)
    BY <1>2 DEF Ordered, WorkOrdered, QueueOrdered, CallsOrdered, Unique
<1>6. Followed(disk, <<>>, <<>>, Nothing, last, {})
    BY <1>2 DEF Followed
<1>7. Waits(<<>>, Nothing, {}, last)
    BY DEF Waits
<1> QED
    BY <1>4, <1>5, <1>6, <1>7 DEF State

LEMMA CrashKeeps == IInv /\ Crash => IInv'
<1> SUFFICES ASSUME IInv, Crash
             PROVE  State(disk, <<>>, <<>>, Nothing, {}, last, lost')
    BY DEF Crash, IInv
<1>1. /\ disk \in [Bases -> File] /\ last \in [Bases -> Nat \ {0}]
      /\ \A b \in Bases : AtMost(disk[b], last[b])
    BY DEF IInv, State, Typed, Ordered
<1>2. lost' = {b \in Bases : Readable(disk[b]) # last[b]}
    BY DEF Crash
<1>3. Typed(disk, <<>>, <<>>, Nothing, {}, last, lost')
    BY <1>1, <1>2 DEF Typed
<1>4. Ordered(disk, <<>>, <<>>, Nothing, last)
    BY <1>1 DEF Ordered, WorkOrdered, QueueOrdered, CallsOrdered, Unique
<1>5. Followed(disk, <<>>, <<>>, Nothing, last, lost')
    BY <1>2 DEF Followed
<1>6. Waits(<<>>, Nothing, {}, last)
    BY DEF Waits
<1> QED
    BY <1>3, <1>4, <1>5, <1>6 DEF State

\* A reader removes the copy that it has not read.
LEMMA ReadKeeps ==
    ASSUME IInv, NEW b \in Bases, ReadFile(b)
    PROVE  IInv'
<1> DEFINE d == disk[b]
           e == OnlyRead(disk[b])
<1>1. /\ disk \in [Bases -> File] /\ writing \in Working \cup {Nothing}
      /\ disk' = [disk EXCEPT ![b] = e]
      /\ Len(ToTry(d)) = 2 /\ Matching(d) # 0 /\ d \in File
    BY DEF ReadFile, IInv, State, Typed
<1>2. /\ e \in File /\ e.s = d.s /\ d.s = NoFile
      /\ e.zero \in {d.zero, NoFile}
      /\ e.one \in {d.one, NoFile} /\ d.one # NoFile
      /\ e.oneIsYounger = d.oneIsYounger
      /\ ~d.oneIsYounger /\ Whole(d.zero) => e.zero = d.zero
      /\ Readable(e) = Readable(d)
    BY <1>1, OnlyReadIsRead
<1> HIDE DEF e, d
<1>3. /\ disk' \in [Bases -> File] /\ disk'[b] = e
      /\ \A a \in Bases \ {b} : disk'[a] = disk[a]
    BY <1>1, <1>2
<1>4. disk[b] = d
    BY DEF d
<1>5. ASSUME NEW m \in Nat, AtMost(d, m)
      PROVE  AtMost(e, m)
    BY <1>2, <1>5 DEF AtMost, NoFile
<1>6. \A a \in Bases, m \in Nat : AtMost(disk[a], m) => AtMost(disk'[a], m)
    BY <1>3, <1>4, <1>5
<1>7. \A a \in Bases : Readable(disk'[a]) = Readable(disk[a])
    BY <1>2, <1>3, <1>4
<1>8. Typed(disk', posted, scheduled, writing, waiting, last, lost)
    BY <1>3 DEF IInv, State, Typed
<1>9. Ordered(disk', posted, scheduled, writing, last)
    <2>1. \A a \in Bases : AtMost(disk'[a], last[a])
        BY <1>6 DEF IInv, State, Typed, Ordered
    <2>2. WorkOrdered(disk', writing, last)
        BY <1>1, <1>6, WorkingIs DEF IInv, State, Ordered, WorkOrdered
    <2>3. QueueOrdered(disk', scheduled, writing, last)
        <3>1. QueueOrdered(disk, scheduled, writing, last) /\ scheduled \in Seq(Entry)
            BY DEF IInv, State, Ordered, Typed
        <3>2. \A i \in DOMAIN scheduled :
                scheduled[i].base \in Bases /\ scheduled[i].content \in Nat
            BY <3>1, EntriesAre
        <3> QED
            BY <1>6, <3>1, <3>2 DEF QueueOrdered
    <2>4. CallsOrdered(disk', posted, scheduled, writing, last)
        <3>1. CallsOrdered(disk, posted, scheduled, writing, last) /\ posted \in Seq(Posted)
            BY DEF IInv, State, Ordered, Typed
        <3>2. \A i \in DOMAIN posted : HasContent(posted[i]) =>
                posted[i].base \in Bases /\ posted[i].content \in Nat
            BY <3>1, CallsAre
        <3> QED
            BY <1>6, <3>1, <3>2 DEF CallsOrdered
    <2> QED
        BY <2>1, <2>2, <2>3, <2>4 DEF Ordered
<1>10. Followed(disk', posted, scheduled, writing, last, lost)
    BY <1>7 DEF IInv, State, Followed
<1>11. ASSUME writing # Nothing
       PROVE  Placing(disk'[writing.base], writing, last, lost)
    <2>1. /\ Placing(disk[writing.base], writing, last, lost)
          /\ writing.base \in Bases /\ writing.content \in Nat \ {0}
        BY <1>1, <1>11, WorkingIs DEF IInv, State
    <2>2. CASE writing.base = b
        <3>1. Placing(d, writing, last, lost) /\ disk'[writing.base] = e
            BY <1>3, <1>4, <2>1, <2>2
        <3>2. writing.content # 0 /\ Whole(writing.content)
            BY <2>1 DEF Whole
        <3>3. writing.step \notin {"removeSimple", "removeBackup"}
            BY <1>2, <3>1, <3>2 DEF Placing, NoFile
        <3>4. writing.step = "fill" => ~Whole(e.zero)
            BY <1>2, <3>1 DEF Placing, NoFile, Whole
        <3>5. writing.step \in {"clearBackup", "rename", "removeSafe"} =>
                \/ e.zero = writing.content
                \/ /\ ~Whole(e.zero)
                   /\ writing.content = last[writing.base] => writing.base \in lost
            BY <1>2, <3>1, <3>2 DEF Placing, NoFile, Whole
        <3>6. Placing(e, writing, last, lost)
            BY <1>2, <3>1, <3>3, <3>4, <3>5 DEF Placing
        <3> QED
            BY <3>1, <3>6
    <2>3. CASE writing.base # b
        BY <1>3, <2>1, <2>3
    <2> QED
        BY <2>2, <2>3
<1>12. State(disk', posted, scheduled, writing, waiting, last, lost)
    BY <1>8, <1>9, <1>10, <1>11 DEF IInv, State
<1> QED
    BY <1>12 DEF ReadFile, IInv

\* A content is handed to the manager.
LEMMA HandKeeps ==
    ASSUME IInv, NEW b \in Bases, Write(b) \/ WriteSync(b)
    PROVE  IInv'
<1> DEFINE H(call) == [call |-> call, base |-> b, content |-> last[b] + 1]
<1>1. last \in [Bases -> Nat \ {0}] /\ lost' = lost \ {b} /\ waiting = {}
    BY DEF Write, WriteSync, Hand, IInv, State, Typed
<1>2. last' = [last EXCEPT ![b] = last[b] + 1] /\ last'[b] = last[b] + 1
    BY <1>1 DEF Write, WriteSync, Hand
<1>3. State(disk, posted, scheduled, writing, {}, last, lost)
    BY <1>1 DEF IInv
<1>4. CASE Write(b)
    <2>1. /\ posted' = Append(posted, H("write")) /\ waiting' = {}
          /\ disk' = disk /\ scheduled' = scheduled /\ writing' = writing
        BY <1>1, <1>2, <1>4 DEF Write, Hand
    <2>2. State(disk, posted', scheduled, writing, waiting', last', lost \ {b})
        BY <1>2, <1>3, <2>1, Handed
    <2> QED
        BY <1>1, <2>1, <2>2 DEF IInv
<1>5. CASE WriteSync(b)
    <2>1. /\ posted' = Append(posted, H("writeSync")) /\ waiting' = {b}
          /\ disk' = disk /\ scheduled' = scheduled /\ writing' = writing
        BY <1>1, <1>2, <1>5 DEF WriteSync, Hand
    <2>2. State(disk, posted', scheduled, writing, waiting', last', lost \ {b})
        BY <1>2, <1>3, <2>1, Handed
    <2> QED
        BY <1>1, <2>1, <2>2 DEF IInv
<1> QED
    BY <1>4, <1>5

LEMMA SyncKeeps == IInv /\ Sync => IInv'
BY Synced DEF IInv, Sync

LEMMA ReadyIs ==
    ASSUME NEW call, Ready(call), IInv
    PROVE  /\ State(disk, posted, scheduled, Nothing, waiting, last, lost)
           /\ posted # <<>> /\ Head(posted).call = call
BY DEF Ready, IInv

LEMMA ManagerWriteKeeps == IInv /\ ManagerWrite => IInv'
<1> SUFFICES ASSUME IInv, ManagerWrite
             PROVE  IInv'
    OBVIOUS
<1> DEFINE b == Head(posted).base
           c == Head(posted).content
           r == Tail(posted)
<1>1. /\ State(disk, posted, scheduled, Nothing, waiting, last, lost)
      /\ posted # <<>> /\ Head(posted).call = "write"
    BY ReadyIs DEF ManagerWrite
<1>2. HasContent(Head(posted))
    BY <1>1 DEF HasContent
<1>3. scheduled' = Scheduled(scheduled, b, c)
    BY DEF ManagerWrite
<1>4. /\ posted' = Append(r, [call |-> "writeScheduled"])
      /\ disk' = disk /\ writing' = Nothing /\ waiting' = waiting
      /\ last' = last /\ lost' = lost
    BY DEF ManagerWrite, Ready
<1>5. State(disk, r, scheduled', Nothing, waiting, last, lost)
    <2> HIDE DEF b, c, r
    <2>1. b = Head(posted).base /\ c = Head(posted).content /\ r = Tail(posted)
        BY DEF b, c, r
    <2> QED
        BY <1>1, <1>2, <1>3, <2>1, Queued
<1> HIDE DEF b, c, r
<1>6. [call |-> "writeScheduled"] \in Posted
    BY DEF Posted
<1>7. ~HasContent([call |-> "writeScheduled"]) /\ ~IsSync([call |-> "writeScheduled"])
    BY DEF HasContent, IsSync
<1>8. State(disk, posted', scheduled', Nothing, waiting, last, lost)
    BY <1>4, <1>5, <1>6, <1>7, Called
<1> QED
    BY <1>4, <1>8 DEF IInv

LEMMA ManagerWriteSyncKeeps == IInv /\ ManagerWriteSync => IInv'
<1> SUFFICES ASSUME IInv, ManagerWriteSync
             PROVE  IInv'
    OBVIOUS
<1>1. /\ State(disk, posted, scheduled, Nothing, waiting, last, lost)
      /\ posted # <<>> /\ Head(posted).call = "writeSync"
    BY ReadyIs DEF ManagerWriteSync
<1>2. /\ scheduled' = Unscheduled(scheduled, Head(posted).base)
      /\ writing' = Begin(Head(posted), "writeSync")
      /\ posted' = Tail(posted)
      /\ disk' = disk /\ waiting' = waiting /\ last' = last /\ lost' = lost
    BY DEF ManagerWriteSync
<1>3. State(disk, posted', scheduled', writing', waiting, last, lost)
    BY <1>1, <1>2, AtOnce
<1> QED
    BY <1>2, <1>3 DEF IInv

\* Behind the call that the main thread waits for in sync() nothing is left to
\* be written.
LEMMA NothingBehind ==
    ASSUME NEW p \in Seq(Posted), NEW w, NEW u, NEW l,
           Waits(p, w, u, l), p # <<>>, Head(p).call = "writeSyncAll"
    PROVE  /\ u = Bases
           /\ \A j \in DOMAIN Tail(p) :
                ~HasContent(Tail(p)[j]) /\ ~IsSync(Tail(p)[j])
<1> DEFINE r == Tail(p)
<1>1. /\ Head(p) = p[1] /\ 1 \in DOMAIN p
      /\ \A i \in DOMAIN r : i + 1 \in DOMAIN p /\ r[i] = p[i + 1] /\ i \in Nat \ {0}
    BY TailIs
<1> HIDE DEF r
<1>2. \A i \in DOMAIN r : 1 < i + 1 /\ i + 1 # 1
    BY <1>1
<1>3. IsSync(p[1]) /\ p[1].call = "writeSyncAll"
    BY <1>1 DEF IsSync
<1>4. u = Bases /\ \A j \in DOMAIN p : 1 < j => ~HasContent(p[j])
    BY <1>1, <1>3 DEF Waits
<1>5. \A j \in DOMAIN p : IsSync(p[j]) => j = 1
    BY <1>1, <1>3 DEF Waits
<1>6. \A j \in DOMAIN r : ~HasContent(r[j]) /\ ~IsSync(r[j])
    BY <1>1, <1>2, <1>4, <1>5
<1> QED
    BY <1>4, <1>6 DEF r

LEMMA ManagerWriteOneKeeps ==
    ASSUME IInv, NEW call \in {"writeScheduled", "writeSyncAll"},
           ManagerWriteOne(call)
    PROVE  IInv'
<1>1. /\ State(disk, posted, scheduled, Nothing, waiting, last, lost)
      /\ posted # <<>> /\ Head(posted).call = call
    BY ReadyIs DEF ManagerWriteOne
<1>2. /\ posted' = Tail(posted) /\ disk' = disk /\ last' = last /\ lost' = lost
      /\ \/ /\ scheduled # <<>> /\ writing' = Begin(Head(scheduled), call)
            /\ scheduled' = Tail(scheduled) /\ waiting' = waiting
         \/ /\ scheduled = <<>> /\ writing' = Nothing /\ scheduled' = scheduled
            /\ waiting' = IF call = "writeSyncAll" THEN {} ELSE waiting
    BY DEF ManagerWriteOne, WriteOne
<1>3. ~HasContent(Head(posted))
    BY <1>1 DEF HasContent
<1>4. State(disk, posted', scheduled, Nothing, waiting, last, lost)
    BY <1>1, <1>2, <1>3, Taken
<1>5. call = "writeSyncAll" =>
        /\ waiting = Bases
        /\ \A j \in DOMAIN posted' : ~HasContent(posted'[j]) /\ ~IsSync(posted'[j])
    BY <1>1, <1>2, NothingBehind DEF State, Typed
<1>6. call \in Calls /\ call # "writeSync"
    BY DEF Calls
<1>7. State(disk, posted', scheduled', writing', waiting', last, lost)
    BY <1>2, <1>4, <1>5, <1>6, OneTaken
<1> QED
    BY <1>2, <1>7 DEF IInv

-----------------------------------------------------------------------------
(* The steps of writeNow()                                                   *)

\* What is known of the entry that is written and of its file.
LEMMA AtWork ==
    ASSUME IInv, writing # Nothing
    PROVE  /\ writing \in Working /\ writing.base \in Bases
           /\ writing.content \in Nat \ {0} /\ writing.call \in Calls
           /\ Files \in File /\ AtMost(Files, writing.content)
           /\ Placing(Files, writing, last, lost)
           /\ disk \in [Bases -> File]
           /\ disk = [disk EXCEPT ![writing.base] = Files]
           /\ lost \subseteq Bases
<1>1. /\ writing \in Working /\ disk \in [Bases -> File] /\ lost \subseteq Bases
      /\ AtMost(Files, writing.content) /\ Placing(Files, writing, last, lost)
    BY DEF IInv, State, Typed, Ordered, WorkOrdered, Files
<1>2. /\ writing.base \in Bases /\ writing.content \in Nat \ {0}
      /\ writing.call \in Calls
    BY <1>1, WorkingIs
<1> QED
    BY <1>1, <1>2 DEF Files

LEMMA AtIs ==
    ASSUME NEW step \in Steps, At(step)
    PROVE  writing # Nothing
BY DEF At, Nothing, Steps

\* writeNow() goes on with its next step.
LEMMA GoesKeeps ==
    ASSUME IInv, writing # Nothing,
           NEW step \in Steps, Goes(step),
           NEW d \in File, AtMost(d, writing.content),
           disk' = [disk EXCEPT ![writing.base] = d],
           lost \subseteq lost', lost' \subseteq Bases, last' = last,
           Placing(d, writing', last, lost')
    PROVE  IInv'
<1>1. /\ writing' = [writing EXCEPT !.step = step]
      /\ posted' = posted /\ scheduled' = scheduled /\ waiting' = waiting
    BY DEF Goes
<1>2. State(disk, posted, scheduled, writing, waiting, last, lost)
    BY DEF IInv
<1>3. State(disk', posted, scheduled, writing', waiting, last, lost')
    BY <1>1, <1>2, GoesOn
<1> QED
    BY <1>1, <1>3 DEF IInv

\* writeNow() returns.
LEMMA WrittenKeeps ==
    ASSUME IInv, writing # Nothing, Written,
           NEW d \in File, AtMost(d, writing.content),
           disk' = [disk EXCEPT ![writing.base] = d],
           lost \subseteq lost', lost' \subseteq Bases, last' = last,
           writing.content = last[writing.base] =>
                writing.base \in lost' \/ Readable(d) = writing.content
    PROVE  IInv'
<1>1. State(disk, posted, scheduled, writing, waiting, last, lost)
    BY DEF IInv
<1>2. State(disk', posted, scheduled, Nothing, waiting, last, lost')
    BY <1>1, Returns
<1>3. CASE writing.call = "writeScheduled"
    <2>1. /\ posted' = IF scheduled # <<>>
                       THEN Append(posted, [call |-> "writeScheduled"])
                       ELSE posted
          /\ writing' = Nothing /\ scheduled' = scheduled /\ waiting' = waiting
        BY <1>3 DEF Written
    <2>2. [call |-> "writeScheduled"] \in Posted
        BY DEF Posted
    <2>3. /\ ~HasContent([call |-> "writeScheduled"])
          /\ ~IsSync([call |-> "writeScheduled"])
        BY DEF HasContent, IsSync
    <2>4. State(disk', posted', scheduled, Nothing, waiting, last, lost')
        <3>1. CASE scheduled # <<>>
            BY <1>2, <2>1, <2>2, <2>3, <3>1, Called
        <3>2. CASE scheduled = <<>>
            BY <1>2, <2>1, <3>2
        <3> QED
            BY <3>1, <3>2
    <2> QED
        BY <2>1, <2>4 DEF IInv
<1>4. CASE writing.call = "writeSyncAll"
    <2>1. /\ posted' = posted
          /\ \/ /\ scheduled # <<>> /\ writing' = Begin(Head(scheduled), "writeSyncAll")
                /\ scheduled' = Tail(scheduled) /\ waiting' = waiting
             \/ /\ scheduled = <<>> /\ writing' = Nothing /\ scheduled' = scheduled
                /\ waiting' = {}
        BY <1>4 DEF Written, WriteOne
    <2>2. /\ waiting = Bases
          /\ \A j \in DOMAIN posted : ~HasContent(posted[j]) /\ ~IsSync(posted[j])
        BY <1>1, <1>4 DEF State, Waits, IsSync
    <2>3. "writeSyncAll" \in Calls /\ "writeSyncAll" # "writeSync"
        BY DEF Calls
    <2>4. State(disk', posted, scheduled', writing', waiting', last, lost')
        BY <1>2, <2>1, <2>2, <2>3, OneTaken
    <2> QED
        BY <2>1, <2>4 DEF IInv
<1>5. CASE writing.call = "writeSync"
    <2>1. /\ posted' = posted /\ scheduled' = scheduled
          /\ writing' = Nothing /\ waiting' = {}
        BY <1>5 DEF Written
    <2>2. \A j \in DOMAIN posted : ~IsSync(posted[j])
        BY <1>1, <1>5 DEF State, Waits, IsSync
    <2>3. State(disk', posted, scheduled, Nothing, {}, last, lost')
        BY <1>2, <2>2, Released
    <2> QED
        BY <2>1, <2>3 DEF IInv
<1> QED
    BY <1>3, <1>4, <1>5, AtWork DEF Calls

LEMMA StepIs ==
    ASSUME NEW w \in Working, NEW step
    PROVE  /\ [w EXCEPT !.step = step].step = step
           /\ [w EXCEPT !.step = step].base = w.base
           /\ [w EXCEPT !.step = step].content = w.content
BY DEF Working

LEMMA SaveKeeps == IInv /\ Save => IInv'
<1> SUFFICES ASSUME IInv, Save
             PROVE  IInv'
    OBVIOUS
<1>1. writing # Nothing
    BY AtIs DEF Save, Steps
<1> DEFINE f == Files
<1>2. /\ writing \in Working /\ writing.content \in Nat \ {0}
      /\ f \in File /\ AtMost(f, writing.content)
      /\ disk = [disk EXCEPT ![writing.base] = f] /\ lost \subseteq Bases
    BY <1>1, AtWork
<1>3. CASE /\ disk' = [disk EXCEPT ![writing.base] = [f EXCEPT !.s = writing.content]]
           /\ Goes("removeSimple")
    <2> DEFINE d == [f EXCEPT !.s = writing.content]
    <2>1. d \in File /\ AtMost(d, writing.content) /\ d.s = writing.content
        BY <1>2 DEF File, AtMost
    <2>2. writing'.step = "removeSimple" /\ writing'.content = writing.content
        BY <1>2, <1>3, StepIs DEF Goes
    <2>3. lost' = lost /\ last' = last
        BY DEF Save
    <2>4. disk' = [disk EXCEPT ![writing.base] = d]
        BY <1>3
    <2> HIDE DEF d
    <2>5. Placing(d, writing', last, lost')
        BY <2>1, <2>2 DEF Placing
    <2> QED
        BY <1>1, <1>2, <1>3, <2>1, <2>3, <2>4, <2>5, GoesKeeps DEF Steps
<1>4. CASE disk' = disk /\ Goes("open")
    <2>1. writing'.step = "open"
        BY <1>2, <1>4, StepIs DEF Goes
    <2>2. lost' = lost /\ last' = last
        BY DEF Save
    <2> HIDE DEF f
    <2>3. Placing(f, writing', last, lost')
        BY <2>1 DEF Placing
    <2>4. disk' = [disk EXCEPT ![writing.base] = f]
        BY <1>2, <1>4
    <2> QED
        BY <1>1, <1>2, <1>4, <2>2, <2>3, <2>4, GoesKeeps DEF Steps
<1> QED
    BY <1>3, <1>4 DEF Save, Put

LEMMA RemoveSimpleKeeps == IInv /\ RemoveSimple => IInv'
<1> SUFFICES ASSUME IInv, RemoveSimple
             PROVE  IInv'
    OBVIOUS
<1>1. writing # Nothing /\ writing.step = "removeSimple"
    BY AtIs DEF RemoveSimple, Steps, At
<1> DEFINE f == Files
           d == [f EXCEPT !.zero = NoFile]
<1>2. /\ writing \in Working /\ writing.content \in Nat \ {0}
      /\ f \in File /\ AtMost(f, writing.content)
      /\ Placing(f, writing, last, lost) /\ lost \subseteq Bases
    BY <1>1, AtWork
<1>3. PICK e \in {d, f} :
        /\ disk' = [disk EXCEPT ![writing.base] = e] /\ Goes("removeBackup")
        /\ last' = last /\ lost' = lost
    BY DEF RemoveSimple, RemoveFile, Put
<1>4. e \in File /\ AtMost(e, writing.content) /\ e.s = f.s
    BY <1>2 DEF File, AtMost, NoFile
<1>5. writing'.step = "removeBackup" /\ writing'.content = writing.content
    BY <1>2, <1>3, StepIs DEF Goes
<1> HIDE DEF d, f
<1>6. Placing(e, writing', last, lost')
    BY <1>1, <1>2, <1>4, <1>5 DEF Placing
<1> QED
    BY <1>1, <1>2, <1>3, <1>4, <1>6, GoesKeeps DEF Steps

LEMMA RemoveBackupKeeps == IInv /\ RemoveBackup => IInv'
<1> SUFFICES ASSUME IInv, RemoveBackup
             PROVE  IInv'
    OBVIOUS
<1>1. writing # Nothing /\ writing.step = "removeBackup"
    BY AtIs DEF RemoveBackup, Steps, At
<1> DEFINE f == Files
           d == [f EXCEPT !.one = NoFile]
<1>2. /\ writing \in Working /\ writing.content \in Nat \ {0}
      /\ f \in File /\ AtMost(f, writing.content)
      /\ Placing(f, writing, last, lost) /\ lost \subseteq Bases
    BY <1>1, AtWork
<1>3. PICK e \in {d, f} :
        /\ disk' = [disk EXCEPT ![writing.base] = e] /\ Written
        /\ last' = last /\ lost' = lost
    BY DEF RemoveBackup, RemoveFile, Put
<1>4. e \in File /\ AtMost(e, writing.content) /\ e.s = f.s
    BY <1>2 DEF File, AtMost, NoFile
<1> HIDE DEF d, f
<1>5. f.s = writing.content
    BY <1>1, <1>2 DEF Placing
<1>6. Readable(e) = writing.content
    BY <1>2, <1>4, <1>5, ReadableSafe DEF Whole, NoFile
<1> QED
    BY <1>1, <1>2, <1>3, <1>4, <1>6, WrittenKeeps

LEMMA GivenUpIs ==
    ASSUME IInv, writing # Nothing, lost' = GivenUp
    PROVE  /\ lost \subseteq lost' /\ lost' \subseteq Bases
           /\ writing.content = last[writing.base] => writing.base \in lost'
BY AtWork DEF GivenUp

LEMMA OpenPlainKeeps == IInv /\ OpenPlain => IInv'
<1> SUFFICES ASSUME IInv, OpenPlain
             PROVE  IInv'
    OBVIOUS
<1>1. writing # Nothing /\ last' = last
    BY AtIs DEF OpenPlain, Steps
<1> DEFINE f == Files
<1>2. /\ writing \in Working /\ writing.content \in Nat \ {0}
      /\ f \in File /\ AtMost(f, writing.content)
      /\ disk = [disk EXCEPT ![writing.base] = f] /\ lost \subseteq Bases
    BY <1>1, AtWork
<1> DEFINE d == [f EXCEPT !.zero = Torn, !.oneIsYounger = FALSE]
<1>3. CASE /\ disk' = [disk EXCEPT ![writing.base] = d]
           /\ Goes("fill") /\ lost' = lost
    <2>1. /\ d \in File /\ AtMost(d, writing.content)
          /\ ~d.oneIsYounger /\ ~Whole(d.zero)
        <3> DEFINE h == [f EXCEPT !.zero = Torn]
        <3>5. h = [s |-> f.s, zero |-> Torn, one |-> f.one,
                   oneIsYounger |-> f.oneIsYounger]
            BY <1>2 DEF File
        <3>6. d = [h EXCEPT !.oneIsYounger = FALSE]
            BY <1>2, Zenon DEF File
        <3> HIDE DEF h
        <3>1. d = [s |-> f.s, zero |-> Torn, one |-> f.one, oneIsYounger |-> FALSE]
            <4> HIDE DEF d
            <4> QED
                BY <3>5, <3>6
        <3>2. f.s \in Int /\ f.one \in Int /\ writing.content > 0
            BY <1>2 DEF File
        <3> HIDE DEF d
        <3>3. d \in File /\ ~Whole(d.zero) /\ ~d.oneIsYounger
            BY <3>1, <3>2 DEF File, Torn, Whole
        <3>4. AtMost(d, writing.content)
            BY <1>2, <3>1, <3>2 DEF AtMost, Torn
        <3> QED
            BY <3>3, <3>4
    <2>2. writing'.step = "fill"
        BY <1>2, <1>3, StepIs DEF Goes
    <2> HIDE DEF d
    <2>3. Placing(d, writing', last, lost')
        BY <2>1, <2>2 DEF Placing
    <2> QED
        BY <1>1, <1>2, <1>3, <2>1, <2>3, GoesKeeps DEF Steps
<1>4. CASE lost' = GivenUp /\ Written /\ disk' = disk
    <2> HIDE DEF f
    <2>1. disk' = [disk EXCEPT ![writing.base] = f]
        BY <1>2, <1>4
    <2> QED
        BY <1>1, <1>2, <1>4, <2>1, GivenUpIs, WrittenKeeps
<1> QED
    BY <1>3, <1>4 DEF OpenPlain, Put

LEMMA FillPlainKeeps == IInv /\ FillPlain => IInv'
<1> SUFFICES ASSUME IInv, FillPlain
             PROVE  IInv'
    OBVIOUS
<1>1. /\ writing # Nothing /\ writing.step = "fill" /\ last' = last
      /\ Goes("clearBackup")
    BY AtIs DEF FillPlain, Steps, At
<1> DEFINE f == Files
<1>2. /\ writing \in Working /\ writing.content \in Nat \ {0}
      /\ f \in File /\ AtMost(f, writing.content)
      /\ Placing(f, writing, last, lost) /\ lost \subseteq Bases
    BY <1>1, AtWork
<1>3. ~f.oneIsYounger /\ ~Whole(f.zero)
    BY <1>1, <1>2 DEF Placing
<1>4. /\ writing'.step = "clearBackup" /\ writing'.content = writing.content
      /\ writing'.base = writing.base
    BY <1>1, <1>2, StepIs DEF Goes
<1> DEFINE d == [f EXCEPT !.zero = writing.content]
<1>5. CASE disk' = [disk EXCEPT ![writing.base] = d] /\ lost' = lost
    <2>1. /\ d \in File /\ AtMost(d, writing.content)
          /\ d.zero = writing.content /\ ~d.oneIsYounger
        BY <1>2, <1>3 DEF File, AtMost
    <2> HIDE DEF d
    <2>2. Placing(d, writing', last, lost')
        BY <1>4, <2>1 DEF Placing
    <2> QED
        BY <1>1, <1>2, <1>5, <2>1, <2>2, GoesKeeps DEF Steps
<1>6. CASE disk' = [disk EXCEPT ![writing.base] = f] /\ lost' = GivenUp
    <2> HIDE DEF f
    <2>1. /\ lost \subseteq lost' /\ lost' \subseteq Bases
          /\ writing.content = last[writing.base] => writing.base \in lost'
        BY <1>1, <1>6, GivenUpIs
    <2>2. Placing(f, writing', last, lost')
        BY <1>3, <1>4, <2>1 DEF Placing
    <2> QED
        BY <1>1, <1>2, <1>6, <2>1, <2>2, GoesKeeps DEF Steps
<1> QED
    BY <1>5, <1>6 DEF FillPlain, Put

LEMMA ClearBackupKeeps == IInv /\ ClearBackup => IInv'
<1> SUFFICES ASSUME IInv, ClearBackup
             PROVE  IInv'
    OBVIOUS
<1>1. writing # Nothing /\ writing.step = "clearBackup"
    BY AtIs DEF ClearBackup, Steps, At
<1> DEFINE f == Files
           d == [f EXCEPT !.one = NoFile]
<1>2. /\ writing \in Working /\ writing.content \in Nat \ {0}
      /\ f \in File /\ AtMost(f, writing.content)
      /\ Placing(f, writing, last, lost) /\ lost \subseteq Bases
    BY <1>1, AtWork
<1>3. PICK e \in {d, f} :
        /\ disk' = [disk EXCEPT ![writing.base] = e] /\ Goes("rename")
        /\ last' = last /\ lost' = lost
    BY DEF ClearBackup, RemoveFile, Put
<1>4. /\ e \in File /\ AtMost(e, writing.content) /\ e.zero = f.zero
      /\ e.oneIsYounger = f.oneIsYounger
    BY <1>2 DEF File, AtMost, NoFile
<1>5. /\ writing'.step = "rename" /\ writing'.content = writing.content
      /\ writing'.base = writing.base
    BY <1>2, <1>3, StepIs DEF Goes
<1> HIDE DEF d, f
<1>6. Placing(e, writing', last, lost')
    BY <1>1, <1>2, <1>3, <1>4, <1>5 DEF Placing
<1> QED
    BY <1>1, <1>2, <1>3, <1>4, <1>6, GoesKeeps DEF Steps

\* The plain copy holds the content, if that is still the last.
LEMMA PlainIs ==
    ASSUME IInv, writing # Nothing, writing.step \in {"rename", "removeSafe"},
           writing.content = last[writing.base], writing.base \notin lost
    PROVE  Files.zero = writing.content /\ ~Files.oneIsYounger
BY AtWork DEF Placing

LEMMA RenameKeeps == IInv /\ Rename => IInv'
<1> SUFFICES ASSUME IInv, Rename
             PROVE  IInv'
    OBVIOUS
<1>1. /\ writing # Nothing /\ writing.step = "rename" /\ last' = last
      /\ lost' = lost
    BY AtIs DEF Rename, Steps, At
<1> DEFINE f == Files
<1>2. /\ writing \in Working /\ writing.content \in Nat \ {0}
      /\ f \in File /\ AtMost(f, writing.content)
      /\ disk = [disk EXCEPT ![writing.base] = f]
      /\ Placing(f, writing, last, lost) /\ lost \subseteq Bases
    BY <1>1, AtWork
<1> DEFINE d == [f EXCEPT !.s = f.zero, !.zero = NoFile]
<1>3. CASE disk' = [disk EXCEPT ![writing.base] = d] /\ Written
    <2>1. d \in File /\ AtMost(d, writing.content) /\ d.s = f.zero
        <3> DEFINE h == [f EXCEPT !.s = f.zero]
        <3>5. h = [s |-> f.zero, zero |-> f.zero, one |-> f.one,
                   oneIsYounger |-> f.oneIsYounger]
            BY <1>2 DEF File
        <3>6. d = [h EXCEPT !.zero = NoFile]
            BY <1>2, Zenon DEF File
        <3> HIDE DEF h
        <3>1. d = [s |-> f.zero, zero |-> NoFile, one |-> f.one,
                   oneIsYounger |-> f.oneIsYounger]
            <4> HIDE DEF d
            <4> QED
                BY <3>5, <3>6
        <3>2. f.zero \in Int /\ f.one \in Int /\ f.oneIsYounger \in BOOLEAN
            BY <1>2 DEF File
        <3> HIDE DEF d
        <3> QED
            BY <1>2, <3>1, <3>2 DEF File, AtMost, NoFile
    <2>2. ASSUME writing.content = last[writing.base], writing.base \notin lost
          PROVE  Readable(d) = writing.content
        <3>1. f.zero = writing.content
            BY <1>1, <2>2, PlainIs
        <3> HIDE DEF d, f
        <3> QED
            BY <1>2, <2>1, <3>1, ReadableSafe DEF Whole, NoFile
    <2> HIDE DEF d
    <2> QED
        BY <1>1, <1>2, <1>3, <2>1, <2>2, WrittenKeeps
<1>4. CASE disk' = disk /\ Goes("removeSafe")
    <2>1. /\ writing'.step = "removeSafe" /\ writing'.content = writing.content
          /\ writing'.base = writing.base
        BY <1>2, <1>4, StepIs DEF Goes
    <2> HIDE DEF f
    <2>2. Placing(f, writing', last, lost')
        BY <1>1, <1>2, <2>1 DEF Placing
    <2>3. disk' = [disk EXCEPT ![writing.base] = f]
        BY <1>2, <1>4
    <2> QED
        BY <1>1, <1>2, <1>4, <2>2, <2>3, GoesKeeps DEF Steps
<1> QED
    BY <1>3, <1>4 DEF Rename, Put

LEMMA RemoveSafeKeeps == IInv /\ RemoveSafe => IInv'
<1> SUFFICES ASSUME IInv, RemoveSafe
             PROVE  IInv'
    OBVIOUS
<1>1. writing # Nothing /\ writing.step = "removeSafe"
    BY AtIs DEF RemoveSafe, Steps, At
<1> DEFINE f == Files
           d == [f EXCEPT !.s = NoFile]
<1>2. /\ writing \in Working /\ writing.content \in Nat \ {0}
      /\ f \in File /\ AtMost(f, writing.content) /\ lost \subseteq Bases
    BY <1>1, AtWork
<1>3. PICK e \in {d, f} :
        /\ disk' = [disk EXCEPT ![writing.base] = e] /\ Written /\ last' = last
        /\ \/ lost' = lost /\ (e = d \/ f.s = NoFile)
           \/ lost' = GivenUp
    BY DEF RemoveSafe, RemoveFile, Put
<1>4. /\ e \in File /\ AtMost(e, writing.content)
      /\ e.zero = f.zero /\ e.oneIsYounger = f.oneIsYounger
      /\ e = d \/ f.s = NoFile => e.s = NoFile
    BY <1>2 DEF File, AtMost, NoFile
<1> HIDE DEF d, f
<1>5. CASE lost' = GivenUp
    BY <1>1, <1>2, <1>3, <1>4, <1>5, GivenUpIs, WrittenKeeps
<1>6. CASE lost' = lost /\ e.s = NoFile
    <2>1. ASSUME writing.content = last[writing.base], writing.base \notin lost
          PROVE  Readable(e) = writing.content
        <3>1. f.zero = writing.content /\ ~f.oneIsYounger
            BY <1>1, <2>1, PlainIs DEF f
        <3> QED
            BY <1>2, <1>4, <1>6, <3>1, ReadablePlain DEF Whole
    <2> QED
        BY <1>1, <1>2, <1>3, <1>4, <1>6, <2>1, WrittenKeeps
<1> QED
    BY <1>3, <1>4, <1>5, <1>6

-----------------------------------------------------------------------------
(* The theorems                                                              *)

LEMMA StepKeeps == IInv /\ [Next]_vars => IInv'
<1> SUFFICES ASSUME IInv, [Next]_vars
             PROVE  IInv'
    OBVIOUS
<1>1. ASSUME NEW b \in Bases, ReadFile(b) \/ Write(b) \/ WriteSync(b)
      PROVE  IInv'
    BY <1>1, ReadKeeps, HandKeeps
<1>2. CASE Sync
    BY <1>2, SyncKeeps
<1>3. CASE ManagerWrite
    BY <1>3, ManagerWriteKeeps
<1>4. CASE ManagerWriteSync
    BY <1>4, ManagerWriteSyncKeeps
<1>5. CASE ManagerWriteOne("writeScheduled") \/ ManagerWriteOne("writeSyncAll")
    BY <1>5, ManagerWriteOneKeeps
<1>6. CASE WriteNow
    BY <1>6, SaveKeeps, RemoveSimpleKeeps, RemoveBackupKeeps, OpenPlainKeeps,
       FillPlainKeeps, ClearBackupKeeps, RenameKeeps, RemoveSafeKeeps
    DEF WriteNow
<1>7. CASE Crash
    BY <1>7, CrashKeeps
<1>8. CASE UNCHANGED vars
    BY <1>8 DEF vars, IInv
<1> QED
    BY <1>1, <1>2, <1>3, <1>4, <1>5, <1>6, <1>7, <1>8 DEF Next, Manager

\* The contents of a file are in order on their way to the disk: what is
\* written is newer than what can be read, and older than what is in the queue,
\* which is older than what is still on its way to the manager.  Whichever calls
\* fail, removals among them, the last one is among them until it can be read or
\* is given up: it could not be written, or the program stopped, or an older 's'
\* in front of it could be neither replaced nor removed.
THEOREM Invariance == Spec => []IInv
<1> QED
    BY InitHolds, StepKeeps, PTL DEF Spec

\* What can be read of a file that was put in place is that file.
LEMMA SafeIsRead ==
    ASSUME NEW f \in File, Whole(f.s), NEW e \in File, e.s >= f.s
    PROVE  Readable(e) >= Readable(f)
<1>1. f.s \in Int /\ e.s \in Int
    BY DEF File
<1> QED
    BY <1>1, ReadableSafe DEF Whole, NoFile

\* One step of writeNow() for the file it is about.
LEMMA FileGoesForward ==
    ASSUME IInv, WriteNow, Whole(Files.s), ~TornInPlace(writing.base)
    PROVE  Readable(disk'[writing.base]) >= Readable(Files)
<1> DEFINE f == Files
           e == disk'[writing.base]
<1>1. writing # Nothing
    BY AtIs DEF WriteNow, Save, RemoveSimple, RemoveBackup, OpenPlain, FillPlain,
       ClearBackup, Rename, RemoveSafe, Steps
<1>2. /\ writing \in Working /\ writing.base \in Bases
      /\ writing.content \in Nat \ {0} /\ f \in File
      /\ AtMost(f, writing.content) /\ Placing(f, writing, last, lost)
      /\ disk \in [Bases -> File] /\ disk[writing.base] = f
    BY <1>1, AtWork DEF Files
<1>3. e \in File
    BY <1>2, StepKeeps DEF IInv, State, Typed, Next, Manager
<1>4. \A d : Put(d) => e = d
    BY <1>2 DEF Put
<1>5. f.s \in Int /\ f.s <= writing.content /\ f.s >= f.s
    BY <1>2 DEF File, AtMost
<1>7. ASSUME e.s >= f.s
      PROVE  Readable(e) >= Readable(f)
    <2> HIDE DEF e
    <2> QED
        BY <1>2, <1>3, <1>7, SafeIsRead
<1>6. CASE e = f
    <2>1. e.s = f.s
        BY <1>6
    <2> QED
        BY <1>5, <1>7, <2>1
<1>8. CASE Save /\ e # f
    <2>1. e = [f EXCEPT !.s = writing.content]
        BY <1>2, <1>4, <1>8 DEF Save
    <2>2. e.s = writing.content
        BY <1>2, <2>1 DEF File
    <2> QED
        BY <1>2, <1>5, <1>7, <2>2
<1>9. CASE RemoveSimple
    <2>1. e = [f EXCEPT !.zero = NoFile] \/ e = f
        BY <1>4, <1>9 DEF RemoveSimple, RemoveFile
    <2> QED
        BY <1>2, <1>5, <1>7, <2>1 DEF File
<1>10. CASE RemoveBackup \/ ClearBackup
    <2>1. e = [f EXCEPT !.one = NoFile] \/ e = f
        BY <1>4, <1>10 DEF RemoveBackup, ClearBackup, RemoveFile
    <2> QED
        BY <1>2, <1>5, <1>7, <2>1 DEF File
<1>11. CASE OpenPlain /\ e # f
    <2>1. e = [f EXCEPT !.zero = Torn, !.oneIsYounger = FALSE]
        BY <1>2, <1>4, <1>11 DEF OpenPlain
    <2>2. e.s = f.s
        BY <1>2, <2>1, Zenon DEF File
    <2> QED
        BY <1>5, <1>7, <2>2
<1>12. CASE FillPlain
    <2>1. e = [f EXCEPT !.zero = writing.content] \/ e = f
        BY <1>4, <1>12 DEF FillPlain
    <2>2. e.s = f.s
        BY <1>2, <2>1 DEF File
    <2> QED
        BY <1>5, <1>7, <2>2
<1>13. CASE Rename /\ e # f
    <2>1. e = [f EXCEPT !.s = f.zero, !.zero = NoFile]
        BY <1>2, <1>4, <1>13 DEF Rename
    <2>2. e.s = f.zero
        BY <1>2, <2>1, Zenon DEF File
    <2>3. f.zero = writing.content
        BY <1>2, <1>13 DEF Rename, At, TornInPlace, Placing, Files
    <2> QED
        BY <1>2, <1>5, <1>7, <2>2, <2>3
<1>14. CASE RemoveSafe /\ e # f
    <2>1. e = [f EXCEPT !.s = NoFile]
        BY <1>2, <1>4, <1>14 DEF RemoveSafe, RemoveFile
    <2>2. f.zero = writing.content /\ ~f.oneIsYounger
        BY <1>2, <1>14 DEF RemoveSafe, At, TornInPlace, Placing, Files
    <2>3. e.s = NoFile /\ e.zero = writing.content /\ ~e.oneIsYounger
        BY <1>2, <2>1, <2>2 DEF File
    <2> HIDE DEF e, f
    <2>4. Readable(e) = writing.content
        BY <1>2, <1>3, <2>3, ReadablePlain DEF Whole
    <2>5. Readable(f) = f.s
        BY <1>2, ReadableSafe DEF Whole, NoFile, f
    <2> QED
        BY <1>2, <1>5, <2>4, <2>5 DEF e, f
<1> HIDE DEF e, f
<1> QED
    BY <1>6, <1>8, <1>9, <1>10, <1>11, <1>12, <1>13, <1>14 DEF WriteNow

LEMMA ForwardStep ==
    ASSUME IInv, [Next]_vars, NEW b \in Bases,
           Whole(disk[b].s), ~TornInPlace(b)
    PROVE  Readable(disk'[b]) >= Readable(disk[b])
<1>1. /\ disk \in [Bases -> File] /\ disk[b] \in File
      /\ last \in [Bases -> Nat \ {0}] /\ AtMost(disk[b], last[b])
    BY DEF IInv, State, Typed, Ordered
<1>2. Readable(disk[b]) \in Nat
    BY <1>1, ReadableAtMost
<1>3. CASE UNCHANGED disk
    BY <1>2, <1>3
<1>4. CASE WriteNow
    <2>1. writing # Nothing
        BY <1>4, AtIs DEF WriteNow, Save, RemoveSimple, RemoveBackup, OpenPlain,
           FillPlain, ClearBackup, Rename, RemoveSafe, Steps
    <2>2. CASE b = writing.base
        BY <1>4, <2>2, FileGoesForward DEF Files
    <2>3. CASE b # writing.base
        <3>1. UNCHANGED disk \/ \E d : disk' = [disk EXCEPT ![writing.base] = d]
            BY <1>4 DEF WriteNow, Save, RemoveSimple, RemoveBackup, OpenPlain,
               FillPlain, ClearBackup, Rename, RemoveSafe, RemoveFile, Put
        <3>2. disk'[b] = disk[b]
            BY <1>1, <2>3, <3>1
        <3> QED
            BY <1>2, <3>2
    <2> QED
        BY <2>2, <2>3
<1>5. ASSUME NEW a \in Bases, ReadFile(a)
      PROVE  Readable(disk'[b]) >= Readable(disk[b])
    <2>1. disk[a] \in File
        BY <1>1
    <2>2. Readable(OnlyRead(disk[a])) = Readable(disk[a])
        BY <1>5, <2>1, OnlyReadIsRead DEF ReadFile
    <2>3. disk' = [disk EXCEPT ![a] = OnlyRead(disk[a])]
        BY <1>5 DEF ReadFile
    <2>4. Readable(disk'[b]) = Readable(disk[b])
        BY <1>1, <2>2, <2>3
    <2> QED
        BY <1>2, <2>4
<1> QED
    BY <1>3, <1>4, <1>5
    DEF Next, Manager, Write, WriteSync, Hand, Sync, ManagerWrite,
        ManagerWriteSync, ManagerWriteOne, Crash, vars

\* For any files, contents, faults and crashes: but for a torn plain copy in the
\* place of the file, no step makes a file that was put in place older.
THEOREM FilesGoForward == Spec => ContentGoesForward
<1>1. IInv /\ [Next]_vars
        => [\A base \in Bases :
                Whole(disk[base].s) /\ ~TornInPlace(base)
                    => Readable(disk'[base]) >= Readable(disk[base])]_vars
    BY ForwardStep
<1> QED
    BY <1>1, Invariance, PTL DEF Spec, ContentGoesForward

\* A content of which nothing is left to be done is on the disk.
LEMMA DoneIs ==
    ASSUME IInv', NEW b \in Bases,
           ~Pending(posted', scheduled', writing', b, last'[b])
    PROVE  b \in lost' \/ Readable(disk'[b]) = last'[b]
BY DEF IInv, State, Followed

LEMMA NonePending ==
    ASSUME NEW p, \A j \in DOMAIN p : ~HasContent(p[j]), NEW b, NEW n
    PROVE  ~Pending(p, <<>>, Nothing, b, n)
BY DEF Pending

\* writeNow() returns for a file that the main thread waits for.
LEMMA WrittenFrees ==
    ASSUME IInv, IInv', writing # Nothing, Written, last' = last,
           NEW b \in waiting \ waiting'
    PROVE  b \in lost' \/ Readable(disk'[b]) = last'[b]
<1>1. /\ Waits(posted, writing, waiting, last)
      /\ CallsOrdered(disk, posted, scheduled, writing, last)
      /\ QueueOrdered(disk, scheduled, writing, last)
      /\ waiting \subseteq Bases /\ last \in [Bases -> Nat \ {0}]
      /\ posted \in Seq(Posted) /\ scheduled \in Seq(Entry)
    BY DEF IInv, State, Typed, Ordered
<1>2. CASE writing.call = "writeScheduled"
    BY <1>2 DEF Written
<1>3. CASE writing.call = "writeSyncAll"
    <2>1. /\ posted' = posted /\ scheduled = <<>> /\ scheduled' = <<>>
          /\ writing' = Nothing
        BY <1>3 DEF Written, WriteOne
    <2>2. \A j \in DOMAIN posted : ~HasContent(posted[j])
        BY <1>1, <1>3 DEF Waits
    <2>3. ~Pending(posted', scheduled', writing', b, last'[b])
        BY <2>1, <2>2, NonePending
    <2> QED
        BY <1>1, <2>3, DoneIs
<1>4. CASE writing.call = "writeSync"
    <2>1. /\ posted' = posted /\ scheduled' = scheduled
          /\ writing' = Nothing
        BY <1>4 DEF Written
    <2>2. b = writing.base /\ writing.content = last[b] /\ last[b] \in Nat
        BY <1>1, <1>4 DEF Waits
    <2>3. \A i \in DOMAIN posted : HasContent(posted[i]) /\ posted[i].base = b
            => last[b] < posted[i].content
        BY <1>1, <2>2 DEF CallsOrdered
    <2>4. \A i \in DOMAIN scheduled : scheduled[i].base = b
            => last[b] < scheduled[i].content
        BY <1>1, <2>2 DEF QueueOrdered
    <2>5. ~Pending(posted', scheduled', writing', b, last'[b])
        BY <2>1, <2>2, <2>3, <2>4 DEF Pending
    <2> QED
        BY <1>1, <2>5, DoneIs
<1> QED
    BY <1>2, <1>3, <1>4, AtWork DEF Calls

LEMMA FreedStep ==
    ASSUME IInv, IInv', [Next]_vars, NEW b \in waiting \ waiting'
    PROVE  b \in lost' \/ Readable(disk'[b]) = last'[b]
<1>1. b \in Bases /\ waiting # {} /\ waiting' # waiting
    BY DEF IInv, State, Typed
<1>2. CASE Crash
    BY <1>1, <1>2 DEF Crash
<1>3. CASE ManagerWriteOne("writeSyncAll")
    <2>1. /\ posted' = Tail(posted) /\ scheduled = <<>> /\ scheduled' = <<>>
          /\ writing' = Nothing
        BY <1>1, <1>3 DEF ManagerWriteOne, WriteOne
    <2>2. /\ posted \in Seq(Posted) /\ Waits(posted, writing, waiting, last)
          /\ posted # <<>> /\ Head(posted).call = "writeSyncAll"
        BY <1>3 DEF ManagerWriteOne, Ready, IInv, State, Typed
    <2>3. \A j \in DOMAIN posted' : ~HasContent(posted'[j])
        BY <2>1, <2>2, NothingBehind
    <2>4. ~Pending(posted', scheduled', writing', b, last'[b])
        BY <2>1, <2>3, NonePending
    <2> QED
        BY <1>1, <2>4, DoneIs
<1>4. CASE WriteNow
    <2>1. writing # Nothing
        BY <1>4, AtIs DEF WriteNow, Save, RemoveSimple, RemoveBackup, OpenPlain,
           FillPlain, ClearBackup, Rename, RemoveSafe, Steps
    <2>2. last' = last /\ (Written \/ waiting' = waiting)
        BY <1>4 DEF WriteNow, Save, RemoveSimple, RemoveBackup, OpenPlain,
           FillPlain, ClearBackup, Rename, RemoveSafe, Goes
    <2> QED
        BY <1>1, <2>1, <2>2, WrittenFrees
<1>5. ~ManagerWriteOne("writeScheduled")
    BY <1>1 DEF ManagerWriteOne, WriteOne
<1> QED
    BY <1>1, <1>2, <1>3, <1>4, <1>5
    DEF Next, Manager, ReadFile, Write, WriteSync, Hand, Sync, ManagerWrite,
        ManagerWriteSync, vars

\* When the main thread has waited for files, their last contents can be read,
\* or were given up in one of these ways.
THEOREM WaitedIsWritten == Spec => SyncMeansWritten
<1>1. IInv /\ IInv' /\ [Next]_vars
        => [\A base \in waiting \ waiting' :
                base \in lost' \/ Readable(disk'[base]) = last'[base]]_vars
    BY FreedStep
<1> QED
    BY <1>1, Invariance, StepKeeps, PTL DEF Spec, SyncMeansWritten

=============================================================================
