-------------------------- MODULE XeroOwners_proofs --------------------------
(***************************************************************************)
(* What the daily sync of the Xero groups keeps true beside everything     *)
(* else that moves accounts, for any number of customers, groups, people   *)
(* and master-data files.                                                  *)
(***************************************************************************)
EXTENDS XeroOwners, Timeline_proofs, FiniteSetTheorems, SequenceTheorems

Loading == INSTANCE LeftFold WITH Op <- LoadRow

-----------------------------------------------------------------------------
(* Master data: what a file makes of the rows, whatever its length.        *)

RowFields == {"kind", "key", "value", "needs", "fixed", "unique", "subject", "from", "to"}

WellFormed(row) ==
    /\ DOMAIN row = RowFields
    /\ row.kind = "xero_group" => row.key \in GroupName /\ row.value \in Owner

GroupsMapped(rows) == \A r \in rows : r.kind = "xero_group" => r.key \in GroupName /\ r.value \in Owner

(* No history is lost between rows and later. *)
Grown(rows, later) ==
    \A r \in rows :
        /\ r.kind \in Kept => r \in later
        /\ \E s \in later : Same(s, r) /\ s.fixed = r.fixed

LEMMA GrownOn ==
    ASSUME NEW a, NEW b, NEW c, Grown(a, b), Grown(b, c)
    PROVE  Grown(a, c)
<1> SUFFICES ASSUME NEW r \in a
             PROVE  /\ r.kind \in Kept => r \in c
                    /\ \E s \in c : Same(s, r) /\ s.fixed = r.fixed
  BY DEF Grown
<1>1. r.kind \in Kept => r \in b /\ r \in c
  BY DEF Grown
<1>2. PICK s \in b : Same(s, r) /\ s.fixed = r.fixed
  BY DEF Grown
<1>3. PICK t \in c : Same(t, s) /\ t.fixed = s.fixed
  BY DEF Grown
<1> QED
  BY <1>1, <1>2, <1>3 DEF Same

(* A row that is written stands for the one in the file. *)
LEMMA WrittenRow ==
    ASSUME NEW row, WellFormed(row), NEW old, NEW s \in Written(old, row)
    PROVE  s.kind = row.kind /\ s.key = row.key /\ s.value = row.value /\ s.fixed = row.fixed
<1>1. CASE s = row
  BY <1>1
<1>2. CASE \E r \in old : s = [row EXCEPT !.unique = r.unique]
  BY <1>2 DEF WellFormed, RowFields
<1> QED
  BY <1>1, <1>2 DEF Written

LEMMA SomethingWritten ==
    ASSUME NEW row, NEW old
    PROVE  Written(old, row) # {}
BY DEF Written

LEMMA LoadingOne ==
    ASSUME NEW db, DOMAIN db = {"ok", "rows"}, NEW row, WellFormed(row)
    PROVE  LET next == LoadRow(db, row) IN
           /\ DOMAIN next = {"ok", "rows"}
           /\ GroupsMapped(db.rows) => GroupsMapped(next.rows)
           /\ Grown(db.rows, next.rows)
<1> DEFINE old == {r \in db.rows : Same(r, row)}
           next == LoadRow(db, row)
           new == [db EXCEPT !.rows = (@ \ old) \union Written(old, row)]
<1>1. Grown(db.rows, db.rows)
  BY DEF Grown, Same
<1>2. CASE next = [db EXCEPT !.ok = FALSE] \/ next = db
  <2>1. DOMAIN next = {"ok", "rows"} /\ next.rows = db.rows
    BY <1>2
  <2> HIDE DEF next
  <2> QED
    BY <1>1, <2>1 DEF next
<1>3. CASE /\ next = new
           /\ \A r \in old : r.fixed = row.fixed
           /\ ~Stays(old, row)
  <2>1. DOMAIN new = {"ok", "rows"} /\ new.rows = (db.rows \ old) \union Written(old, row)
    OBVIOUS
  <2> HIDE DEF new, next
  <2>2. \A s \in Written(old, row) :
            s.kind = row.kind /\ s.key = row.key /\ s.value = row.value /\ s.fixed = row.fixed
    BY WrittenRow
  <2>3. ASSUME GroupsMapped(db.rows)
        PROVE  GroupsMapped(new.rows)
    BY <2>1, <2>2, <2>3 DEF GroupsMapped, WellFormed
  <2>4. ASSUME NEW r \in db.rows
        PROVE  /\ r.kind \in Kept => r \in new.rows
               /\ \E s \in new.rows : Same(s, r) /\ s.fixed = r.fixed
    <3>1. CASE r \notin old
      BY <2>1, <3>1 DEF Same
    <3>2. CASE r \in old
      <4>1. r.kind = row.kind /\ r.key = row.key /\ r.fixed = row.fixed /\ row.kind \notin Kept
        BY <1>3, <3>2 DEF Same, Stays
      <4>2. PICK s \in Written(old, row) : TRUE
        BY SomethingWritten
      <4> QED
        BY <2>1, <2>2, <4>1, <4>2 DEF Same
    <3> QED
      BY <3>1, <3>2
  <2> QED
    BY <1>3, <2>1, <2>3, <2>4 DEF next, Grown
<1> QED
  BY <1>2, <1>3 DEF LoadRow

(* At most one row under a key. *)
OneByKey(rows) == \A r, s \in rows : Same(r, s) => r = s

LEMMA LoadingKeepsKeys ==
    ASSUME NEW db, DOMAIN db = {"ok", "rows"}, NEW row, WellFormed(row), OneByKey(db.rows)
    PROVE  OneByKey(LoadRow(db, row).rows)
<1> DEFINE old == {r \in db.rows : Same(r, row)}
           new == [db EXCEPT !.rows = (@ \ old) \union Written(old, row)]
<1>1. \A r, s \in old : r = s
  BY DEF OneByKey, Same
<1>2. ASSUME NEW r \in Written(old, row), NEW s \in Written(old, row)
      PROVE  r = s
  <2> HIDE DEF old
  <2> QED
    BY <1>1, <1>2 DEF Written
<1>3. \A r \in Written(old, row) : Same(r, row)
  BY WrittenRow DEF Same
<1>4. new.rows = (db.rows \ old) \union Written(old, row)
  OBVIOUS
<1>5. OneByKey(new.rows)
  BY <1>2, <1>3, <1>4 DEF OneByKey, Same
<1>6. LoadRow(db, row) \in {db, [db EXCEPT !.ok = FALSE], new}
  BY DEF LoadRow
<1>7. [db EXCEPT !.ok = FALSE].rows = db.rows
  OBVIOUS
<1> HIDE DEF new
<1> QED
  BY <1>5, <1>6, <1>7

(* A whole file is loaded in a loop, ... *)
LoadLoop(f, rows, lines) ==
    /\ Loading!Loop(f, [ok |-> TRUE, rows |-> rows], lines, Len(lines))
    /\ LoadFrom(rows, lines) = f[Len(lines)]

LEMMA FileFacts ==
    ASSUME NEW file \in File
    PROVE  LET lines == Lines[file] IN
           /\ Len(lines) \in Nat /\ DOMAIN lines = 1 .. Len(lines)
           /\ \A n \in 1 .. Len(lines) : WellFormed(lines[n])
           /\ \A row : row \in ToSet(lines) <=> \E n \in 1 .. Len(lines) : row = lines[n]
<1> DEFINE lines == Lines[file]
<1>1. lines \in Seq(ToSet(lines)) /\ \A row \in ToSet(lines) : WellFormed(row)
  BY FileAssumption DEF WellFormed, RowFields
<1>2. \A row : row \in ToSet(lines) <=> \E n \in DOMAIN lines : row = lines[n]
  BY DEF ToSet
<1> HIDE DEF lines
<1>3. Len(lines) \in Nat /\ DOMAIN lines = 1 .. Len(lines)
  BY <1>1, LenProperties
<1> QED
  BY <1>1, <1>2, <1>3 DEF lines

LEMMA FileIsLoop ==
    ASSUME NEW rows, NEW file \in File
    PROVE  \E f : LoadLoop(f, rows, Lines[file])
<1> DEFINE lines == Lines[file]
           base == [ok |-> TRUE, rows |-> rows]
           len == Len(lines)
<1>1. len \in Nat /\ DOMAIN lines = 1 .. len
  BY FileFacts
<1> HIDE DEF lines, len
<1>2. PICK f : Loading!Loop(f, base, lines, len) /\ Loading!Fold(base, lines) = f[len]
  BY <1>1, Loading!FoldIsLoop
<1>3. LoadFrom(rows, lines) = f[len]
  BY <1>2 DEF LoadFrom, Loading!Fold, FoldLeft, Loading!FoldLeft, MapThenFoldSet,
              Loading!MapThenFoldSet, Max, Loading!Max
<1> QED
  BY <1>2, <1>3 DEF LoadLoop, lines, len

(* ... of which these are kept, by induction on the rows that are loaded.  *)
LEMMA LoadingSteps ==
    ASSUME NEW rows, NEW file \in File, NEW f, LoadLoop(f, rows, Lines[file]),
           NEW n \in 0 .. Len(Lines[file])
    PROVE  /\ DOMAIN f[n] = {"ok", "rows"}
           /\ GroupsMapped(rows) => GroupsMapped(f[n].rows)
           /\ OneByKey(rows) => OneByKey(f[n].rows)
           /\ Grown(rows, f[n].rows)
<1> DEFINE lines == Lines[file]
           base == [ok |-> TRUE, rows |-> rows]
           len == Len(lines)
           Good(k) == /\ DOMAIN f[k] = {"ok", "rows"}
                      /\ GroupsMapped(rows) => GroupsMapped(f[k].rows)
                      /\ OneByKey(rows) => OneByKey(f[k].rows)
                      /\ Grown(rows, f[k].rows)
           Bad == {k \in 0 .. len : ~Good(k)}
<1>1. len \in Nat /\ \A k \in 1 .. len : WellFormed(lines[k])
  BY FileFacts
<1>2. Loading!Loop(f, base, lines, len)
  BY DEF LoadLoop
<1> HIDE DEF lines, len
<1>3. Bad = {}
  <2> SUFFICES ASSUME Bad # {} PROVE FALSE
    OBVIOUS
  <2>1. PICK m \in Bad : \A k \in Bad : m <= k
    <3>1. Bad \subseteq Nat
      BY <1>1
    <3> HIDE DEF Bad
    <3> QED
      BY <3>1, Loading!LeastNat
  <2>2. Good(0)
    <3>1. f[0] = base /\ DOMAIN base = {"ok", "rows"} /\ base.rows = rows
      BY <1>2 DEF Loading!Loop
    <3>2. Grown(rows, rows)
      BY DEF Grown, Same
    <3> QED
      BY <3>1, <3>2
  <2>3. m \in Nat /\ m \in 1 .. len /\ m - 1 \in 0 .. len /\ m - 1 \notin Bad
    BY <1>1, <2>1, <2>2
  <2>4. Good(m - 1)
    BY <2>3
  <2>5. f[m] = LoadRow(f[m - 1], lines[m]) /\ WellFormed(lines[m])
    BY <1>1, <1>2, <2>3 DEF Loading!Loop
  <2>6. /\ DOMAIN f[m] = {"ok", "rows"}
        /\ GroupsMapped(f[m - 1].rows) => GroupsMapped(f[m].rows)
        /\ OneByKey(f[m - 1].rows) => OneByKey(f[m].rows)
        /\ Grown(f[m - 1].rows, f[m].rows)
    BY <2>4, <2>5, LoadingOne, LoadingKeepsKeys
  <2>7. Good(m)
    BY <2>4, <2>6, GrownOn
  <2> QED
    BY <2>1, <2>7
<1>4. Good(n)
  BY <1>3 DEF lines, len
<1> QED
  BY <1>4

LEMMA LoadingAll ==
    ASSUME NEW rows, NEW file \in File
    PROVE  LET after == LoadFrom(rows, Lines[file]).rows IN
           /\ GroupsMapped(rows) => GroupsMapped(after)
           /\ OneByKey(rows) => OneByKey(after)
           /\ Grown(rows, after)
<1>1. PICK f : LoadLoop(f, rows, Lines[file])
  BY FileIsLoop
<1>2. Len(Lines[file]) \in 0 .. Len(Lines[file])
  BY FileFacts
<1> QED
  BY <1>1, <1>2, LoadingSteps DEF LoadLoop

(* Terms, contacts, tenants and rates are history: no file changes one or  *)
(* makes one disappear, and what is fixed of a row never changes, however  *)
(* many files are loaded and whatever is in them (load_master_data).       *)
THEOREM HistoryNeverRewritten == XeroSpec => HistoryOnlyGrows
<1>1. ASSUME [XeroNext]_all, master' # master
      PROVE  Grown(master, master')
  <2>1. PICK file \in File : LoadFile(file)
    BY <1>1 DEF XeroNext, all, DailySync, MoveContact, NameGroup, DeleteGroup, StartFetch,
                FetchGroup, FetchFails, SyncXeroGroups, SyncFails, OwnersChange, NextDay
  <2>2. master' = LoadFrom(master, Lines[file]).rows
    BY <2>1 DEF LoadFile, LoadMasterData
  <2> QED
    BY <2>2, LoadingAll
<1>2. [XeroNext]_all => [master' # master => \A r \in master :
            /\ r.kind \in Kept => r \in master'
            /\ \E s \in master' : Same(s, r) /\ s.fixed = r.fixed]_master
  BY <1>1 DEF Grown
<1> QED
  BY <1>2, PTL DEF XeroSpec, HistoryOnlyGrows

-----------------------------------------------------------------------------
(* What a file has loaded it finds again. *)

(* The file's row is there, as the file has it or as it was merged with    *)
(* the one before it, and nothing else stands in its way.                  *)
AtHome(rows, row) ==
    \E s \in rows :
        /\ Same(s, row) /\ s.fixed = row.fixed
        /\ row.kind \in Kept \/ ((s = row \/ s \in Written({s}, row)) /\ ~Refused(rows, row))

(* A row at home is left as it is. *)
LEMMA AtHomeIsQuiet ==
    ASSUME NEW rows, OneByKey(rows), NEW row, AtHome(rows, row)
    PROVE  LoadRow([ok |-> TRUE, rows |-> rows], row) = [ok |-> TRUE, rows |-> rows]
<1> DEFINE db == [ok |-> TRUE, rows |-> rows]
           old == {r \in rows : Same(r, row)}
<1>1. PICK s \in rows :
          /\ Same(s, row) /\ s.fixed = row.fixed
          /\ row.kind \in Kept \/ ((s = row \/ s \in Written({s}, row)) /\ ~Refused(rows, row))
  BY DEF AtHome
<1>2. old = {s}
  BY <1>1 DEF OneByKey, Same
<1>3. db.ok /\ db.rows = rows /\ old = {r \in db.rows : Same(r, row)}
  OBVIOUS
<1>4. CASE row.kind \in Kept
  BY <1>1, <1>2, <1>3, <1>4 DEF LoadRow, Stays
<1>5. CASE row.kind \notin Kept /\ row \notin old
  <2>1. Written(old, row) = {s}
    BY <1>1, <1>2, <1>5 DEF Written
  <2>2. (rows \ old) \union Written(old, row) = rows
    BY <1>2, <2>1
  <2>3. LoadRow(db, row) = [db EXCEPT !.rows = (rows \ old) \union Written(old, row)]
    BY <1>1, <1>2, <1>3, <1>5 DEF LoadRow, Stays
  <2> HIDE DEF old
  <2> QED
    BY <2>2, <2>3
<1>6. CASE row.kind \notin Kept /\ row \in old
  BY <1>1, <1>2, <1>3, <1>6 DEF LoadRow, Stays
<1> QED
  BY <1>4, <1>5, <1>6

(* What a row leaves when it is loaded, and all is well after that.        *)
LEMMA LoadedCases ==
    ASSUME NEW db, DOMAIN db = {"ok", "rows"}, NEW row, LoadRow(db, row).ok
    PROVE  LET old == {r \in db.rows : Same(r, row)}
               next == LoadRow(db, row)
           IN
           /\ db.ok /\ \A r \in old : r.fixed = row.fixed
           /\ \/ next = db /\ Stays(old, row)
              \/ next = db /\ row \in old /\ ~Refused(db.rows, row)
              \/ /\ next.rows = (db.rows \ old) \union Written(old, row)
                 /\ ~Stays(old, row) /\ ~Refused(db.rows, row)
<1>1. [db EXCEPT !.ok = FALSE].ok = FALSE
  OBVIOUS
<1>2. \A x : [db EXCEPT !.rows = x].rows = x
  OBVIOUS
<1> QED
  BY <1>1, <1>2 DEF LoadRow

(* A row that is replaced is there still, for those that need it.          *)
LEMMA FoundStill ==
    ASSUME NEW db, DOMAIN db = {"ok", "rows"}, NEW row, WellFormed(row), LoadRow(db, row).ok,
           NEW ref, There(db.rows, ref)
    PROVE  There(LoadRow(db, row).rows, ref)
<1>1. PICK r \in db.rows : r.kind = ref[1] /\ r.key = ref[2]
  BY DEF There
<1>2. PICK s \in LoadRow(db, row).rows : Same(s, r)
  BY LoadingOne DEF Grown
<1> QED
  BY <1>1, <1>2 DEF There, Same

LEMMA LoadedAtHome ==
    ASSUME NEW db, DOMAIN db = {"ok", "rows"}, NEW row, WellFormed(row), OneByKey(db.rows),
           LoadRow(db, row).ok
    PROVE  AtHome(LoadRow(db, row).rows, row)
<1> DEFINE old == {r \in db.rows : Same(r, row)}
           next == LoadRow(db, row)
<1>1. /\ \A r \in old : r.fixed = row.fixed
      /\ \/ next = db /\ Stays(old, row)
         \/ next = db /\ row \in old /\ ~Refused(db.rows, row)
         \/ /\ next.rows = (db.rows \ old) \union Written(old, row)
            /\ ~Stays(old, row) /\ ~Refused(db.rows, row)
  BY LoadedCases
<1>2. CASE next = db /\ Stays(old, row)
  <2>1. PICK r \in old : TRUE
    BY <1>2 DEF Stays
  <2> QED
    BY <1>1, <1>2, <2>1 DEF AtHome, Stays
<1>3. CASE next = db /\ row \in old /\ ~Refused(db.rows, row)
  BY <1>3 DEF AtHome
<1>4. CASE /\ next.rows = (db.rows \ old) \union Written(old, row)
           /\ ~Stays(old, row) /\ ~Refused(db.rows, row)
  <2>1. PICK s \in Written(old, row) : TRUE
    BY SomethingWritten
  <2>2. s \in next.rows /\ Same(s, row) /\ s.fixed = row.fixed
    BY <1>4, <2>1, WrittenRow DEF Same
  <2>3. s = row \/ s \in Written({s}, row)
    <3>1. CASE s = row
      BY <3>1
    <3>2. ASSUME NEW r \in old, s = [row EXCEPT !.unique = r.unique],
                 row.kind = "gl_account", row.unique = None
          PROVE  s \in Written({s}, row)
      <4>1. s.unique = r.unique
        BY <3>2 DEF WellFormed, RowFields
      <4> HIDE DEF old
      <4> QED
        BY <3>2, <4>1 DEF Written
    <3> QED
      BY <2>1, <3>1, <3>2 DEF Written
  <2>4. ~Refused(next.rows, row)
    <3>1. \A ref \in row.needs : There(next.rows, ref)
      BY <1>4, FoundStill DEF Refused
    <3>2. \A r \in next.rows : r \in db.rows \/ Same(r, row)
      BY <1>4, WrittenRow DEF Same
    <3> HIDE DEF next, old
    <3> QED
      BY <1>4, <3>1, <3>2 DEF Refused
  <2> QED
    BY <2>2, <2>3, <2>4 DEF AtHome
<1> QED
  BY <1>1, <1>2, <1>3, <1>4

(* Another row does not make a row homeless: what would stand in its way   *)
(* would itself have been refused because of it.                           *)
LEMMA AtHomeStays ==
    ASSUME NEW db, DOMAIN db = {"ok", "rows"}, NEW row, WellFormed(row), AtHome(db.rows, row),
           NEW other, WellFormed(other), ~Same(row, other), LoadRow(db, other).ok
    PROVE  AtHome(LoadRow(db, other).rows, row)
<1> DEFINE old == {r \in db.rows : Same(r, other)}
           next == LoadRow(db, other)
<1>1. PICK s \in db.rows :
          /\ Same(s, row) /\ s.fixed = row.fixed
          /\ row.kind \in Kept \/ ((s = row \/ s \in Written({s}, row)) /\ ~Refused(db.rows, row))
  BY DEF AtHome
<1>2. CASE next = db
  BY <1>2
<1>3. CASE /\ next.rows = (db.rows \ old) \union Written(old, other)
           /\ ~Refused(db.rows, other)
  <2>1. s \in next.rows /\ ~Same(s, other)
    BY <1>1, <1>3 DEF Same
  <2>2. ASSUME row.kind \notin Kept
        PROVE  ~Refused(next.rows, row)
    <3>1. ~Refused(db.rows, row) /\ (s = row \/ s \in Written({s}, row))
      BY <1>1, <2>2
    <3>2. \A ref \in row.needs : There(next.rows, ref)
      BY <3>1, FoundStill DEF Refused
    <3>3. s.subject = row.subject /\ s.from = row.from /\ s.to = row.to
      <4>1. CASE s = row
        BY <4>1
      <4>2. CASE s = [row EXCEPT !.unique = s.unique]
        BY <4>2 DEF WellFormed, RowFields
      <4> QED
        BY <3>1, <4>1, <4>2 DEF Written
    <3>4. row.unique # None => s = row
      BY <3>1 DEF Written
    <3>5. ASSUME NEW r \in Written(old, other)
          PROVE  ~Taken(r, row) /\ ~Overlaps(r, row)
      <4>1. r.kind = other.kind /\ r.subject = other.subject /\ r.from = other.from /\ r.to = other.to
        <5>1. CASE r = other
          BY <5>1
        <5>2. CASE \E q \in old : r = [other EXCEPT !.unique = q.unique]
          BY <5>2 DEF WellFormed, RowFields
        <5> QED
          BY <5>1, <5>2 DEF Written
      <4>2. ~Taken(s, other) /\ ~Overlaps(s, other)
        BY <1>3, <2>1 DEF Refused
      <4>3. ~Overlaps(r, row)
        BY <1>1, <3>3, <4>1, <4>2 DEF Overlaps, Same
      <4>4. CASE r = other
        BY <3>4, <4>2, <4>3, <4>4 DEF Taken
      <4>5. ASSUME NEW q \in old, r = [other EXCEPT !.unique = q.unique]
            PROVE  ~Taken(r, row)
        <5>1. q \in db.rows /\ q.kind = other.kind /\ ~Same(q, row)
          BY DEF Same
        <5>2. ~Taken(q, row)
          BY <3>1, <5>1 DEF Refused
        <5>3. r.unique = q.unique
          BY <4>5 DEF WellFormed, RowFields
        <5> QED
          BY <4>1, <5>1, <5>2, <5>3 DEF Taken
      <4> QED
        BY <4>3, <4>4, <4>5 DEF Written
    <3> HIDE DEF old, next
    <3> QED
      BY <1>3, <3>1, <3>2, <3>5 DEF Refused
  <2> QED
    BY <1>1, <2>1, <2>2 DEF AtHome
<1> QED
  BY <1>2, <1>3, LoadedCases

(* A file that names each row once.  One that names a row twice may be     *)
(* refused the second time: a customer that gives up a Xero contact within *)
(* the file, to one that comes after it, cannot have it back again.        *)
NamesOnce(file) ==
    \A i, j \in DOMAIN Lines[file] : Same(Lines[file][i], Lines[file][j]) => i = j

(* After n rows without a failure, these n are at home.                    *)
LEMMA FileAtHome ==
    ASSUME NEW rows, OneByKey(rows), NEW file \in File, NamesOnce(file),
           NEW f, LoadLoop(f, rows, Lines[file]), LoadFrom(rows, Lines[file]).ok
    PROVE  \A i \in 1 .. Len(Lines[file]) : AtHome(LoadFrom(rows, Lines[file]).rows, Lines[file][i])
<1> DEFINE lines == Lines[file]
           base == [ok |-> TRUE, rows |-> rows]
           len == Len(lines)
           Good(k) == f[k].ok => \A i \in 1 .. k : AtHome(f[k].rows, lines[i])
           Bad == {k \in 0 .. len : ~Good(k)}
<1>1. /\ len \in Nat /\ DOMAIN lines = 1 .. len
      /\ \A k \in 1 .. len : WellFormed(lines[k])
      /\ \A i, j \in 1 .. len : Same(lines[i], lines[j]) => i = j
  BY FileFacts DEF NamesOnce
<1>2. Loading!Loop(f, base, lines, len) /\ LoadFrom(rows, lines) = f[len] /\ LoadFrom(rows, lines).ok
  BY DEF LoadLoop
<1>3. \A k \in 0 .. len : DOMAIN f[k] = {"ok", "rows"} /\ OneByKey(f[k].rows)
  BY LoadingSteps
<1> HIDE DEF lines, len
<1>4. Bad = {}
  <2> SUFFICES ASSUME Bad # {} PROVE FALSE
    OBVIOUS
  <2>1. PICK m \in Bad : \A k \in Bad : m <= k
    <3>1. Bad \subseteq Nat
      BY <1>1
    <3> HIDE DEF Bad
    <3> QED
      BY <3>1, Loading!LeastNat
  <2>2. Good(0)
    <3>1. 1 .. 0 = {}
      OBVIOUS
    <3> QED
      BY <3>1
  <2>3. m \in Nat /\ m \in 1 .. len /\ m - 1 \in 0 .. len /\ m - 1 \notin Bad
    BY <1>1, <2>1, <2>2
  <2>4. f[m] = LoadRow(f[m - 1], lines[m]) /\ WellFormed(lines[m])
    BY <1>1, <1>2, <2>3 DEF Loading!Loop
  <2>5. DOMAIN f[m - 1] = {"ok", "rows"} /\ OneByKey(f[m - 1].rows) /\ Good(m - 1)
    BY <1>3, <2>3
  <2>6. ASSUME f[m].ok, NEW i \in 1 .. m
        PROVE  AtHome(f[m].rows, lines[i])
    <3>1. CASE i = m
      BY <2>4, <2>5, <2>6, <3>1, LoadedAtHome
    <3>2. CASE i # m
      <4>1. i \in 1 .. m - 1 /\ i \in 1 .. len
        BY <1>1, <2>3, <3>2
      <4>2. f[m - 1].ok
        BY <2>4, <2>5, <2>6, LoadedCases
      <4>3. AtHome(f[m - 1].rows, lines[i])
        BY <2>5, <4>1, <4>2
      <4>4. WellFormed(lines[i]) /\ ~Same(lines[i], lines[m])
        BY <1>1, <2>3, <3>2, <4>1
      <4> QED
        BY <2>4, <2>5, <2>6, <4>3, <4>4, AtHomeStays
    <3> QED
      BY <3>1, <3>2
  <2> QED
    BY <2>1, <2>6
<1>5. Good(len) /\ len \in 0 .. len
  BY <1>1, <1>4
<1>6. \A i \in 1 .. len : AtHome(LoadFrom(rows, lines).rows, lines[i])
  BY <1>2, <1>5
<1> QED
  BY <1>6 DEF lines, len

LEMMA ReloadChangesNothing ==
    ASSUME NEW rows, OneByKey(rows), NEW file \in File,
           \A i \in 1 .. Len(Lines[file]) : AtHome(rows, Lines[file][i])
    PROVE  LoadFrom(rows, Lines[file]) = [ok |-> TRUE, rows |-> rows]
<1> DEFINE lines == Lines[file]
           base == [ok |-> TRUE, rows |-> rows]
           len == Len(lines)
<1>1. len \in Nat /\ \A i \in 1 .. len : LoadRow(base, lines[i]) = base
  BY FileFacts, AtHomeIsQuiet
<1>2. PICK f : LoadLoop(f, rows, lines)
  BY FileIsLoop
<1>3. Loading!Loop(f, base, lines, len) /\ LoadFrom(rows, lines) = f[len]
  BY <1>2 DEF LoadLoop
<1> HIDE DEF lines, len, base
<1> DEFINE Bad == {k \in 0 .. len : f[k] # base}
<1>4. Bad = {}
  <2> SUFFICES ASSUME Bad # {} PROVE FALSE
    OBVIOUS
  <2>1. PICK m \in Bad : \A k \in Bad : m <= k
    <3>1. Bad \subseteq Nat
      BY <1>1
    <3> HIDE DEF Bad
    <3> QED
      BY <3>1, Loading!LeastNat
  <2>2. f[0] = base
    BY <1>3 DEF Loading!Loop
  <2>3. m \in Nat /\ m \in 1 .. len /\ m - 1 \in 0 .. len /\ m - 1 \notin Bad
    BY <1>1, <2>1, <2>2
  <2>4. f[m] = LoadRow(f[m - 1], lines[m])
    BY <1>3, <2>3 DEF Loading!Loop
  <2> QED
    BY <1>1, <2>1, <2>3, <2>4
<1>5. f[len] = base
  BY <1>1, <1>4
<1> QED
  BY <1>3, <1>5 DEF base, lines

LEMMA LoadedAgain ==
    ASSUME NEW rows, OneByKey(rows), NEW file \in File, NamesOnce(file),
           LoadFrom(rows, Lines[file]).ok
    PROVE  LET after == LoadFrom(rows, Lines[file]).rows IN
           LoadFrom(after, Lines[file]) = [ok |-> TRUE, rows |-> after]
<1>1. PICK f : LoadLoop(f, rows, Lines[file])
  BY FileIsLoop
<1>2. OneByKey(LoadFrom(rows, Lines[file]).rows)
  BY LoadingAll
<1> QED
  BY <1>1, <1>2, FileAtHome, ReloadChangesNothing

-----------------------------------------------------------------------------
(* What a row of a file names comes before it: the sections are in the     *)
(* order of load_master_data.                                              *)

Place(kind) ==
    CASE kind = "gl_account" -> 1
      [] kind = "employee" -> 2
      [] kind = "supplier" -> 3
      [] kind \in {"customer", "credit_terms", "contact", "tenant"} -> 4
      [] kind = "product" -> 5
      [] kind = "arr_contract" -> 6
      [] kind = "alias" -> 7
      [] kind = "xero_group" -> 8
      [] kind = "fx_rate" -> 9

LEMMA SectionFacts ==
    /\ Len(Sections) = 9 /\ DOMAIN Sections = 1 .. 9
    /\ \A i, j \in 1 .. 9 : Sections[i] = Sections[j] => i = j
    /\ \A i \in 1 .. 9 : Sections[i] \in ToSet(Sections)
<1>1. Len(Sections) = 9 /\ DOMAIN Sections = 1 .. 9
  BY DEF Sections
<1>2. /\ Sections[1] = "gl_accounts" /\ Sections[2] = "employees" /\ Sections[3] = "suppliers"
      /\ Sections[4] = "customers" /\ Sections[5] = "products" /\ Sections[6] = "contracts"
      /\ Sections[7] = "aliases" /\ Sections[8] = "groups" /\ Sections[9] = "rates"
  BY DEF Sections
<1>3. \A i \in 1 .. 9 : i \in {1, 2, 3, 4, 5, 6, 7, 8, 9}
  OBVIOUS
<1>4. \A i, j \in 1 .. 9 : Sections[i] = Sections[j] => i = j
  BY <1>2, <1>3
<1>5. \A i \in 1 .. 9 : Sections[i] \in ToSet(Sections)
  BY <1>1 DEF ToSet
<1> QED
  BY <1>1, <1>4, <1>5

LEMMA LayoutInOrder ==
    /\ \A s, k : <<s, k>> \in Holds => Place(k) \in 1 .. 9 /\ s = Sections[Place(k)]
    /\ \A k, n : <<k, n>> \in Names => Place(n) \in 1 .. 9 /\ Place(n) < Place(k)
<1>1. /\ Place("gl_account") = 1 /\ Place("employee") = 2 /\ Place("supplier") = 3
      /\ Place("customer") = 4 /\ Place("credit_terms") = 4 /\ Place("contact") = 4
      /\ Place("tenant") = 4 /\ Place("product") = 5 /\ Place("arr_contract") = 6
      /\ Place("alias") = 7 /\ Place("xero_group") = 8 /\ Place("fx_rate") = 9
  BY DEF Place
<1>2. /\ Sections[1] = "gl_accounts" /\ Sections[2] = "employees" /\ Sections[3] = "suppliers"
      /\ Sections[4] = "customers" /\ Sections[5] = "products" /\ Sections[6] = "contracts"
      /\ Sections[7] = "aliases" /\ Sections[8] = "groups" /\ Sections[9] = "rates"
  BY DEF Sections
<1>3. \A s, k : <<s, k>> \in Holds => Place(k) \in 1 .. 9 /\ s = Sections[Place(k)]
  BY <1>1, <1>2 DEF Holds
<1>4. \A k, n : <<k, n>> \in Names => Place(n) \in 1 .. 9 /\ Place(n) < Place(k)
  BY <1>1 DEF Names
<1> QED
  BY <1>3, <1>4

Parts(file) == [i \in DOMAIN Sections |-> file[Sections[i]]]

LEMMA PartFacts ==
    ASSUME NEW file \in File, NEW i \in 1 .. 9
    PROVE  LET part == Parts(file)[i] IN
           /\ part \in Seq(ToSet(part))
           /\ \A row \in ToSet(part) :
                 /\ Place(row.kind) = i
                 /\ \A ref \in row.needs : Place(ref[1]) \in Int /\ Place(ref[1]) < i
<1> DEFINE part == Parts(file)[i]
<1>1. part = file[Sections[i]] /\ Sections[i] \in ToSet(Sections)
  BY SectionFacts DEF Parts
<1>2. part \in Seq(ToSet(part)) /\ \A row \in ToSet(part) : Fits(Sections[i], row)
  BY <1>1, FileAssumption
<1> HIDE DEF part
<1>3. ASSUME NEW row \in ToSet(part)
      PROVE  /\ Place(row.kind) = i
             /\ \A ref \in row.needs : Place(ref[1]) \in Int /\ Place(ref[1]) < i
  <2>1. <<Sections[i], row.kind>> \in Holds /\ \A ref \in row.needs : <<row.kind, ref[1]>> \in Names
    BY <1>2 DEF Fits
  <2>2. Place(row.kind) \in 1 .. 9 /\ Sections[i] = Sections[Place(row.kind)]
    BY <2>1, LayoutInOrder
  <2>3. Place(row.kind) = i
    BY <2>2, SectionFacts
  <2>4. \A ref \in row.needs : Place(ref[1]) \in 1 .. 9 /\ Place(ref[1]) < Place(row.kind)
    BY <2>1, LayoutInOrder
  <2> QED
    BY <2>3, <2>4
<1> QED
  BY <1>2, <1>3 DEF part

(* Sections are joined one after the other. *)
Joined(done, part) == done \o part

Joining == INSTANCE LeftFold WITH Op <- Joined

LEMMA FlatteningIsLoop ==
    ASSUME NEW seqs, NEW len \in Nat \ {0}, Len(seqs) = len, DOMAIN seqs = 1 .. len,
           NEW S, \A i \in 1 .. len : seqs[i] \in Seq(S)
    PROVE  \E g : /\ g[1] = seqs[1]
                  /\ \A n \in 2 .. len : g[n] = g[n - 1] \o seqs[n]
                  /\ FlattenSeq(seqs) = g[len]
<1> DEFINE Flat(g) == g = [i \in 1 .. len |-> IF i = 1 THEN seqs[i] ELSE g[i - 1] \o seqs[i]]
<1>1. PICK f : Joining!Loop(f, <<>>, seqs, len)
  BY Joining!FoldIsLoop
<1>2. f[1] = seqs[1]
  <2>1. 1 \in 1 .. len /\ 1 - 1 = 0
    OBVIOUS
  <2>2. f[1] = <<>> \o seqs[1] /\ seqs[1] \in Seq(S)
    BY <1>1, <2>1 DEF Joining!Loop, Joined
  <2> QED
    BY <2>2, ConcatEmptySeq
<1>3. \A n \in 1 .. len : f[n] = IF n = 1 THEN seqs[n] ELSE f[n - 1] \o seqs[n]
  BY <1>1, <1>2 DEF Joining!Loop, Joined
<1> DEFINE g == [n \in 1 .. len |-> f[n]]
<1>4. Flat(g)
  <2>1. ASSUME NEW n \in 1 .. len
        PROVE  g[n] = IF n = 1 THEN seqs[n] ELSE g[n - 1] \o seqs[n]
    <3>1. n # 1 => n - 1 \in 1 .. len
      OBVIOUS
    <3> QED
      BY <1>3, <3>1
  <2>2. g = [n \in 1 .. len |-> g[n]]
    OBVIOUS
  <2> HIDE DEF g
  <2> QED
    BY <2>1, <2>2, Zenon
<1> HIDE DEF g
<1> DEFINE h == CHOOSE x : Flat(x)
<1>5. Flat(h)
  <2> HIDE DEF Flat
  <2> QED
    BY <1>4
<1>6. FlattenSeq(seqs) = h[len]
  BY DEF FlattenSeq
<1> HIDE DEF h
<1>7. \A n \in 1 .. len : h[n] = IF n = 1 THEN seqs[n] ELSE h[n - 1] \o seqs[n]
  BY <1>5, Zenon
<1>8. h[1] = seqs[1] /\ \A n \in 2 .. len : h[n] = h[n - 1] \o seqs[n]
  <2>1. 1 \in 1 .. len /\ \A n \in 2 .. len : n \in 1 .. len /\ n # 1
    OBVIOUS
  <2> QED
    BY <1>7, <2>1, Zenon
<1> QED
  BY <1>6, <1>8

SortedTo(rows, k) ==
    /\ \A p \in 1 .. Len(rows) : Place(rows[p].kind) \in 1 .. k
    /\ \A p, q \in 1 .. Len(rows) : p <= q => Place(rows[p].kind) <= Place(rows[q].kind)

LEMMA NextPart ==
    ASSUME NEW S, NEW k \in 1 .. 9, NEW done \in Seq(S), SortedTo(done, k - 1),
           NEW part \in Seq(S), \A p \in 1 .. Len(part) : Place(part[p].kind) = k
    PROVE  done \o part \in Seq(S) /\ SortedTo(done \o part, k)
<1> DEFINE both == done \o part
           m == Len(done)
           n == Len(part)
           at(p) == Place(both[p].kind)
<1>1. m \in Nat /\ n \in Nat
  BY LenProperties
<1>2. both \in Seq(S) /\ Len(both) = m + n
  BY ConcatProperties
<1>3. \A p \in 1 .. m + n : both[p] = IF p <= m THEN done[p] ELSE part[p - m]
  BY ConcatProperties
<1> HIDE DEF both, m, n
<1>4. ASSUME NEW p \in 1 .. m + n
      PROVE  IF p <= m THEN p \in 1 .. m /\ at(p) = Place(done[p].kind) ELSE at(p) = k
  <2>1. CASE p <= m
    BY <1>1, <1>3, <2>1
  <2>2. CASE ~(p <= m)
    <3>1. p - m \in 1 .. n
      BY <1>1, <2>2
    <3> QED
      BY <1>3, <2>2, <3>1 DEF n
  <2> QED
    BY <2>1, <2>2
<1> HIDE DEF at
<1>5. \A p \in 1 .. m : Place(done[p].kind) \in 1 .. k - 1
  BY DEF SortedTo, m
<1>6. \A p, q \in 1 .. m : p <= q => Place(done[p].kind) <= Place(done[q].kind)
  BY DEF SortedTo, m
<1>7. \A p \in 1 .. m + n : at(p) \in 1 .. k
  BY <1>1, <1>4, <1>5
<1>8. ASSUME NEW p \in 1 .. m + n, NEW q \in 1 .. m + n, p <= q
      PROVE  at(p) <= at(q)
  <2>1. CASE q <= m
    BY <1>1, <1>4, <1>6, <1>8, <2>1
  <2>2. CASE ~(q <= m)
    BY <1>4, <1>7, <2>2
  <2> QED
    BY <2>1, <2>2
<1> QED
  BY <1>2, <1>7, <1>8 DEF SortedTo, both, at

LEMMA NamedBefore ==
    ASSUME NEW file \in File, NEW i \in 1 .. Len(Lines[file]), NEW j \in 1 .. Len(Lines[file]),
           NEW ref \in Lines[file][i].needs, Lines[file][j].kind = ref[1]
    PROVE  j < i
<1> DEFINE seqs == Parts(file)
           S == UNION {ToSet(seqs[n]) : n \in 1 .. 9}
<1>1. DOMAIN seqs = 1 .. 9
  BY SectionFacts DEF Parts
<1>2. ASSUME NEW n \in 1 .. 9
      PROVE  /\ seqs[n] \in Seq(S)
             /\ \A p \in 1 .. Len(seqs[n]) : Place(seqs[n][p].kind) = n
  <2>1. ToSet(seqs[n]) \subseteq S
    OBVIOUS
  <2>2. seqs[n] \in Seq(ToSet(seqs[n])) /\ \A row \in ToSet(seqs[n]) : Place(row.kind) = n
    BY PartFacts
  <2> HIDE DEF seqs, S
  <2>3. seqs[n] \in Seq(S)
    BY <2>1, <2>2, SeqMonotonic
  <2>4. \A p \in 1 .. Len(seqs[n]) : seqs[n][p] \in ToSet(seqs[n])
    BY <2>2, ElementOfSeq
  <2> QED
    BY <2>2, <2>3, <2>4
<1>3. \A row \in S : \A r \in row.needs : Place(r[1]) \in Int /\ Place(r[1]) < Place(row.kind)
  <2>1. ASSUME NEW n \in 1 .. 9, NEW row \in ToSet(seqs[n])
        PROVE  \A r \in row.needs : Place(r[1]) \in Int /\ Place(r[1]) < Place(row.kind)
    <3>1. /\ Place(row.kind) = n
          /\ \A r \in row.needs : Place(r[1]) \in Int /\ Place(r[1]) < n
      BY PartFacts
    <3> QED
      BY <3>1
  <2> HIDE DEF seqs
  <2> QED
    BY <2>1
<1>4. Len(seqs) = 9
  <2>1. seqs \in Seq({seqs[n] : n \in 1 .. 9})
    <3>1. seqs = [n \in 1 .. 9 |-> seqs[n]]
      BY <1>1 DEF Parts
    <3> HIDE DEF seqs
    <3> QED
      BY <3>1
  <2> DEFINE m == Len(seqs)
  <2>2. m \in Nat /\ 1 .. m = 1 .. 9
    BY <1>1, <2>1, LenProperties
  <2> HIDE DEF m
  <2>3. \A n : n \in 1 .. m <=> n \in 1 .. 9
    BY <2>2, Zenon
  <2>4. m \in Nat
    BY <2>2
  <2>5. 9 <= m
    <3>1. 9 \in 1 .. m
      BY <2>3
    <3> QED
      BY <2>4, <3>1
  <2>6. m <= 9
    <3>1. m \in 1 .. m
      BY <2>4, <2>5
    <3>2. m \in 1 .. 9
      BY <2>3, <3>1, Zenon
    <3> QED
      BY <3>2
  <2>7. m = 9
    BY <2>4, <2>5, <2>6
  <2> QED
    BY <2>7 DEF m
<1>5. Lines[file] = FlattenSeq(seqs)
  BY DEF Lines, RowsOf, Parts
<1> HIDE DEF seqs, S
<1>6. PICK g : /\ g[1] = seqs[1]
               /\ \A n \in 2 .. 9 : g[n] = g[n - 1] \o seqs[n]
               /\ FlattenSeq(seqs) = g[9]
  <2>1. 9 \in Nat \ {0} /\ \A n \in 1 .. 9 : seqs[n] \in Seq(S)
    BY <1>2
  <2> QED
    BY <1>1, <1>4, <2>1, FlatteningIsLoop, Zenon
<1> DEFINE Good(k) == g[k] \in Seq(S) /\ SortedTo(g[k], k)
<1>7. Good(1)
  BY <1>2, <1>6 DEF SortedTo
<1>8. ASSUME NEW k \in 2 .. 9, Good(k - 1)
      PROVE  Good(k)
  <2>1. k \in 1 .. 9
    OBVIOUS
  <2>2. g[k] = g[k - 1] \o seqs[k]
    BY <1>6, Zenon
  <2>3. g[k - 1] \in Seq(S) /\ SortedTo(g[k - 1], k - 1)
    BY <1>8
  <2>4. seqs[k] \in Seq(S) /\ \A p \in 1 .. Len(seqs[k]) : Place(seqs[k][p].kind) = k
    BY <1>2, <2>1
  <2> QED
    BY <2>1, <2>2, <2>3, <2>4, NextPart, Zenon
<1> HIDE DEF Good
<1>9. Good(9)
  BY <1>7, <1>8
<1>10. Lines[file] \in Seq(S) /\ SortedTo(Lines[file], 9)
  BY <1>5, <1>6, <1>9 DEF Good
<1>11. Lines[file][i] \in S /\ Len(Lines[file]) \in Nat
  BY <1>10, ElementOfSeq, LenProperties
<1> DEFINE a == Place(Lines[file][i].kind)
           b == Place(Lines[file][j].kind)
<1>12. a \in 1 .. 9 /\ b \in 1 .. 9 /\ b < a
  BY <1>3, <1>10, <1>11 DEF SortedTo
<1>13. i <= j => a <= b
  BY <1>10 DEF SortedTo
<1> HIDE DEF a, b
<1> QED
  BY <1>11, <1>12, <1>13

-----------------------------------------------------------------------------
(* A file that is complete and consistent loads. *)

CompleteOn(rows, lines) ==
    \A row \in ToSet(lines) : \A ref \in row.needs : There(rows \union ToSet(lines), ref)

Agrees(known, row) ==
    \A r \in known :
        /\ Same(r, row) => r.fixed = row.fixed
        /\ ~Same(r, row) => ~Overlaps(r, row) /\ ~Taken(r, row)

(* All there is of a row comes from known rows under its key: its id       *)
(* perhaps from another one than the rest.                                 *)
StandsFor(known, r) ==
    /\ \E x \in known : Same(x, r) /\ x.unique = r.unique
    /\ \E x \in known : Same(x, r) /\ x.fixed = r.fixed /\ x.subject = r.subject
                        /\ x.from = r.from /\ x.to = r.to

LEMMA NothingInTheWay ==
    ASSUME NEW known, NEW row, Agrees(known, row), NEW r, StandsFor(known, r)
    PROVE  /\ Same(r, row) => r.fixed = row.fixed
           /\ ~Same(r, row) => ~Taken(r, row) /\ ~Overlaps(r, row)
<1>1. PICK x \in known : Same(x, r) /\ x.unique = r.unique
  BY DEF StandsFor
<1>2. PICK y \in known : Same(y, r) /\ y.fixed = r.fixed /\ y.subject = r.subject
                         /\ y.from = r.from /\ y.to = r.to
  BY DEF StandsFor
<1>3. x.kind = r.kind /\ x.key = r.key /\ y.kind = r.kind /\ y.key = r.key
  BY <1>1, <1>2 DEF Same
<1>4. (Same(x, row) <=> Same(r, row)) /\ (Same(y, row) <=> Same(r, row))
  BY <1>3 DEF Same
<1>5. (Taken(r, row) => Taken(x, row)) /\ (Overlaps(r, row) => Overlaps(y, row))
  BY <1>1, <1>2, <1>3 DEF Taken, Overlaps
<1> QED
  BY <1>1, <1>2, <1>4, <1>5 DEF Agrees

LEMMA NextLoads ==
    ASSUME NEW db, DOMAIN db = {"ok", "rows"}, db.ok = TRUE, NEW row, WellFormed(row),
           NEW known, row \in known, Agrees(known, row),
           \A r \in db.rows : StandsFor(known, r),
           \A ref \in row.needs : There(db.rows, ref)
    PROVE  LET next == LoadRow(db, row) IN
           /\ next.ok = TRUE
           /\ \A r \in next.rows : StandsFor(known, r)
           /\ \E s \in next.rows : Same(s, row)
<1> DEFINE old == {r \in db.rows : Same(r, row)}
           next == LoadRow(db, row)
           new == [db EXCEPT !.rows = (@ \ old) \union Written(old, row)]
<1>1. \A r \in db.rows : /\ Same(r, row) => r.fixed = row.fixed
                         /\ ~Same(r, row) => ~Taken(r, row) /\ ~Overlaps(r, row)
  BY NothingInTheWay
<1>2. ~(~db.ok \/ \E r \in old : r.fixed # row.fixed) /\ ~Refused(db.rows, row)
  BY <1>1 DEF Refused
<1>3. next = IF Stays(old, row) \/ row \in old THEN db ELSE new
  BY <1>2 DEF LoadRow
<1>4. CASE Stays(old, row) \/ row \in old
  <2>1. \E s \in db.rows : Same(s, row)
    BY <1>4 DEF Stays
  <2> QED
    BY <1>3, <1>4, <2>1
<1>5. CASE ~(Stays(old, row) \/ row \in old)
  <2>1. new.ok = TRUE /\ new.rows = (db.rows \ old) \union Written(old, row)
    OBVIOUS
  <2> HIDE DEF new, next
  <2>2. next = new
    BY <1>3, <1>5
  <2>3. \E s \in new.rows : Same(s, row)
    BY <2>1, SomethingWritten, WrittenRow DEF Same
  <2>4. ASSUME NEW s \in Written(old, row)
        PROVE  StandsFor(known, s)
    <3>1. CASE s = row
      BY <3>1 DEF StandsFor, Same
    <3>2. ASSUME NEW q \in old, s = [row EXCEPT !.unique = q.unique]
          PROVE  StandsFor(known, s)
      <4>1. /\ s.kind = row.kind /\ s.key = row.key /\ s.fixed = row.fixed
            /\ s.subject = row.subject /\ s.from = row.from /\ s.to = row.to
            /\ s.unique = q.unique
        BY <3>2 DEF WellFormed, RowFields
      <4>2. PICK x \in known : Same(x, q) /\ x.unique = q.unique
        BY <3>2 DEF StandsFor
      <4>3. Same(x, s)
        BY <4>1, <4>2 DEF Same
      <4> QED
        BY <4>1, <4>2, <4>3 DEF StandsFor, Same
    <3> QED
      BY <3>1, <3>2 DEF Written
  <2> HIDE DEF old
  <2> QED
    BY <2>1, <2>2, <2>3, <2>4 DEF next
<1> QED
  BY <1>4, <1>5

LEMMA CompleteLoads ==
    ASSUME NEW rows, NEW file \in File,
           CompleteOn(rows, Lines[file]),
           \A row \in ToSet(Lines[file]) : Agrees(rows \union ToSet(Lines[file]), row)
    PROVE  LoadFrom(rows, Lines[file]).ok
<1> DEFINE lines == Lines[file]
           base == [ok |-> TRUE, rows |-> rows]
           len == Len(lines)
           known == rows \union ToSet(lines)
<1>1. PICK f : LoadLoop(f, rows, lines)
  BY FileIsLoop
<1> DEFINE Good(k) == /\ f[k].ok = TRUE
                      /\ \A r \in f[k].rows : StandsFor(known, r)
                      /\ \A i \in 1 .. k : \E s \in f[k].rows : Same(s, lines[i])
           Bad == {k \in 0 .. len : ~Good(k)}
<1>2. Loading!Loop(f, base, lines, len) /\ LoadFrom(rows, lines) = f[len]
  BY <1>1 DEF LoadLoop
<1>3. \A k \in 0 .. len : DOMAIN f[k] = {"ok", "rows"} /\ Grown(rows, f[k].rows)
  BY <1>1, LoadingSteps
<1>4. len \in Nat /\ \A i \in 1 .. len : WellFormed(lines[i]) /\ lines[i] \in ToSet(lines)
  BY FileFacts
<1>5. \A i \in 1 .. len : Agrees(known, lines[i])
  BY <1>4
<1>6. \A i, j \in 1 .. len : \A ref \in lines[i].needs : lines[j].kind = ref[1] => j < i
  BY NamedBefore
<1>7. \A i \in 1 .. len : \A ref \in lines[i].needs :
          There(rows, ref) \/ \E j \in 1 .. len : lines[j].kind = ref[1] /\ lines[j].key = ref[2]
  <2>1. \A row : row \in ToSet(lines) <=> \E n \in 1 .. len : row = lines[n]
    BY FileFacts
  <2>2. \A row \in ToSet(lines) : \A ref \in row.needs : There(rows \union ToSet(lines), ref)
    BY DEF CompleteOn
  <2> HIDE DEF lines, len
  <2> SUFFICES ASSUME NEW i \in 1 .. len, NEW ref \in lines[i].needs
               PROVE  There(rows, ref) \/ \E j \in 1 .. len : lines[j].kind = ref[1] /\ lines[j].key = ref[2]
    OBVIOUS
  <2>3. PICK r \in rows \union ToSet(lines) : r.kind = ref[1] /\ r.key = ref[2]
    BY <2>1, <2>2 DEF There
  <2> QED
    BY <2>1, <2>3 DEF There
<1>8. \A r \in known : StandsFor(known, r)
  BY DEF StandsFor, Same
<1>9. rows \subseteq known /\ ToSet(lines) \subseteq known
  OBVIOUS
<1> HIDE DEF lines, len, known
<1>10. Bad = {}
  <2> SUFFICES ASSUME Bad # {} PROVE FALSE
    OBVIOUS
  <2>1. PICK m \in Bad : \A k \in Bad : m <= k
    <3>1. Bad \subseteq Nat
      BY <1>4
    <3> HIDE DEF Bad
    <3> QED
      BY <3>1, Loading!LeastNat
  <2>2. Good(0)
    <3>1. f[0].ok = TRUE /\ f[0].rows = rows /\ 1 .. 0 = {}
      BY <1>2 DEF Loading!Loop
    <3> QED
      BY <1>8, <1>9, <3>1
  <2>3. m \in Nat /\ m \in 1 .. len /\ m - 1 \in 0 .. len /\ m - 1 \notin Bad
    BY <1>4, <2>1, <2>2
  <2>4. Good(m - 1) /\ DOMAIN f[m - 1] = {"ok", "rows"} /\ Grown(rows, f[m - 1].rows)
    BY <1>3, <2>3
  <2>5. f[m] = LoadRow(f[m - 1], lines[m]) /\ WellFormed(lines[m]) /\ lines[m] \in known
    BY <1>2, <1>4, <1>9, <2>3 DEF Loading!Loop
  <2>6. ASSUME NEW ref \in lines[m].needs
        PROVE  There(f[m - 1].rows, ref)
    <3>1. CASE There(rows, ref)
      BY <2>4, <3>1 DEF There, Grown, Same
    <3>2. ASSUME NEW j \in 1 .. len, lines[j].kind = ref[1], lines[j].key = ref[2]
          PROVE  There(f[m - 1].rows, ref)
      <4>1. j \in 1 .. m - 1
        BY <1>4, <1>6, <2>3, <3>2
      <4>2. PICK s \in f[m - 1].rows : Same(s, lines[j])
        BY <2>4, <4>1
      <4> QED
        BY <3>2, <4>2 DEF There, Same
    <3> QED
      BY <1>7, <2>3, <3>1, <3>2
  <2>7. /\ f[m].ok = TRUE
        /\ \A r \in f[m].rows : StandsFor(known, r)
        /\ \E s \in f[m].rows : Same(s, lines[m])
    <3> DEFINE db == f[m - 1]
               row == lines[m]
    <3>1. /\ DOMAIN db = {"ok", "rows"} /\ db.ok = TRUE /\ WellFormed(row)
          /\ row \in known /\ Agrees(known, row)
          /\ \A r \in db.rows : StandsFor(known, r)
          /\ \A ref \in row.needs : There(db.rows, ref)
      BY <1>5, <2>3, <2>4, <2>5, <2>6
    <3>2. f[m] = LoadRow(db, row)
      BY <2>5
    <3> HIDE DEF db, row
    <3>3. /\ LoadRow(db, row).ok = TRUE
          /\ \A r \in LoadRow(db, row).rows : StandsFor(known, r)
          /\ \E s \in LoadRow(db, row).rows : Same(s, row)
      BY <3>1, NextLoads
    <3> QED
      BY <3>2, <3>3 DEF row
  <2>8. Grown(f[m - 1].rows, f[m].rows)
    BY <2>4, <2>5, LoadingOne
  <2>9. ASSUME NEW i \in 1 .. m
        PROVE  \E s \in f[m].rows : Same(s, lines[i])
    <3>1. CASE i = m
      BY <2>7, <3>1
    <3>2. CASE i # m
      <4>1. i \in 1 .. m - 1
        BY <2>3, <3>2
      <4>2. PICK r \in f[m - 1].rows : Same(r, lines[i])
        BY <2>4, <4>1
      <4>3. PICK s \in f[m].rows : Same(s, r)
        BY <2>8 DEF Grown
      <4> QED
        BY <4>2, <4>3 DEF Same
    <3> QED
      BY <3>1, <3>2
  <2> QED
    BY <2>1, <2>7, <2>9
<1>11. Good(len)
  BY <1>4, <1>10
<1>12. LoadFrom(rows, lines).ok
  BY <1>2, <1>11
<1> QED
  BY <1>12 DEF lines

(* A file that is complete and contradicts nothing loads, whatever was     *)
(* loaded before and however many rows it has: every row finds what it     *)
(* needs, because of the order of the kinds in load_master_data.           *)
THEOREM CompleteFilesAreAccepted == XeroSpec => CompleteFilesLoad
<1>1. \A lines \in {Lines[file] : file \in File} :
          LoadFrom(master', lines).ok \/ ~Complete(lines)' \/ ~Consistent(lines)'
  <2> SUFFICES ASSUME NEW file \in File, Complete(Lines[file])', Consistent(Lines[file])'
               PROVE  LoadFrom(master', Lines[file]).ok
    OBVIOUS
  <2>1. CompleteOn(master', Lines[file])
    BY DEF Complete, CompleteOn
  <2>2. \A row \in ToSet(Lines[file]) : Agrees(master' \union ToSet(Lines[file]), row)
    BY DEF Consistent, Agrees
  <2> QED
    BY <2>1, <2>2, CompleteLoads
<1>2. [XeroNext]_all =>
          [master' # master =>
              \A lines \in {Lines[file] : file \in File} :
                 LoadFrom(master', lines).ok \/ ~Complete(lines)' \/ ~Consistent(lines)']_master
  BY <1>1
<1> QED
  BY <1>2, PTL DEF XeroSpec, CompleteFilesLoad

-----------------------------------------------------------------------------
(* The inductive invariant. *)

(* A group is read once, under one name. *)
ReadOnce ==
    fetch # None => \A m, n \in fetch.seen : m[1] \notin fetch.todo /\ (m[1] = n[1] => m[2] = n[2])

SeenBefore ==
    \A c \in Customer : xeroOwner[c] # None =>
        /\ firstSync # None
        /\ xeroOwner[c].since # None => xeroOwner[c].since <= today

(* Xero's answer names an owner who is still here, and has named them      *)
(* since the day it last changed.                                          *)
Named(c, x) ==
    /\ x # None
    /\ x.since # None /\ x.answer.groups = 1
    /\ x.answer.owner \in Employee => Active(x.answer.owner)

(* That one got the account when the answer was seen, or the account       *)
(* passes later, or has passed since.                                      *)
Explained(c) ==
    Named(c, xeroOwner[c]) =>
        \/ ChangesAfter(c, xeroOwner[c].since)
        \/ \A p \in AllocationOn(c, xeroOwner[c].since) :
              p.owner = xeroOwner[c].answer.owner \/ written[c][p.from] # "before"

XeroInv ==
    /\ XeroTypeOK /\ OneOwnerAtATime
    /\ GroupsMapped(master) /\ OneByKey(master)
    /\ ReadOnce /\ SeenBefore
    /\ \A c \in Customer : Explained(c)

-----------------------------------------------------------------------------
(* What Xero answers about a customer. *)

Times == {"before", "at", "after"}

Memberships == Group \X GroupName \X Contact

RowType(x) ==
    x = None \/
        /\ x \in [answer : Answer, since : Day \union {None}]
        /\ (x.answer.groups = 1) = (x.answer.owner # None)

LEMMA AnswerType ==
    ASSUME NEW seen \in SUBSET Memberships,
           \A m, n \in seen : m[1] = n[1] => m[2] = n[2],
           GroupsMapped(master), NEW c, NEW ids
    PROVE  LET answer == AnswerOf(c, seen, ids) IN
           answer \in Answer /\ (answer.groups = 1) = (answer.owner # None)
<1> DEFINE rows == {m \in seen : m[3] = XeroContactOf(c) /\ \E r \in OwnerGroups : ids[r.key] = m[1]}
           answer == AnswerOf(c, seen, ids)
           f == [m \in rows |-> m[1]]
<1> SUFFICES answer \in Answer /\ (answer.groups = 1) = (answer.owner # None)
  OBVIOUS
<1>1. /\ answer.owner = IF Cardinality(rows) # 1 THEN None
                        ELSE (CHOOSE r \in OwnerGroups : \E m \in rows : ids[r.key] = m[1]).value
      /\ answer.groups = Cardinality(rows)
      /\ answer.names = {m[2] : m \in rows}
      /\ answer = [owner |-> answer.owner, groups |-> answer.groups, names |-> answer.names]
  BY DEF AnswerOf
<1> HIDE DEF answer
<1>2. ASSUME NEW m \in rows, NEW n \in rows, m[1] = n[1]
      PROVE  m = n
  <2>1. m[2] = n[2] /\ m[3] = n[3]
    BY <1>2
  <2>2. m = <<m[1], m[2], m[3]>> /\ n = <<n[1], n[2], n[3]>>
    BY DEF Memberships
  <2> QED
    BY <1>2, <2>1, <2>2
<1>3. \A m \in rows : m[1] \in Group /\ m[2] \in GroupName
  BY DEF Memberships
<1>4. f \in Injection(rows, Group)
  BY <1>2, <1>3 DEF Injection, IsInjective
<1>5. IsFiniteSet(rows) /\ Cardinality(rows) \in 0 .. Cardinality(Group)
  <2>1. IsFiniteSet(rows) /\ Cardinality(rows) <= Cardinality(Group)
    BY <1>4, FS_Injection, XeroAssumption
  <2>2. Cardinality(rows) \in Nat /\ Cardinality(Group) \in Nat
    BY <2>1, FS_CardinalityType, XeroAssumption
  <2> QED
    BY <2>1, <2>2
<1>6. CASE Cardinality(rows) = 1
  <2>1. PICK m : rows = {m}
    BY <1>5, <1>6, FS_Singleton
  <2>2. \E r \in OwnerGroups : \E n \in rows : ids[r.key] = n[1]
    BY <2>1
  <2>3. \A r \in OwnerGroups : r.value \in Owner
    BY DEF OwnerGroups, GroupsMapped
  <2>4. answer.owner \in Owner
    BY <1>1, <1>6, <2>2, <2>3
  <2> QED
    BY <1>1, <1>3, <1>5, <1>6, <2>4, OwnerAssumption DEF Answer
<1>7. CASE Cardinality(rows) # 1
  BY <1>1, <1>3, <1>5, <1>7 DEF Answer
<1> QED
  BY <1>6, <1>7

LEMMA RefreshedType ==
    ASSUME NEW c, RowType(xeroOwner[c]), today \in Day,
           NEW answer \in Answer, (answer.groups = 1) = (answer.owner # None)
    PROVE  RowType(RefreshedRow(c, answer))
<1>1. CASE XeroContactOf(c) = None
  BY <1>1 DEF RefreshedRow
<1>2. CASE XeroContactOf(c) # None
  <2> DEFINE since == IF SaysNew(c, answer) THEN today
                      ELSE IF xeroOwner[c] = None THEN None ELSE xeroOwner[c].since
  <2>1. RefreshedRow(c, answer) = [answer |-> answer, since |-> since]
    BY <1>2 DEF RefreshedRow
  <2>2. since \in Day \union {None}
    BY DEF RowType
  <2> HIDE DEF since
  <2> QED
    BY <2>1, <2>2 DEF RowType
<1> QED
  BY <1>1, <1>2

-----------------------------------------------------------------------------
(* A sync, customer by customer. *)

OfCustomer(Q, c) == {p \in Q : p.customer = c}

NextRow(ids, c) == RefreshedRow(c, AnswerOf(c, fetch.seen, ids))

(* When c's periods were written, as far as the sync tells. *)
Timed(ids, c) == WrittenBefore(c, AnswerOf(c, fetch.seen, ids))

Adopts(adoptXero, ids, c) ==
    \/ XeroChanged(c, NextRow(ids, c), Timed(ids, c))
    \/ adoptXero /\ Differs(c, NextRow(ids, c), Timed(ids, c))

(* The sync gives c to the owner x, from the day x was first seen on. *)
GivesTo(adoptXero, ids, c, x) ==
    Adopts(adoptXero, ids, c) /\ Passes(c, x.answer.owner, SeenOn(x))

SyncOf(adoptXero, ids, c) ==
    LET x == NextRow(ids, c) IN
    /\ xeroOwner'[c] = x
    /\ OfCustomer(periods', c) =
          OfCustomer(IF GivesTo(adoptXero, ids, c, x)
                     THEN PassedTo(c, x.answer.owner, SeenOn(x)) ELSE periods, c)
    /\ \A d \in Day :
          IF \E p \in periods' \ periods : p.customer = c /\ p.from = d
          THEN written'[c][d] \in {"at", "after"}
          ELSE written'[c][d] = Timed(ids, c)[d]

LEMMA SyncByCustomer ==
    ASSUME NEW adoptXero, SyncXeroGroups(adoptXero)
    PROVE  \E ids \in IdsFrom(fetch.seen) :
              /\ ~Clash(ids)
              /\ groupId' = ids
              /\ xeroOwner' = [c \in Customer |-> NextRow(ids, c)]
              /\ written' = [c \in Customer |-> [d \in Day |-> written'[c][d]]]
              /\ \A p \in periods' : p.customer \in Customer
              /\ \A r \in review' : r \in review \/ \E c \in Customer :
                    Adopts(adoptXero, ids, c) /\ r = <<c, SeenOn(NextRow(ids, c))>>
              /\ \A c \in Customer : SyncOf(adoptXero, ids, c)
<1>1. PICK ids \in IdsFrom(fetch.seen) :
          LET answer == [c \in Customer |-> AnswerOf(c, fetch.seen, ids)]
              row == [c \in Customer |-> RefreshedRow(c, answer[c])]
              before == [c \in Customer |-> WrittenBefore(c, answer[c])]
              adopted == {c \in Customer :
                  \/ XeroChanged(c, row[c], before[c])
                  \/ adoptXero /\ Differs(c, row[c], before[c])}
          IN /\ ~Clash(ids)
             /\ groupId' = ids
             /\ xeroOwner' = row
             /\ Adopt(adopted, row)
             /\ Stamp(before, [c \in Customer |-> IF Restarts(c, answer[c]) THEN "at" ELSE "after"])
  BY DEF SyncXeroGroups
<1> DEFINE answer == [c \in Customer |-> AnswerOf(c, fetch.seen, ids)]
           row == [c \in Customer |-> RefreshedRow(c, answer[c])]
           before == [c \in Customer |-> WrittenBefore(c, answer[c])]
           adopted == {c \in Customer :
               \/ XeroChanged(c, row[c], before[c])
               \/ adoptXero /\ Differs(c, row[c], before[c])}
           time == [c \in Customer |-> IF Restarts(c, answer[c]) THEN "at" ELSE "after"]
<1>2. \A c \in Customer : row[c] = NextRow(ids, c) /\ before[c] = Timed(ids, c)
  BY DEF NextRow, Timed
<1>3. adopted = {c \in Customer : Adopts(adoptXero, ids, c)}
  BY <1>2 DEF Adopts
<1>4. row = [c \in Customer |-> NextRow(ids, c)]
  BY <1>2
<1>5. \A c \in Customer : time[c] \in {"at", "after"}
  OBVIOUS
<1>6. /\ ~Clash(ids) /\ groupId' = ids /\ xeroOwner' = row
      /\ Adopt(adopted, row) /\ Stamp(before, time)
  BY <1>1
<1> HIDE DEF answer, row, before, adopted, time
<1>7. written' = [c \in Customer |-> [d \in Day |-> written'[c][d]]]
  BY <1>6 DEF Stamp
<1>8. \A p \in periods' : p.customer \in Customer
  BY <1>6 DEF Adopt, PeriodsOf
<1>9. \A r \in review' : r \in review \/ \E c \in Customer :
          Adopts(adoptXero, ids, c) /\ r = <<c, SeenOn(NextRow(ids, c))>>
  BY <1>2, <1>3, <1>6 DEF Adopt
<1>10. ASSUME NEW c \in Customer
       PROVE  SyncOf(adoptXero, ids, c)
  <2>1. OfCustomer(periods', c) = PeriodsOf(c, adopted, row)
    BY <1>6 DEF Adopt, PeriodsOf, OfCustomer
  <2>2. PeriodsOf(c, adopted, row) =
            OfCustomer(IF GivesTo(adoptXero, ids, c, NextRow(ids, c))
                       THEN PassedTo(c, NextRow(ids, c).answer.owner, SeenOn(NextRow(ids, c)))
                       ELSE periods, c)
    BY <1>2, <1>3 DEF PeriodsOf, OfCustomer, GivesTo
  <2>3. ASSUME NEW d \in Day
        PROVE  IF \E p \in periods' \ periods : p.customer = c /\ p.from = d
               THEN written'[c][d] \in {"at", "after"}
               ELSE written'[c][d] = Timed(ids, c)[d]
    BY <1>2, <1>5, <1>6 DEF Stamp
  <2> QED
    BY <1>2, <1>6, <2>1, <2>2, <2>3 DEF SyncOf
<1> QED
  BY <1>4, <1>6, <1>7, <1>8, <1>9, <1>10

LEMMA NextRowType ==
    ASSUME XeroTypeOK, GroupsMapped(master), ReadOnce, fetch # None, NEW c \in Customer, NEW ids
    PROVE  RowType(NextRow(ids, c)) /\ Timed(ids, c) \in [Day -> Times]
<1> DEFINE answer == AnswerOf(c, fetch.seen, ids)
<1>1. fetch.seen \in SUBSET Memberships /\ \A m, n \in fetch.seen : m[1] = n[1] => m[2] = n[2]
  BY DEF XeroTypeOK, ReadOnce, Memberships
<1>2. answer \in Answer /\ (answer.groups = 1) = (answer.owner # None)
  BY <1>1, AnswerType
<1> HIDE DEF answer
<1>3. RowType(xeroOwner[c]) /\ today \in Day
  BY DEF XeroTypeOK, RowType
<1>4. RowType(RefreshedRow(c, answer))
  BY <1>2, <1>3, RefreshedType
<1>5. WrittenBefore(c, answer) \in [Day -> Times]
  BY DEF WrittenBefore, XeroTypeOK, Times
<1> QED
  BY <1>4, <1>5 DEF NextRow, Timed, answer

(* An owner the sync adopts is one owner, still here, and another than the *)
(* one of today.                                                           *)
LEMMA AdoptedOwner ==
    ASSUME XeroTypeOK, GroupsMapped(master), ReadOnce, fetch # None,
           NEW c \in Customer, NEW ids, NEW adoptXero, Adopts(adoptXero, ids, c)
    PROVE  LET x == NextRow(ids, c) IN
           /\ XeroContactOf(c) # None /\ x # None /\ x.answer.groups = 1
           /\ x.answer.owner \in Owner
           /\ x.answer.owner \in Employee => Active(x.answer.owner)
           /\ \A p \in AllocationOn(c, today) : p.owner # x.answer.owner
           /\ SeenOn(x) \in Day
<1> DEFINE x == NextRow(ids, c)
<1>1. Disagree(c, x)
  BY DEF Adopts, XeroChanged, Differs
<1>2. RowType(x)
  BY NextRowType
<1> HIDE DEF x
<1>3. /\ XeroContactOf(c) # None /\ x # None /\ x.answer.groups = 1
      /\ x.answer.owner \in Employee => Active(x.answer.owner)
      /\ \A p \in AllocationOn(c, today) : p.owner # x.answer.owner
  BY <1>1 DEF Disagree
<1>4. x.answer \in Answer /\ x.answer.owner # None /\ x.since \in Day \union {None}
  BY <1>2, <1>3 DEF RowType
<1>5. x.answer.owner \in Owner
  BY <1>4 DEF Answer
<1>6. SeenOn(x) \in Day
  BY <1>4 DEF SeenOn, XeroTypeOK
<1> QED
  BY <1>3, <1>5, <1>6 DEF x

(* What happens to c's periods: nothing, or the account passes to somebody *)
(* who is still here, and nobody comes after.                              *)
Given(c, w, d) ==
    /\ w \in Employee => Active(w)
    /\ ~ChangesAfter(c, d)
    /\ OfCustomer(periods', c) = OfCustomer(PassedTo(c, w, d), c)

LEMMA SyncGives ==
    ASSUME XeroTypeOK, GroupsMapped(master), ReadOnce, NEW adoptXero, SyncXeroGroups(adoptXero),
           NEW c \in Customer
    PROVE  \/ OfCustomer(periods', c) = OfCustomer(periods, c)
           \/ \E w \in Owner, d \in Day : Given(c, w, d)
<1>1. fetch # None
  BY DEF SyncXeroGroups
<1>2. PICK ids \in IdsFrom(fetch.seen) : SyncOf(adoptXero, ids, c)
  BY SyncByCustomer
<1> DEFINE x == NextRow(ids, c)
<1>3. CASE GivesTo(adoptXero, ids, c, x)
  <2>1. /\ x.answer.owner \in Owner /\ SeenOn(x) \in Day
        /\ x.answer.owner \in Employee => Active(x.answer.owner)
    BY <1>1, <1>3, AdoptedOwner DEF GivesTo
  <2>2. Given(c, x.answer.owner, SeenOn(x))
    BY <1>2, <1>3, <2>1 DEF SyncOf, GivesTo, Passes, Given
  <2> QED
    BY <2>1, <2>2
<1>4. CASE ~GivesTo(adoptXero, ids, c, x)
  BY <1>2, <1>4 DEF SyncOf
<1> QED
  BY <1>3, <1>4

LEMMA GivenPeriods ==
    ASSUME XeroTypeOK, GroupsMapped(master), ReadOnce, OneOwnerAtATime,
           NEW adoptXero, SyncXeroGroups(adoptXero), NEW c \in Customer,
           NEW p \in periods', p.customer = c
    PROVE  /\ p \in Period
           /\ \A q \in periods' : q.customer = c /\ p # q => Apart(p, q)
<1>1. TypeOK
  BY DEF XeroTypeOK
<1>2. p \in OfCustomer(periods', c) /\ \A q \in periods' : q.customer = c => q \in OfCustomer(periods', c)
  BY DEF OfCustomer
<1>3. CASE OfCustomer(periods', c) = OfCustomer(periods, c)
  BY <1>1, <1>2, <1>3 DEF OfCustomer, OneOwnerAtATime, Apart, TypeOK
<1>4. ASSUME NEW w \in Owner, NEW d \in Day, Given(c, w, d)
      PROVE  /\ p \in Period
             /\ \A q \in periods' : q.customer = c /\ p # q => Apart(p, q)
  BY <1>1, <1>2, <1>4, PassedToType, PassedToApart DEF Given, OfCustomer
<1> QED
  BY <1>3, <1>4, SyncGives

LEMMA SyncOneOwner ==
    ASSUME XeroInv, NEW adoptXero, SyncXeroGroups(adoptXero)
    PROVE  periods' \subseteq Period /\ OneOwnerAtATime'
<1>1. \A p \in periods' : p.customer \in Customer
  BY SyncByCustomer
<1> QED
  BY <1>1, GivenPeriods DEF XeroInv, OneOwnerAtATime, Apart

LEMMA SyncType ==
    ASSUME XeroInv, NEW adoptXero, SyncXeroGroups(adoptXero)
    PROVE  XeroTypeOK'
<1>1. fetch # None /\ XeroTypeOK /\ GroupsMapped(master) /\ ReadOnce
  BY DEF SyncXeroGroups, XeroInv
<1>2. PICK ids \in IdsFrom(fetch.seen) :
          /\ ~Clash(ids)
          /\ groupId' = ids
          /\ xeroOwner' = [c \in Customer |-> NextRow(ids, c)]
          /\ written' = [c \in Customer |-> [d \in Day |-> written'[c][d]]]
          /\ \A r \in review' : r \in review \/ \E c \in Customer :
                Adopts(adoptXero, ids, c) /\ r = <<c, SeenOn(NextRow(ids, c))>>
          /\ \A c \in Customer : SyncOf(adoptXero, ids, c)
  BY SyncByCustomer
<1>3. TypeOK'
  <2>1. review' \subseteq Customer \X Day
    BY <1>1, <1>2, AdoptedOwner DEF XeroTypeOK, TypeOK
  <2>2. UNCHANGED <<left, absences>> /\ TypeOK
    BY <1>1 DEF SyncXeroGroups, XeroTypeOK
  <2> QED
    BY <2>1, <2>2, SyncOneOwner DEF TypeOK
<1>4. /\ groupId' \in [GroupName -> Group \union {None}]
      /\ \A n, m \in GroupName : n # m /\ groupId'[n] # None => groupId'[n] # groupId'[m]
  BY <1>2 DEF IdsFrom, Clash
<1>5. \A c \in Customer : RowType(xeroOwner'[c])
  BY <1>1, <1>2, NextRowType
<1>6. written' \in [Customer -> [Day -> Times]]
  <2> SUFFICES ASSUME NEW c \in Customer, NEW d \in Day
               PROVE  written'[c][d] \in Times
    BY <1>2
  <2>1. Timed(ids, c) \in [Day -> Times]
    BY <1>1, NextRowType
  <2>2. SyncOf(adoptXero, ids, c)
    BY <1>2
  <2>3. CASE \E p \in periods' \ periods : p.customer = c /\ p.from = d
    BY <2>2, <2>3 DEF SyncOf, Times
  <2>4. CASE ~\E p \in periods' \ periods : p.customer = c /\ p.from = d
    BY <2>1, <2>2, <2>4 DEF SyncOf
  <2> QED
    BY <2>3, <2>4
<1>7. /\ UNCHANGED <<member, groupName, today>> /\ fetch' = None
      /\ firstSync' = IF firstSync = None THEN today ELSE firstSync
  BY DEF SyncXeroGroups, xero
<1> QED
  BY <1>1, <1>3, <1>4, <1>5, <1>6, <1>7 DEF XeroTypeOK, RowType, Times

-----------------------------------------------------------------------------
(* Why the owner Xero names is the owner, or is not. *)

(* Who gets the account from day d on owns it on that day. *)
LEMMA PassedOwner ==
    ASSUME TypeOK, OneOwnerAtATime, NEW c \in Customer, NEW w \in Owner, NEW d \in Day,
           NEW p \in PassedTo(c, w, d), p.customer = c, Covers(p, d)
    PROVE  p.owner = w
<1> DEFINE old == AllocationOn(c, d)
<1>1. ASSUME NEW q \in old
      PROVE  q \in Period /\ q.from \in Int /\ q.to \in Int
  BY PeriodFacts DEF AllocationOn, TypeOK
<1>2. d \in Int
  BY DEF Day
<1>3. CASE p \in periods \ old
  BY <1>3 DEF AllocationOn
<1>4. CASE \E q \in old : p = [q EXCEPT !.owner = w]
  BY <1>1, <1>4 DEF Period
<1>5. CASE \E q \in old : p = [q EXCEPT !.to = d - 1]
  BY <1>1, <1>2, <1>5 DEF Covers, Period
<1>6. CASE p = [customer |-> c, owner |-> w, from |-> d, to |-> Forever]
  BY <1>6
<1> QED
  BY <1>3, <1>4, <1>5, <1>6 DEF PassedTo

(* The answer is the one of the last sync: so is the row, and the periods  *)
(* have the times they had.                                                *)
LEMMA SameAnswer ==
    ASSUME XeroTypeOK, SeenBefore, NEW c \in Customer, xeroOwner[c] # None, NEW ids,
           XeroContactOf(c) = None \/ NextRow(ids, c).answer = xeroOwner[c].answer
    PROVE  NextRow(ids, c) = xeroOwner[c] /\ Timed(ids, c) = written[c]
<1> DEFINE answer == AnswerOf(c, fetch.seen, ids)
<1>1. firstSync # None
  BY DEF SeenBefore
<1>2. xeroOwner[c] = [answer |-> xeroOwner[c].answer, since |-> xeroOwner[c].since]
  BY DEF XeroTypeOK
<1> HIDE DEF answer
<1>3. CASE XeroContactOf(c) = None
  BY <1>1, <1>3 DEF NextRow, Timed, RefreshedRow, WrittenBefore, Restarts
<1>4. CASE XeroContactOf(c) # None /\ NextRow(ids, c).answer = xeroOwner[c].answer
  <2>1. NextRow(ids, c).answer = answer
    BY <1>4 DEF NextRow, RefreshedRow, answer
  <2>2. ~SaysNew(c, answer)
    BY <1>4, <2>1 DEF SaysNew
  <2>3. RefreshedRow(c, answer) = [answer |-> xeroOwner[c].answer, since |-> xeroOwner[c].since]
    BY <1>4, <2>1, <2>2 DEF RefreshedRow
  <2>4. WrittenBefore(c, answer) = written[c]
    BY <1>1, <2>2 DEF WrittenBefore, Restarts
  <2> QED
    BY <1>2, <2>3, <2>4 DEF NextRow, Timed, answer
<1> QED
  BY <1>3, <1>4

(* A new answer is dated today, and every period counts as older.          *)
LEMMA NewAnswer ==
    ASSUME XeroTypeOK, SeenBefore, NEW c \in Customer, NEW ids,
           NextRow(ids, c) # None, NextRow(ids, c).since # None,
           xeroOwner[c] = None \/ NextRow(ids, c) # xeroOwner[c]
    PROVE  /\ XeroContactOf(c) # None
           /\ NextRow(ids, c).since = today
           /\ \A d \in Day : Timed(ids, c)[d] = "before"
<1> DEFINE answer == AnswerOf(c, fetch.seen, ids)
<1>1. XeroContactOf(c) # None
  BY DEF NextRow, RefreshedRow
<1>2. NextRow(ids, c) = RefreshedRow(c, answer) /\ Timed(ids, c) = WrittenBefore(c, answer)
  BY DEF NextRow, Timed
<1> HIDE DEF answer
<1>3. SaysNew(c, answer)
  <2> SUFFICES ASSUME ~SaysNew(c, answer)
               PROVE  FALSE
    OBVIOUS
  <2>1. xeroOwner[c] # None
    BY <1>1, <1>2 DEF RefreshedRow
  <2>2. NextRow(ids, c).answer = xeroOwner[c].answer
    BY <1>1, <1>2, <2>1 DEF RefreshedRow, SaysNew
  <2> QED
    BY <2>1, <2>2, SameAnswer
<1> QED
  BY <1>1, <1>2, <1>3 DEF RefreshedRow, WrittenBefore, Restarts

LEMMA SyncExplains ==
    ASSUME XeroInv, NEW adoptXero, SyncXeroGroups(adoptXero), NEW c \in Customer
    PROVE  Explained(c)'
<1>1. /\ XeroTypeOK /\ TypeOK /\ OneOwnerAtATime /\ GroupsMapped(master)
      /\ ReadOnce /\ SeenBefore /\ Explained(c) /\ fetch # None
  BY DEF XeroInv, XeroTypeOK, SyncXeroGroups
<1>2. PICK ids \in IdsFrom(fetch.seen) : SyncOf(adoptXero, ids, c)
  BY SyncByCustomer
<1> DEFINE x == NextRow(ids, c)
<1>3. xeroOwner'[c] = x /\ RowType(x)
  BY <1>1, <1>2, NextRowType DEF SyncOf
<1>4. UNCHANGED left
  BY DEF SyncXeroGroups
<1> SUFFICES ASSUME Named(c, x)
             PROVE  \/ \E p \in periods' : p.customer = c /\ p.from > x.since
                    \/ \A p \in periods' : p.customer = c /\ Covers(p, x.since) =>
                          p.owner = x.answer.owner \/ written'[c][p.from] # "before"
  <2>1. Named(c, xeroOwner[c])' => Named(c, x)
    BY <1>3, <1>4 DEF Named, Active
  <2> QED
    BY <1>3, <2>1 DEF Explained, ChangesAfter, AllocationOn, Covers
<1> HIDE DEF x
<1>5. /\ x # None /\ x.since \in Day /\ x.since # None /\ x.answer.groups = 1
      /\ x.answer.owner \in Owner /\ SeenOn(x) = x.since
      /\ x.answer.owner \in Employee => Active(x.answer.owner)
  BY <1>3 DEF Named, RowType, Answer, SeenOn
<1>6. CASE GivesTo(adoptXero, ids, c, x)
  <2>1. OfCustomer(periods', c) = OfCustomer(PassedTo(c, x.answer.owner, x.since), c)
    BY <1>2, <1>5, <1>6 DEF SyncOf, x
  <2> QED
    BY <1>1, <1>5, <2>1, PassedOwner DEF OfCustomer
<1>7. CASE ~GivesTo(adoptXero, ids, c, x)
  <2>1. OfCustomer(periods', c) = OfCustomer(periods, c)
    BY <1>2, <1>7 DEF SyncOf, x
  <2>2. \A p : p \in periods' /\ p.customer = c <=> p \in periods /\ p.customer = c
    BY <2>1 DEF OfCustomer
  <2>3. ASSUME NEW p \in periods', p.customer = c
        PROVE  written'[c][p.from] = Timed(ids, c)[p.from]
    <3>1. p.from \in Day
      BY <1>1, <2>2, <2>3, PeriodFacts DEF TypeOK
    <3> QED
      BY <1>2, <2>2, <3>1 DEF SyncOf
  <2>4. CASE xeroOwner[c] # None /\ x = xeroOwner[c]
    <3>1. Timed(ids, c) = written[c] /\ Named(c, xeroOwner[c])
      BY <1>1, <2>4, SameAnswer DEF x
    <3>2. \/ \E p \in periods : p.customer = c /\ p.from > x.since
          \/ \A p \in periods : p.customer = c /\ Covers(p, x.since) =>
                p.owner = x.answer.owner \/ written[c][p.from] # "before"
      BY <1>1, <2>4, <3>1 DEF Explained, ChangesAfter, AllocationOn
    <3> QED
      BY <2>2, <2>3, <3>1, <3>2
  <2>5. CASE xeroOwner[c] = None \/ x # xeroOwner[c]
    <3>1. /\ XeroContactOf(c) # None /\ x.since = today
          /\ \A d \in Day : Timed(ids, c)[d] = "before"
      BY <1>1, <1>5, <2>5, NewAnswer DEF x
    <3>2. CASE Disagree(c, x)
      <4>1. \A p \in AllocationOn(c, today) : Timed(ids, c)[p.from] = "before"
        BY <1>1, <3>1, PeriodFacts DEF AllocationOn, TypeOK
      <4>2. Adopts(adoptXero, ids, c)
        BY <1>5, <3>2, <4>1 DEF Adopts, XeroChanged, x
      <4>3. ChangesAfter(c, today)
        BY <1>5, <1>7, <3>1, <3>2, <4>2 DEF GivesTo, Passes, Disagree
      <4> QED
        BY <2>2, <3>1, <4>3 DEF ChangesAfter
    <3>3. CASE ~Disagree(c, x)
      <4>1. PICK p \in AllocationOn(c, today) : p.owner = x.answer.owner
        BY <1>5, <3>1, <3>3 DEF Disagree
      <4>2. ASSUME NEW q \in periods, q.customer = c, Covers(q, today)
            PROVE  q = p
        <5>1. /\ p \in periods /\ p.customer = c /\ Covers(p, today)
              /\ p \in Period /\ q \in Period
          BY <1>1 DEF AllocationOn, TypeOK
        <5>2. p.from \in Int /\ p.to \in Int /\ q.from \in Int /\ q.to \in Int /\ today \in Int
          BY <1>1, <5>1, PeriodFacts DEF XeroTypeOK, Day
        <5> QED
          BY <1>1, <4>2, <5>1, <5>2 DEF OneOwnerAtATime, Covers
      <4> QED
        BY <2>2, <3>1, <4>1, <4>2
    <3> QED
      BY <3>2, <3>3
  <2> QED
    BY <2>4, <2>5
<1> QED
  BY <1>6, <1>7

-----------------------------------------------------------------------------
(* The other commands: their steps are steps of Ownership, or leave the    *)
(* accounts alone.                                                         *)

LEMMA OwnersChangeIsNext ==
    ASSUME XeroTypeOK, OwnersChange
    PROVE  Next
<1>1. 1 .. today \subseteq Day
  BY OwnerAssumption DEF XeroTypeOK, Day
<1>2. CASE \E c \in Customer, e \in Employee, d \in 1 .. today : TakeAccountForOrder(c, e, d, None)
  BY <1>1, <1>2 DEF Next
<1>3. CASE \E c \in Customer, e \in Employee, d \in Day : AllocateAccount(c, e, d)
  BY <1>3 DEF Next
<1>4. CASE \E e \in Employee, d \in Day : EmployeeLeaves(e, d)
  BY <1>4 DEF Next
<1> QED
  BY <1>2, <1>3, <1>4 DEF OwnersChange

LEMMA NextOrSync ==
    ASSUME XeroTypeOK, [XeroNext]_all
    PROVE  [Next]_vars \/ \E adoptXero : SyncXeroGroups(adoptXero)
<1>1. CASE OwnersChange
  BY <1>1, OwnersChangeIsNext
<1>2. CASE ~OwnersChange /\ ~\E adoptXero : SyncXeroGroups(adoptXero)
  BY <1>2 DEF XeroNext, all, DailySync, MoveContact, NameGroup, DeleteGroup, StartFetch,
              FetchGroup, FetchFails, SyncFails, LoadFile, NextDay
<1> QED
  BY <1>1, <1>2

LEMMA StartKept ==
    ASSUME NEW c, NEW w, NEW d, NEW p \in periods, p \in Period
    PROVE  \E q \in PassedTo(c, w, d) : q.customer = p.customer /\ q.from = p.from
<1> DEFINE moved == [p EXCEPT !.owner = w]
           cut == [p EXCEPT !.to = d - 1]
<1>1. moved.customer = p.customer /\ moved.from = p.from /\ cut.customer = p.customer /\ cut.from = p.from
  BY DEF Period
<1>2. p \in PassedTo(c, w, d) \/ moved \in PassedTo(c, w, d) \/ cut \in PassedTo(c, w, d)
  BY DEF PassedTo
<1> QED
  BY <1>1, <1>2

LEMMA VacatedStart ==
    ASSUME NEW e, NEW last, NEW p \in periods, p \in Period
    PROVE  \E q \in Vacated(periods, e, last) : q.customer = p.customer /\ q.from = p.from
<1> DEFINE moved == [p EXCEPT !.owner = Heir(periods, e, last, p)]
           cut == [p EXCEPT !.to = last]
<1>1. moved.customer = p.customer /\ moved.from = p.from /\ cut.customer = p.customer /\ cut.from = p.from
  BY DEF Period
<1>2. p \in Vacated(periods, e, last) \/ moved \in Vacated(periods, e, last) \/ cut \in Vacated(periods, e, last)
  BY DEF Vacated
<1> QED
  BY <1>1, <1>2

(* No day stops being one on which an account changes hands. *)
LEMMA StartsStay ==
    ASSUME TypeOK, OwnersChange, NEW p \in periods
    PROVE  \E q \in periods' : q.customer = p.customer /\ q.from = p.from
<1>1. p \in Period
  BY DEF TypeOK
<1>2. CASE UNCHANGED periods
  BY <1>2
<1>3. CASE \E c, w, d : periods' = PassedTo(c, w, d)
  BY <1>1, <1>3, StartKept
<1>4. CASE \E e, d : periods' = Vacated(periods, e, d)
  BY <1>1, <1>4, VacatedStart
<1> QED
  BY <1>2, <1>3, <1>4 DEF OwnersChange, TakeAccountForOrder, PassAccount, AllocateAccount,
                          EmployeeLeaves

LEMMA OwnersChangeExplains ==
    ASSUME XeroTypeOK, OwnersChange, NEW c \in Customer, Explained(c), TypeOK'
    PROVE  Explained(c)'
<1> DEFINE x == xeroOwner[c]
<1>1. x' = x
  BY DEF OwnersChange, synced
<1>2. \A e \in Employee : left'[e] = None => left[e] = None
  <2>1. CASE UNCHANGED left
    BY <2>1
  <2>2. CASE \E e \in Employee, d \in Day : left' = [left EXCEPT ![e] = d]
    BY <2>2, OwnerAssumption DEF XeroTypeOK, TypeOK, Day
  <2> QED
    BY <2>1, <2>2 DEF OwnersChange, TakeAccountForOrder, AllocateAccount, EmployeeLeaves
<1>3. Named(c, x)' => Named(c, x)
  BY <1>1, <1>2 DEF Named, Active
<1> SUFFICES ASSUME Named(c, x)
             PROVE  \/ \E p \in periods' : p.customer = c /\ p.from > x.since
                    \/ \A p \in periods' : p.customer = c /\ Covers(p, x.since) =>
                          p.owner = x.answer.owner \/ written'[c][p.from] # "before"
  BY <1>1, <1>3 DEF Explained, ChangesAfter, AllocationOn, Covers
<1>4. CASE ChangesAfter(c, x.since)
  BY <1>4, StartsStay DEF ChangesAfter, XeroTypeOK
<1>5. CASE ~ChangesAfter(c, x.since)
  <2> SUFFICES ASSUME NEW p \in periods', p.customer = c, Covers(p, x.since)
               PROVE  p.owner = x.answer.owner \/ written'[c][p.from] # "before"
    OBVIOUS
  <2>1. p.from \in Day
    BY PeriodFacts DEF TypeOK
  <2>2. written'[c][p.from] = IF \E q \in periods' \ periods : q.customer = c /\ q.from = p.from
                              THEN "after" ELSE written[c][p.from]
    BY <2>1 DEF OwnersChange, Stamp
  <2>3. CASE p \in periods
    <3>1. p.owner = x.answer.owner \/ written[c][p.from] # "before"
      BY <1>5, <2>3 DEF Explained, AllocationOn
    <3> QED
      BY <2>2, <3>1
  <2>4. CASE p \notin periods
    BY <2>2, <2>4
  <2> QED
    BY <2>3, <2>4
<1> QED
  BY <1>4, <1>5

LEMMA StampType ==
    ASSUME written \in [Customer -> [Day -> Times]], NEW time,
           \A c \in Customer : time[c] \in Times, Stamp(written, time)
    PROVE  written' \in [Customer -> [Day -> Times]]
BY DEF Stamp

LEMMA OwnersChangeType ==
    ASSUME XeroTypeOK, OwnersChange
    PROVE  XeroTypeOK'
<1>1. TypeOK'
  BY OwnersChangeIsNext, NextType DEF XeroTypeOK
<1>2. written' \in [Customer -> [Day -> Times]]
  BY StampType DEF OwnersChange, XeroTypeOK, Times
<1> QED
  BY <1>1, <1>2 DEF OwnersChange, XeroTypeOK, xero, synced, Times

-----------------------------------------------------------------------------
(* The invariant is inductive. *)

(* Reading and editing groups: only what is read and Xero itself changes.  *)
Elsewhere == UNCHANGED <<vars, synced, written>>

LEMMA XeroStepCases ==
    ASSUME [XeroNext]_all
    PROVE  Elsewhere \/ OwnersChange \/ \E adoptXero : SyncXeroGroups(adoptXero)
BY DEF XeroNext, all, DailySync, MoveContact, NameGroup, DeleteGroup, StartFetch,
       FetchGroup, FetchFails, SyncFails, LoadFile, NextDay, Elsewhere

LEMMA ReadingType ==
    ASSUME XeroTypeOK, ReadOnce, [XeroNext]_all
    PROVE  /\ ReadOnce'
           /\ fetch' = None \/ fetch' \in [todo : SUBSET Group, seen : SUBSET Memberships]
<1>1. fetch = None \/ fetch \in [todo : SUBSET Group, seen : SUBSET Memberships]
  BY DEF XeroTypeOK, Memberships
<1>2. CASE UNCHANGED fetch \/ fetch' = None
  BY <1>1, <1>2 DEF ReadOnce
<1>3. CASE StartFetch
  BY <1>3 DEF StartFetch, ReadOnce
<1>4. ASSUME NEW g \in Group, FetchGroup(g)
      PROVE  /\ ReadOnce'
             /\ fetch' \in [todo : SUBSET Group, seen : SUBSET Memberships]
  <2>1. ASSUME NEW m \in Contacts(g)
        PROVE  m \in Memberships /\ m[1] = g /\ m[2] = groupName[g]
    BY <2>1 DEF Contacts, ActiveGroup, XeroTypeOK, Memberships
  <2>2. /\ fetch # None /\ g \in fetch.todo
        /\ fetch' = [todo |-> fetch.todo \ {g}, seen |-> fetch.seen \union Contacts(g)]
    BY <1>4 DEF FetchGroup
  <2>3. fetch'.todo = fetch.todo \ {g} /\ fetch'.seen = fetch.seen \union Contacts(g)
    BY <2>2
  <2>4. ASSUME NEW m \in fetch'.seen, NEW n \in fetch'.seen
        PROVE  m[1] \notin fetch'.todo /\ (m[1] = n[1] => m[2] = n[2])
    <3>1. \A k \in fetch.seen : k[1] \notin fetch.todo /\ k[1] # g
      BY <2>2 DEF ReadOnce
    <3>2. m \in fetch.seen /\ n \in fetch.seen => (m[1] = n[1] => m[2] = n[2])
      BY <2>2 DEF ReadOnce
    <3> QED
      BY <2>1, <2>3, <3>1, <3>2
  <2> QED
    BY <1>1, <2>1, <2>2, <2>4 DEF ReadOnce
<1> QED
  BY <1>2, <1>3, <1>4 DEF XeroNext, all, DailySync, MoveContact, NameGroup, DeleteGroup,
     FetchFails, SyncXeroGroups, SyncFails, OwnersChange, LoadFile, NextDay

LEMMA EditingType ==
    ASSUME XeroTypeOK, [XeroNext]_all
    PROVE  /\ member' \in [Group -> SUBSET Contact]
           /\ groupName' \in [Group -> GroupName \union {None, Deleted}]
           /\ today' \in Day /\ today <= today'
<1>1. /\ member \in [Group -> SUBSET Contact]
      /\ groupName \in [Group -> GroupName \union {None, Deleted}]
      /\ today \in Day /\ today \in Int /\ MaxDay \in Int
  BY OwnerAssumption DEF XeroTypeOK, Day
<1>2. CASE UNCHANGED <<xero, today>>
  BY <1>1, <1>2 DEF xero
<1>3. ASSUME NEW g \in Group, NEW x \in Contact, MoveContact(x, g)
      PROVE  /\ member' \in [Group -> SUBSET Contact] /\ UNCHANGED <<groupName, today>>
  BY <1>1, <1>3 DEF MoveContact
<1>4. ASSUME NEW g \in Group, NEW n \in GroupName, NameGroup(g, n)
      PROVE  /\ groupName' \in [Group -> GroupName \union {None, Deleted}]
             /\ UNCHANGED <<member, today>>
  BY <1>1, <1>4 DEF NameGroup
<1>5. ASSUME NEW g \in Group, DeleteGroup(g)
      PROVE  /\ groupName' \in [Group -> GroupName \union {None, Deleted}]
             /\ member' \in [Group -> SUBSET Contact] /\ UNCHANGED today
  BY <1>1, <1>5 DEF DeleteGroup
<1>6. CASE NextDay
  BY <1>1, <1>6 DEF NextDay, xero, Day
<1> QED
  BY <1>1, <1>2, <1>3, <1>4, <1>5, <1>6 DEF XeroNext, all, DailySync, StartFetch, FetchGroup,
     FetchFails, SyncXeroGroups, SyncFails, OwnersChange, LoadFile

LEMMA MappedStays ==
    ASSUME GroupsMapped(master), OneByKey(master), [XeroNext]_all
    PROVE  GroupsMapped(master') /\ OneByKey(master')
<1>1. CASE UNCHANGED master
  BY <1>1
<1>2. ASSUME NEW file \in File, LoadFile(file)
      PROVE  GroupsMapped(master') /\ OneByKey(master')
  BY <1>2, LoadingAll DEF LoadFile, LoadMasterData
<1> QED
  BY <1>1, <1>2 DEF XeroNext, all, DailySync, MoveContact, NameGroup, DeleteGroup, StartFetch,
     FetchGroup, FetchFails, SyncXeroGroups, SyncFails, OwnersChange, NextDay

LEMMA SeenStays ==
    ASSUME XeroInv, [XeroNext]_all
    PROVE  SeenBefore'
<1>1. XeroTypeOK /\ SeenBefore /\ today \in Int /\ today' \in Int /\ today <= today'
  BY EditingType, OwnerAssumption DEF XeroInv, XeroTypeOK, Day
<1>2. CASE UNCHANGED synced
  <2> SUFFICES ASSUME NEW c \in Customer, xeroOwner[c] # None
               PROVE  /\ firstSync # None
                      /\ xeroOwner[c].since # None => xeroOwner[c].since <= today'
    BY <1>2 DEF SeenBefore, synced
  <2>1. xeroOwner[c].since # None => xeroOwner[c].since \in Int /\ xeroOwner[c].since <= today
    BY <1>1 DEF SeenBefore, XeroTypeOK, Day
  <2> QED
    BY <1>1, <2>1 DEF SeenBefore
<1>3. ASSUME NEW adoptXero, SyncXeroGroups(adoptXero)
      PROVE  SeenBefore'
  <2>1. today' = today /\ firstSync' # None /\ fetch # None
    BY <1>1, <1>3, OwnerAssumption DEF SyncXeroGroups, XeroTypeOK, Day
  <2>2. PICK ids \in IdsFrom(fetch.seen) : xeroOwner' = [c \in Customer |-> NextRow(ids, c)]
    BY <1>3, SyncByCustomer
  <2>3. ASSUME NEW c \in Customer, NextRow(ids, c) # None, NextRow(ids, c).since # None
        PROVE  NextRow(ids, c).since <= today
    <3>1. CASE xeroOwner[c] # None /\ NextRow(ids, c) = xeroOwner[c]
      BY <1>1, <2>3, <3>1 DEF SeenBefore
    <3>2. CASE xeroOwner[c] = None \/ NextRow(ids, c) # xeroOwner[c]
      BY <1>1, <2>3, <3>2, NewAnswer
    <3> QED
      BY <3>1, <3>2
  <2> QED
    BY <2>1, <2>2, <2>3 DEF SeenBefore
<1> QED
  BY <1>2, <1>3, XeroStepCases DEF Elsewhere, OwnersChange

LEMMA InvariantStays == XeroInv /\ [XeroNext]_all => XeroInv'
<1> SUFFICES ASSUME XeroInv, [XeroNext]_all
             PROVE  XeroInv'
  OBVIOUS
<1>1. /\ XeroTypeOK /\ TypeOK /\ OneOwnerAtATime /\ ReadOnce
      /\ GroupsMapped(master) /\ OneByKey(master)
      /\ \A c \in Customer : Explained(c)
  BY DEF XeroInv, XeroTypeOK
<1>2. GroupsMapped(master)' /\ OneByKey(master)' /\ ReadOnce' /\ SeenBefore'
  BY <1>1, MappedStays, ReadingType, SeenStays DEF GroupsMapped, OneByKey
<1>3. ASSUME NEW adoptXero, SyncXeroGroups(adoptXero)
      PROVE  XeroTypeOK' /\ OneOwnerAtATime' /\ \A c \in Customer : Explained(c)'
  BY <1>3, SyncType, SyncOneOwner, SyncExplains
<1>4. CASE OwnersChange
  <2>1. XeroTypeOK' /\ OneOwnerAtATime'
    BY <1>1, <1>4, OwnersChangeType, OwnersChangeIsNext, NextOneOwner
  <2>2. \A c \in Customer : Explained(c)'
    BY <1>1, <1>4, <2>1, OwnersChangeExplains DEF XeroTypeOK
  <2> QED
    BY <1>2, <2>1, <2>2 DEF XeroInv
<1>5. CASE Elsewhere
  <2>1. XeroTypeOK'
    BY <1>1, <1>5, ReadingType, EditingType DEF XeroTypeOK, TypeOK, Elsewhere, vars, synced, Memberships
  <2>2. OneOwnerAtATime'
    BY <1>1, <1>5 DEF OneOwnerAtATime, Elsewhere, vars
  <2>3. \A c \in Customer : Explained(c)'
    BY <1>1, <1>5 DEF Explained, Named, Active, ChangesAfter, AllocationOn, Elsewhere, vars, synced
  <2> QED
    BY <1>2, <2>1, <2>2, <2>3 DEF XeroInv
<1> QED
  BY <1>2, <1>3, <1>4, <1>5, XeroStepCases DEF XeroInv

LEMMA InitInvariant == XeroInit => XeroInv
<1> SUFFICES ASSUME XeroInit
             PROVE  XeroInv
  OBVIOUS
<1>1. TypeOK /\ OneOwnerAtATime
  BY DEF XeroInit, Init, TypeOK, OneOwnerAtATime
<1>2. GroupsMapped(master) /\ OneByKey(master)
  <2>1. GroupsMapped({}) /\ OneByKey({})
    BY DEF GroupsMapped, OneByKey
  <2> QED
    BY <2>1, LoadingAll, XeroAssumption DEF XeroInit
<1>3. 1 \in Day
  BY OwnerAssumption, XeroAssumption DEF Day
<1>4. XeroTypeOK
  BY <1>1, <1>3, XeroAssumption DEF XeroInit, XeroTypeOK
<1>5. ReadOnce /\ SeenBefore /\ \A c \in Customer : Explained(c)
  BY DEF XeroInit, ReadOnce, SeenBefore, Explained, Named
<1> QED
  BY <1>1, <1>2, <1>4, <1>5 DEF XeroInv

LEMMA Invariant == XeroSpec => []XeroInv
BY InitInvariant, InvariantStays, PTL DEF XeroSpec

-----------------------------------------------------------------------------
(* What follows. *)

(* Every reachable state is well typed: in particular no two mappings have *)
(* the same group, and a customer has an owner in Xero exactly when it is  *)
(* in one mapped group.                                                    *)
THEOREM XeroTypeCorrect == XeroSpec => []XeroTypeOK
BY Invariant, PTL DEF XeroInv

(* The sync, too, never gives an account two owners at a time, and nor do  *)
(* orders, hand-overs and leavers beside it.                               *)
THEOREM OneOwnerBesideXero == XeroSpec => []OneOwnerAtATime
BY Invariant, PTL DEF XeroInv

(* load_master_data is idempotent: what a file that names no row twice has *)
(* loaded, the same file loads again and changes nothing, whatever files   *)
(* came before it.  The hypothesis is needed (see NamesOnce).              *)
THEOREM LoadedAgainQuietly ==
    ASSUME \A file \in File : NamesOnce(file)
    PROVE  XeroSpec => ReloadIsQuiet
<1>1. ASSUME XeroInv
      PROVE  \A file \in File : LoadMasterData(Lines[file]) =>
                 LoadFrom(master', Lines[file]) = [ok |-> TRUE, rows |-> master']
  BY <1>1, LoadedAgain DEF XeroInv, LoadMasterData
<1>2. XeroInv /\ [XeroNext]_all =>
          [master' # master => \A file \in File : LoadMasterData(Lines[file]) =>
              LoadFrom(master', Lines[file]) = [ok |-> TRUE, rows |-> master']]_master
  BY <1>1
<1> QED
  BY <1>2, Invariant, PTL DEF XeroSpec, ReloadIsQuiet

LEMMA TakenByNewAnswer ==
    ASSUME XeroInv, SyncXeroGroups(FALSE), NEW c \in Customer, TakenFromOwner(c)
    PROVE  xeroOwner[c] = None \/ xeroOwner'[c].answer # xeroOwner[c].answer
<1> SUFFICES ASSUME xeroOwner[c] # None, xeroOwner'[c].answer = xeroOwner[c].answer
             PROVE  FALSE
  OBVIOUS
<1>1. /\ XeroTypeOK /\ TypeOK /\ OneOwnerAtATime /\ GroupsMapped(master)
      /\ ReadOnce /\ SeenBefore /\ Explained(c) /\ fetch # None
  BY DEF XeroInv, XeroTypeOK, SyncXeroGroups
<1>2. PICK ids \in IdsFrom(fetch.seen) : SyncOf(FALSE, ids, c)
  BY SyncByCustomer
<1> DEFINE x == xeroOwner[c]
<1>3. NextRow(ids, c) = x /\ Timed(ids, c) = written[c]
  BY <1>1, <1>2, SameAnswer DEF SyncOf
<1> HIDE DEF x
<1>4. PICK p \in AllocationOn(c, today) : p \notin periods'
  BY DEF TakenFromOwner
<1>5. GivesTo(FALSE, ids, c, x)
  <2>1. p \in OfCustomer(periods, c) /\ p \notin OfCustomer(periods', c)
    BY <1>4 DEF AllocationOn, OfCustomer
  <2> QED
    BY <1>2, <1>3, <2>1 DEF SyncOf
<1>6. XeroChanged(c, x, written[c]) /\ Passes(c, x.answer.owner, SeenOn(x))
  BY <1>3, <1>5 DEF GivesTo, Adopts
<1>7. x.since # None /\ written[c][p.from] = "before" /\ p.owner # x.answer.owner
  BY <1>4, <1>6 DEF XeroChanged, Disagree
<1>8. Named(c, x) /\ SeenOn(x) = x.since
  BY <1>6, <1>7 DEF XeroChanged, Disagree, Named, SeenOn
<1>9. p \in AllocationOn(c, x.since)
  <2>1. p \in periods /\ p \in Period /\ p.customer = c /\ p.from <= today /\ today <= p.to
    BY <1>1, <1>4 DEF AllocationOn, Covers, TypeOK
  <2>2. x # None /\ x.since \in Int /\ x.since <= today /\ today \in Int
    BY <1>1, <1>7 DEF SeenBefore, XeroTypeOK, Day, x
  <2>3. ~(p.from > x.since)
    BY <1>6, <1>8, <2>1 DEF Passes, ChangesAfter
  <2> QED
    BY <2>1, <2>2, <2>3, PeriodFacts DEF AllocationOn, Covers
<1> QED
  BY <1>1, <1>6, <1>7, <1>8, <1>9 DEF Explained, Passes, x

(* A plain sync takes an account from its owner of today only when Xero    *)
(* says something else than at the sync before: an account that an order,  *)
(* a hand-over or a leaver has moved since is not taken back, however many *)
(* syncs follow (0012, DB_CHANGED).                                        *)
THEOREM OldAnswersTakeNothing == XeroSpec => OnlyNewAnswersWin
<1>1. XeroInv /\ [XeroNext]_all =>
          [\A c \in Customer :
              TakenFromOwner(c) /\ SyncXeroGroups(FALSE) =>
                 xeroOwner[c] = None \/ xeroOwner'[c].answer # xeroOwner[c].answer]_all
  BY TakenByNewAnswer
<1> QED
  BY <1>1, Invariant, PTL DEF XeroSpec, OnlyNewAnswersWin

LEMMA SyncImplements ==
    ASSUME XeroInv, NEW adoptXero, SyncXeroGroups(adoptXero)
    PROVE  Timeline!Give
<1> DEFINE tl == [a \in Customer |-> [d \in Day |-> OwnerOn(a, d)]]
<1>1. XeroTypeOK /\ TypeOK /\ OneOwnerAtATime /\ GroupsMapped(master) /\ ReadOnce
  BY DEF XeroInv, XeroTypeOK
<1>2. \A Q, R, c, d : OfCustomer(Q, c) = OfCustomer(R, c) => Holder(Q, c, d) = Holder(R, c, d)
  <2>1. \A Q, c, d : InForce(Q, c, d) = {p \in OfCustomer(Q, c) : Covers(p, d)}
    BY DEF InForce, OfCustomer
  <2> SUFFICES ASSUME NEW Q, NEW R, NEW c, NEW d, OfCustomer(Q, c) = OfCustomer(R, c)
               PROVE  Holder(Q, c, d) = Holder(R, c, d)
    OBVIOUS
  <2>2. InForce(Q, c, d) = InForce(R, c, d)
    BY <2>1
  <2> QED
    BY <2>2 DEF Holder
<1>3. ASSUME NEW c \in Customer, OfCustomer(periods', c) = OfCustomer(periods, c)
      PROVE  tl'[c] = tl[c]
  BY <1>2, <1>3, HolderNow, HolderNext
<1>4. ASSUME NEW c \in Customer, NEW w \in Owner, NEW d \in Day, Given(c, w, d)
      PROVE  Timeline!Passes(c, w, d)
  <2>1. \A x \in Day : OwnerOn(c, x)' = Holder(PassedTo(c, w, d), c, x)
    BY <1>2, <1>4, HolderNext DEF Given
  <2> QED
    BY <1>1, <1>4, <2>1, PassedToPasses DEF Given
<1>5. \A c \in Customer : tl'[c] = tl[c] \/ \E w \in Owner, d \in Day : Timeline!Passes(c, w, d)
  BY <1>1, <1>3, <1>4, SyncGives
<1>6. UNCHANGED left /\ Timeline!Day = Day
  BY DEF SyncXeroGroups, Timeline!Day, Day
<1> QED
  BY <1>5, <1>6 DEF Timeline!Give, Owner

(* The sync beside orders, hand-overs and leavers implements the timeline: *)
(* whatever it adopts for however many accounts at once, the sync rewrites *)
(* no day before the answer was seen, goes behind no later change, and     *)
(* passes nothing to somebody who has left.  For the other routines see    *)
(* RoutinesImplementTimeline.                                              *)
THEOREM SyncImplementsTimeline == XeroSpec => ImplementsTimeline
<1>1. XeroInit => Timeline!Init
  BY InitImplements DEF XeroInit
<1>2. XeroInv /\ XeroInv' /\ [XeroNext]_all => [Timeline!Next]_(Timeline!vars)
  <2> SUFFICES ASSUME XeroInv, XeroInv', [XeroNext]_all
               PROVE  [Timeline!Next]_(Timeline!vars)
    OBVIOUS
  <2>1. XeroTypeOK /\ TypeOK /\ OneOwnerAtATime /\ OneOwnerAtATime'
    BY DEF XeroInv, XeroTypeOK
  <2>2. CASE [Next]_vars
    BY <2>1, <2>2, NextImplements
  <2>3. ASSUME NEW adoptXero, SyncXeroGroups(adoptXero)
        PROVE  [Timeline!Next]_(Timeline!vars)
    BY <2>3, SyncImplements DEF Timeline!Next
  <2> QED
    BY <2>1, <2>2, <2>3, NextOrSync
<1> QED
  BY <1>1, <1>2, Invariant, PTL DEF XeroSpec, ImplementsTimeline, Timeline!Spec

=============================================================================
