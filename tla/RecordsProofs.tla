---------------------------- MODULE RecordsProofs ---------------------------
(* Proofs about the guests and their documents, the customers and the linen  *)
(* of a hotel, for any number of requests, contacts, documents and failures. *)
EXTENDS GuestRecords, Customers, Linen, TLAPS

(* Guests and documents.  The requests, and which of them hold a document.   *)
DeskRecords ==
    [at : {"idle", "phone", "email", "insert", "backfill", "identity", "record", "unlink", "stat"},
     tx : BOOLEAN, doc : Docs \cup {NoDoc}, guest : Nat, contact : Contacts \cup {Nobody},
     stale : BOOLEAN]
WithDoc == {"record", "unlink", "stat"}

GuestRows ==
    [phone : {Blank} \cup {k.phone : k \in Contacts}, email : {Blank} \cup {k.email : k \in Contacts},
     idType : Docs \cup {NoDoc}, idNumber : Docs \cup {NoDoc}]

RecordsTypes ==
    /\ desk \in [Desks -> DeskRecords]
    /\ drawn \subseteq Docs /\ papers \subseteq drawn /\ files \subseteq drawn /\ missing \subseteq drawn
    /\ guests \in Seq(GuestRows)

(* A document being recorded has its file and was never a row; one being     *)
(* removed is no row any more.                                               *)
DocumentHeld(r) ==
    /\ r.at \in WithDoc => r.doc \in drawn
    /\ r.at = "record" => r.doc \in files /\ r.doc \notin papers /\ r.doc \notin missing
    /\ r.at = "unlink" => r.doc \notin papers

DocumentsApart == \A d, e \in Desks :
    /\ d # e /\ desk[d].at \in {"record", "unlink"} /\ desk[e].at \in {"record", "unlink"}
          => desk[d].doc # desk[e].doc
    /\ desk[d].at = "stat" /\ desk[e].at = "record" => desk[d].doc # desk[e].doc

PapersInv == FilesMatchRows /\ DocumentsApart /\ \A d \in Desks : DocumentHeld(desk[d])

(* A lookup that has not gone stale still tells the truth about the numbers. *)
LookupHolds(r) ==
    /\ r.at \in {"backfill", "identity"} => r.guest \in 1..Len(guests)
    /\ ~r.stale /\ r.at \in {"email", "insert"} => ByPhone(r.contact) = {}
    /\ ~r.stale /\ r.at = "backfill" => guests[r.guest].phone # Blank \/ ByPhone(r.contact) = {}

(* Each field of a profile was filled from the first document that had it.   *)
ProfileHolds(g) ==
    /\ g.idType # NoDoc /\ g.idNumber = NoDoc => g.idType \notin Numbered
    /\ g.idNumber # NoDoc /\ g.idType = NoDoc => g.idNumber \notin Typed
    /\ g.idType # g.idNumber =>
          g.idType = NoDoc \/ g.idNumber = NoDoc \/ g.idType \notin Numbered \/ g.idNumber \notin Typed

GuestsInv ==
    /\ OneGuestPerNumber
    /\ \A i \in 1..Len(guests) : ProfileHolds(guests[i])
    /\ \A d \in Desks : LookupHolds(desk[d])

RecordsInv == RecordsTypes /\ PapersInv /\ GuestsInv

(* The rows that stand for no guest and no request.                         *)
LEMMA DeskBlank ==
    /\ Nobody.phone = Blank /\ Nobody.email = Blank
    /\ Quiet \in DeskRecords /\ Quiet.at = "idle" /\ Quiet.stale = FALSE
BY Zenon DEF Nobody, Quiet, DeskRecords

-----------------------------------------------------------------------------
(* A step that moves no document between requests, rows and files keeps what *)
(* is known of them.                                                         *)
LEMMA PapersFrame ==
  ASSUME RecordsTypes, PapersInv, UNCHANGED <<papers, files, missing, unsure, strays>>,
         drawn \subseteq drawn',
         \A e \in Desks : \/ desk'[e].at = desk[e].at /\ desk'[e].doc = desk[e].doc
                          \/ desk[e].at \notin WithDoc /\ desk'[e].at \notin WithDoc
  PROVE  PapersInv'
<1>1. FilesMatchRows'
  BY Zenon DEF PapersInv, FilesMatchRows, WithDoc
<1>2. DocumentsApart'
  BY Zenon DEF PapersInv, DocumentsApart, WithDoc
<1>3. \A d \in Desks : DocumentHeld(desk[d])'
  BY Zenon DEF PapersInv, DocumentHeld, WithDoc
<1> QED
  BY <1>1, <1>2, <1>3, Zenon DEF PapersInv

(* A step that writes no guest and leaves the requests at their lookups.     *)
LEMMA GuestsFrame ==
  ASSUME GuestsInv, UNCHANGED <<guests, unmatched>>,
         \A e \in Desks : desk'[e] = desk[e] \/ LookupHolds(desk'[e])
  PROVE  GuestsInv'
<1>1. OneGuestPerNumber' /\ \A i \in 1..Len(guests') : ProfileHolds(guests'[i])
  BY Zenon DEF GuestsInv, OneGuestPerNumber, ProfileHolds, SameNumber
<1>2. \A d \in Desks : LookupHolds(desk[d])'
  BY SMTT(30) DEF GuestsInv, LookupHolds, ByPhone, SameNumber
<1> QED
  BY <1>1, <1>2, Zenon DEF GuestsInv

(* Filling in an identity keeps the two halves together.                     *)
LEMMA IdentityFilled ==
  ASSUME NEW g \in GuestRows, ProfileHolds(g), NEW doc \in Docs \cup {NoDoc}
  PROVE  LET h == SetGuestIdentity(g, doc) IN
         h \in GuestRows /\ h.phone = g.phone /\ h.email = g.email /\ ProfileHolds(h)
<1> DEFINE h == SetGuestIdentity(g, doc)
<1>1. /\ h \in GuestRows /\ h.phone = g.phone /\ h.email = g.email
      /\ h.idType = IF g.idType = NoDoc /\ doc \in Typed THEN doc ELSE g.idType
      /\ h.idNumber = IF g.idNumber = NoDoc /\ doc \in Numbered THEN doc ELSE g.idNumber
  BY Zenon DEF SetGuestIdentity, GuestRows
<1> HIDE DEF h
<1>2. NoDoc \notin Typed /\ NoDoc \notin Numbered
  BY RecordsAssumption, Zenon
<1>3. ProfileHolds(h)
  BY <1>1, <1>2, Zenon DEF ProfileHolds
<1> QED
  BY <1>1, <1>3, Zenon DEF h

-----------------------------------------------------------------------------
(* A guest is written: the lookups of all others go stale, so only the row   *)
(* itself can clash, and only if its own lookup was stale or never made.     *)
LEMMA GuestWritten ==
  ASSUME RecordsTypes, GuestsInv, NEW d \in Desks, NEW i \in 1 .. Len(guests) + 1,
         NEW g \in GuestRows, ProfileHolds(g),
         guests' = IF i > Len(guests) THEN Append(guests, g) ELSE [guests EXCEPT ![i] = g],
         unmatched \subseteq unmatched',
         \/ i \in unmatched'
         \/ i <= Len(guests) /\ g.phone = guests[i].phone
         \/ \A j \in 1..Len(guests) : ~SameNumber(g.phone, guests[j].phone),
         desk' \in [Desks -> DeskRecords],
         \A e \in Desks \ {d} : desk'[e] = Outdated(e),
         desk'[d].at \in {"idle", "identity"}, desk'[d].at = "identity" => desk'[d].guest = i
  PROVE  GuestsInv' /\ guests' \in Seq(GuestRows)
<1>1. /\ guests' \in Seq(GuestRows) /\ Len(guests') \in Nat /\ Len(guests) \in Nat
      /\ Len(guests) <= Len(guests') /\ i \in 1..Len(guests')
      /\ guests'[i] = g
      /\ \A j \in 1..Len(guests') : j # i => j \in 1..Len(guests) /\ guests'[j] = guests[j]
  <2>1. CASE i > Len(guests)
    BY <2>1, SMTT(30) DEF RecordsTypes
  <2>2. CASE ~(i > Len(guests))
    BY <2>2, SMTT(30) DEF RecordsTypes
  <2> QED
    BY <2>1, <2>2, Zenon
<1>2. OneGuestPerNumber'
  <2> SUFFICES ASSUME NEW a \in 1..Len(guests'), NEW b \in 1..Len(guests'), a # b,
                      SameNumber(guests'[a].phone, guests'[b].phone)
               PROVE  {a, b} \cap unmatched' # {}
    BY Zenon DEF OneGuestPerNumber, SameNumber
  <2>1. CASE a # i /\ b # i
    BY <1>1, <2>1, SMTT(30) DEF GuestsInv, OneGuestPerNumber
  <2>2. CASE a = i
    <3>1. b # i /\ b \in 1..Len(guests) /\ SameNumber(g.phone, guests[b].phone)
      BY <1>1, <2>2, Zenon
    <3> QED
      BY <1>1, <2>2, <3>1, SMTT(30) DEF GuestsInv, OneGuestPerNumber
  <2>3. CASE b = i
    <3>1. a # i /\ a \in 1..Len(guests) /\ SameNumber(g.phone, guests[a].phone)
      BY <1>1, <2>3, Zenon DEF SameNumber
    <3>2. i <= Len(guests) => (g.phone = guests[i].phone => SameNumber(guests[a].phone, guests[i].phone))
      BY <3>1, Zenon DEF SameNumber
    <3> QED
      BY <1>1, <2>3, <3>1, <3>2, SMTT(30) DEF GuestsInv, OneGuestPerNumber
  <2> QED
    BY <2>1, <2>2, <2>3, Zenon
<1>3. \A j \in 1..Len(guests') : ProfileHolds(guests'[j])
  BY <1>1, Zenon DEF GuestsInv
<1>4. \A e \in Desks : LookupHolds(desk[e])'
  <2> SUFFICES ASSUME NEW e \in Desks PROVE LookupHolds(desk[e])'
    BY Zenon
  <2>1. CASE e = d
    BY <1>1, <2>1, Zenon DEF LookupHolds
  <2>2. CASE e # d
    <3>1. desk[e] \in DeskRecords /\ desk'[e] = Outdated(e)
      BY <2>2, Zenon DEF RecordsTypes
    <3>2. /\ desk'[e].at = desk[e].at /\ desk'[e].guest = desk[e].guest
          /\ desk[e].at \in {"email", "insert", "backfill"} => desk'[e].stale
      BY <3>1, Zenon DEF Outdated, DeskRecords
    <3>3. desk[e].at = "identity" => desk[e].guest \in 1..Len(guests)
      BY Zenon DEF GuestsInv, LookupHolds
    <3>4. desk[e].at = "backfill" => desk[e].guest \in 1..Len(guests)
      BY Zenon DEF GuestsInv, LookupHolds
    <3> QED
      BY <1>1, <3>2, <3>3, <3>4, SMTT(30) DEF LookupHolds
  <2> QED
    BY <2>1, <2>2, Zenon
<1> QED
  BY <1>1, <1>2, <1>3, <1>4, Zenon DEF GuestsInv

-----------------------------------------------------------------------------
(* Init establishes the invariant of guests and documents.                  *)
LEMMA RecordsStart == RecordsInit => RecordsInv
<1> SUFFICES ASSUME RecordsInit PROVE RecordsInv
  BY Zenon
<1>1. RecordsTypes
  BY DeskBlank, SMTT(30) DEF RecordsInit, RecordsTypes
<1>2. PapersInv
  BY DeskBlank, Zenon
     DEF RecordsInit, PapersInv, FilesMatchRows, DocumentsApart, DocumentHeld, WithDoc
<1>3. GuestsInv
  BY DeskBlank, SMTT(30) DEF RecordsInit, GuestsInv, OneGuestPerNumber, LookupHolds
<1> QED
  BY <1>1, <1>2, <1>3, Zenon DEF RecordsInv

(* A lookup of the resolver.                                                 *)
LEMMA LookUpStep ==
  ASSUME RecordsInv, NEW d \in Desks, NEW at, NEW matches, NEW otherwise,
         LookUp(d, at, matches, otherwise),
         \/ at = "phone" /\ matches = ByPhone(desk[d].contact) /\ otherwise = "email"
         \/ at = "email" /\ matches = ByEmail(desk[d].contact) /\ otherwise = "insert"
  PROVE  RecordsInv'
<1>1. PICK r \in DeskRecords : /\ desk' = [desk EXCEPT ![d] = r]
                              /\ r.at \notin WithDoc /\ desk[d].at \notin WithDoc /\ LookupHolds(r)
  <2>1. CASE \E i \in matches : desk' = [desk EXCEPT ![d].at = "backfill", ![d].guest = i]
    <3>1. PICK i \in matches : desk' = [desk EXCEPT ![d].at = "backfill", ![d].guest = i]
      BY <2>1, Zenon
    <3> DEFINE r == [desk[d] EXCEPT !.at = "backfill", !.guest = i]
    <3>2. i \in 1..Len(guests) /\ Len(guests) \in Nat
      BY SMTT(30) DEF ByPhone, ByEmail, RecordsInv, RecordsTypes
    <3>a. desk[d] \in DeskRecords /\ i \in Nat
      BY <3>2, SMTT(30) DEF RecordsInv, RecordsTypes
    <3>3. /\ r \in DeskRecords /\ r.at = "backfill" /\ r.guest = i
          /\ r.contact = desk[d].contact /\ r.stale = desk[d].stale
      BY <3>a, Zenon DEF DeskRecords
    <3>4. desk' = [desk EXCEPT ![d] = r]
      BY <3>1, Zenon DEF RecordsInv, RecordsTypes, DeskRecords
    <3> HIDE DEF r
    <3>5. at = "phone" => guests[i].phone # Blank
      BY Zenon DEF ByPhone, SameNumber
    <3>6. at = "email" => (~desk[d].stale => ByPhone(desk[d].contact) = {})
      BY Zenon DEF LookUp, RecordsInv, GuestsInv, LookupHolds
    <3>7. LookupHolds(r)
      BY <3>2, <3>3, <3>5, <3>6, Zenon DEF LookupHolds
    <3> QED
      BY <3>3, <3>4, <3>7, Zenon DEF LookUp, WithDoc
  <2>2. CASE matches = {} /\ Goes(d, otherwise)
    <3> DEFINE r == [desk[d] EXCEPT !.at = otherwise]
    <3>1. /\ r \in DeskRecords /\ r.at = otherwise
          /\ r.contact = desk[d].contact /\ r.stale = desk[d].stale
      BY Zenon DEF RecordsInv, RecordsTypes, DeskRecords
    <3>2. desk' = [desk EXCEPT ![d] = r]
      BY <2>2, Zenon DEF Goes, RecordsInv, RecordsTypes, DeskRecords
    <3> HIDE DEF r
    <3>3. at = "email" => (~desk[d].stale => ByPhone(desk[d].contact) = {})
      BY Zenon DEF LookUp, RecordsInv, GuestsInv, LookupHolds
    <3>4. LookupHolds(r)
      BY <2>2, <3>1, <3>3, Zenon DEF LookupHolds
    <3> QED
      BY <3>1, <3>2, <3>4, ZenonT(30) DEF LookUp, WithDoc
  <2> QED
    BY <2>1, <2>2, Zenon DEF LookUp
<1>2. RecordsTypes'
  BY <1>1, Zenon DEF RecordsInv, RecordsTypes, LookUp, KeepsDisk, KeepsGuests
<1>3. PapersInv'
  BY <1>1, PapersFrame, ZenonT(30) DEF RecordsInv, RecordsTypes, LookUp, KeepsDisk
<1>4. GuestsInv'
  BY <1>1, GuestsFrame, Zenon DEF RecordsInv, RecordsTypes, LookUp, KeepsGuests
<1> QED
  BY <1>2, <1>3, <1>4, Zenon DEF RecordsInv

(* What a resolver is about to write.                                        *)
LEMMA ResolutionSound ==
  ASSUME RecordsInv, NEW d \in Desks, desk[d].at \in {"backfill", "insert"}
  PROVE  LET r == Resolution(d) IN
         /\ r.id \in 1 .. Len(guests) + 1 /\ r.row \in GuestRows /\ ProfileHolds(r.row)
         /\ \/ desk[d].stale
            \/ r.id <= Len(guests) /\ r.row.phone = guests[r.id].phone
            \/ \A j \in 1..Len(guests) : ~SameNumber(r.row.phone, guests[j].phone)
<1> DEFINE k == desk[d].contact
           r == Resolution(d)
<1>1. /\ k.phone \in {Blank} \cup {c.phone : c \in Contacts}
      /\ k.email \in {Blank} \cup {c.email : c \in Contacts} /\ Len(guests) \in Nat
  BY DeskBlank, SMTT(30) DEF RecordsInv, RecordsTypes, DeskRecords
<1>2. CASE desk[d].at = "backfill"
  <2> DEFINE g == guests[desk[d].guest]
  <2>1. desk[d].guest \in 1..Len(guests) /\ g \in GuestRows /\ ProfileHolds(g)
    BY <1>2, SMTT(30) DEF RecordsInv, RecordsTypes, GuestsInv, LookupHolds
  <2>2. r.id = desk[d].guest /\ r.row = Backfilled(g, k)
    BY <1>2, Zenon DEF Resolution
  <2>3. /\ r.row \in GuestRows /\ r.row.phone = Or(g.phone, k.phone)
        /\ r.row.idType = g.idType /\ r.row.idNumber = g.idNumber
    BY <1>1, <2>1, <2>2, Zenon DEF Backfilled, GuestRows, Or
  <2>4. ~desk[d].stale => g.phone # Blank \/ ByPhone(k) = {}
    BY <1>2, Zenon DEF RecordsInv, GuestsInv, LookupHolds
  <2> HIDE DEF r, g, k
  <2>5. \/ desk[d].stale \/ r.row.phone = g.phone
        \/ r.row.phone = k.phone /\ ByPhone(k) = {}
    BY <2>3, <2>4, Zenon DEF Or
  <2> QED
    BY <1>1, <2>1, <2>2, <2>3, <2>5, SMTT(30) DEF ByPhone, ProfileHolds, r, g
<1>3. CASE desk[d].at = "insert"
  <2>1. r.id = Len(guests) + 1 /\ r.row = Registered(k)
    BY <1>3, Zenon DEF Resolution
  <2>2. r.row \in GuestRows /\ r.row.phone = k.phone /\ r.row.idType = NoDoc /\ r.row.idNumber = NoDoc
    BY <1>1, <2>1, SMTT(30) DEF Registered, GuestRows
  <2>3. ~desk[d].stale => ByPhone(k) = {}
    BY <1>3, Zenon DEF RecordsInv, GuestsInv, LookupHolds
  <2> HIDE DEF r, k
  <2> QED
    BY <1>1, <2>1, <2>2, <2>3, SMTT(30) DEF ByPhone, ProfileHolds, r
<1> QED
  BY <1>2, <1>3, Zenon

(* A guest's row is written by a request that holds no document.             *)
LEMMA WriteStep ==
  ASSUME RecordsInv, NEW d \in Desks, desk[d].at \in {"idle", "backfill", "insert"},
         NEW i \in 1 .. Len(guests) + 1, NEW g \in GuestRows, ProfileHolds(g),
         guests' = IF i > Len(guests) THEN Append(guests, g) ELSE [guests EXCEPT ![i] = g],
         unmatched \subseteq unmatched',
         \/ i \in unmatched'
         \/ i <= Len(guests) /\ g.phone = guests[i].phone
         \/ \A j \in 1..Len(guests) : ~SameNumber(g.phone, guests[j].phone),
         NEW next \in DeskRecords, next.at \in {"idle", "identity"},
         next.at = "identity" => next.guest = i,
         desk' = [e \in Desks |-> IF e = d THEN next ELSE Outdated(e)], KeepsDisk
  PROVE  RecordsInv'
<1>1. \A e \in Desks : /\ Outdated(e) \in DeskRecords
                       /\ Outdated(e).at = desk[e].at /\ Outdated(e).doc = desk[e].doc
  <2> SUFFICES ASSUME NEW e \in Desks
               PROVE  /\ Outdated(e) \in DeskRecords
                      /\ Outdated(e).at = desk[e].at /\ Outdated(e).doc = desk[e].doc
    BY Zenon
  <2>1. desk[e] \in DeskRecords /\ (desk[e].stale \/ desk[e].at \in {"email", "insert", "backfill"}) \in BOOLEAN
    BY Zenon DEF RecordsInv, RecordsTypes
  <2> QED
    BY <2>1, Zenon DEF Outdated, DeskRecords
<1>2. desk' \in [Desks -> DeskRecords] /\ desk'[d] = next /\ \A e \in Desks \ {d} : desk'[e] = Outdated(e)
  BY <1>1, Zenon
<1>3. GuestsInv' /\ guests' \in Seq(GuestRows)
  BY <1>2, GuestWritten, Zenon DEF RecordsInv
<1>4. RecordsTypes'
  BY <1>2, <1>3, Zenon DEF RecordsInv, RecordsTypes, KeepsDisk
<1>5. PapersInv'
  BY <1>1, <1>2, PapersFrame, Zenon DEF RecordsInv, KeepsDisk, WithDoc
<1> QED
  BY <1>3, <1>4, <1>5, Zenon DEF RecordsInv

(* A request without a document moves on, or ends, and writes nothing.       *)
LEMMA QuietStep ==
  ASSUME RecordsInv, NEW d \in Desks, desk[d].at \notin WithDoc, KeepsGuests,
         UNCHANGED <<papers, files, missing, unsure, strays>>,
         drawn \subseteq drawn', drawn' \subseteq Docs,
         NEW r \in DeskRecords, desk' = [desk EXCEPT ![d] = r], r.at \notin WithDoc, LookupHolds(r)
  PROVE  RecordsInv'
<1>1. RecordsTypes'
  BY Zenon DEF RecordsInv, RecordsTypes, KeepsGuests
<1>2. PapersInv'
  BY PapersFrame, Zenon DEF RecordsInv, RecordsTypes
<1>3. GuestsInv'
  BY GuestsFrame, Zenon DEF RecordsInv, RecordsTypes, KeepsGuests
<1> QED
  BY <1>1, <1>2, <1>3, Zenon DEF RecordsInv

(* EnsureGuest looks for a guest with the number, or inserts one.           *)
LEMMA EnsureGuestStep ==
  ASSUME RecordsInv, NEW d \in Desks, EnsureGuest(d)
  PROVE  RecordsInv'
<1> DEFINE r == Resolution(d)
<1>0. desk[d] \in DeskRecords /\ Len(guests) \in Nat
  BY SMTT(30) DEF RecordsInv, RecordsTypes
<1>1. CASE LookUp(d, "phone", ByPhone(desk[d].contact), "email")
  BY <1>1, LookUpStep, Zenon
<1>2. CASE LookUp(d, "email", ByEmail(desk[d].contact), "insert")
  BY <1>2, LookUpStep, Zenon
<1>3. CASE /\ desk[d].at \in {"backfill", "insert"} /\ KeepsDisk
           /\ WriteGuest(d, r.id, r.row, [desk[d] EXCEPT !.at = "identity", !.guest = r.id])
  <2>1. /\ r.id \in 1 .. Len(guests) + 1 /\ r.row \in GuestRows /\ ProfileHolds(r.row)
        /\ \/ desk[d].stale
           \/ r.id <= Len(guests) /\ r.row.phone = guests[r.id].phone
           \/ \A j \in 1..Len(guests) : ~SameNumber(r.row.phone, guests[j].phone)
    BY <1>3, ResolutionSound, Zenon
  <2> HIDE DEF r
  <2> DEFINE next == [desk[d] EXCEPT !.at = "identity", !.guest = r.id]
  <2>a. r.id \in Nat
    BY <1>0, <2>1, SMTT(30)
  <2>2. next \in DeskRecords /\ next.at = "identity" /\ next.guest = r.id
    BY <1>0, <2>a, Zenon DEF DeskRecords
  <2>3. /\ guests' = IF r.id > Len(guests) THEN Append(guests, r.row) ELSE [guests EXCEPT ![r.id] = r.row]
        /\ unmatched \subseteq unmatched' /\ (desk[d].stale => r.id \in unmatched')
        /\ desk' = [e \in Desks |-> IF e = d THEN next ELSE Outdated(e)]
    BY <1>3, Zenon DEF WriteGuest
  <2> HIDE DEF next
  <2> QED
    BY <1>3, <2>1, <2>2, <2>3, WriteStep, Zenon
<1>4. CASE desk[d].at = "backfill" /\ Goes(d, "identity") /\ KeepsGuests /\ KeepsDisk
  <2> DEFINE q == [desk[d] EXCEPT !.at = "identity"]
  <2>1. q \in DeskRecords /\ q.at = "identity" /\ q.guest = desk[d].guest
    BY <1>0, Zenon DEF DeskRecords
  <2>2. desk' = [desk EXCEPT ![d] = q]
    BY <1>4, <1>0, Zenon DEF Goes, DeskRecords, RecordsInv, RecordsTypes
  <2> HIDE DEF q
  <2>3. LookupHolds(q)
    BY <1>4, <2>1, Zenon DEF RecordsInv, GuestsInv, LookupHolds
  <2> QED
    BY <1>4, <2>1, <2>2, <2>3, QuietStep, ZenonT(30)
       DEF KeepsDisk, WithDoc, RecordsInv, RecordsTypes
<1> QED
  BY <1>1, <1>2, <1>3, <1>4, Zenon DEF EnsureGuest

(* A booking names its guest.                                               *)
LEMMA BookGuestStep ==
  ASSUME RecordsInv, NEW d \in Desks, BookGuest(d)
  PROVE  RecordsInv'
<1> DEFINE r == Resolution(d)
<1>0. desk[d] \in DeskRecords /\ Len(guests) \in Nat
  BY SMTT(30) DEF RecordsInv, RecordsTypes
<1>1. ASSUME desk[d].at = "idle", KeepsGuests, UNCHANGED <<papers, files, missing, unsure, strays>>,
             NEW k \in Contacts, NEW doc \in {NoDoc} \cup (Docs \ drawn),
             desk' = [desk EXCEPT ![d] = [Quiet EXCEPT !.at = "phone", !.tx = TRUE, !.doc = doc, !.contact = k]],
             drawn' = drawn \cup ({doc} \ {NoDoc})
      PROVE  RecordsInv'
  <2> DEFINE q == [Quiet EXCEPT !.at = "phone", !.tx = TRUE, !.doc = doc, !.contact = k]
  <2>1. q \in DeskRecords /\ q.at = "phone"
    BY <1>1, Zenon DEF Quiet, DeskRecords
  <2>2. desk' = [desk EXCEPT ![d] = q] /\ drawn \subseteq drawn' /\ drawn' \subseteq Docs
    BY <1>1, Zenon DEF RecordsInv, RecordsTypes
  <2> HIDE DEF q
  <2>3. LookupHolds(q)
    BY <2>1, Zenon DEF LookupHolds
  <2> QED
    BY <1>1, <2>1, <2>2, <2>3, QuietStep, Zenon DEF WithDoc
<1>2. CASE /\ desk[d].at \in {"backfill", "insert"} /\ KeepsDisk
           /\ WriteGuest(d, r.id, SetGuestIdentity(r.row, desk[d].doc), Quiet)
  <2>1. /\ r.id \in 1 .. Len(guests) + 1 /\ r.row \in GuestRows /\ ProfileHolds(r.row)
        /\ \/ desk[d].stale
           \/ r.id <= Len(guests) /\ r.row.phone = guests[r.id].phone
           \/ \A j \in 1..Len(guests) : ~SameNumber(r.row.phone, guests[j].phone)
    BY <1>2, ResolutionSound, Zenon
  <2> HIDE DEF r
  <2> DEFINE g == SetGuestIdentity(r.row, desk[d].doc)
  <2>2. g \in GuestRows /\ g.phone = r.row.phone /\ ProfileHolds(g)
    BY <1>0, <2>1, IdentityFilled, Zenon DEF DeskRecords
  <2>3. /\ guests' = IF r.id > Len(guests) THEN Append(guests, g) ELSE [guests EXCEPT ![r.id] = g]
        /\ unmatched \subseteq unmatched' /\ (desk[d].stale => r.id \in unmatched')
        /\ desk' = [e \in Desks |-> IF e = d THEN Quiet ELSE Outdated(e)]
    BY <1>2, Zenon DEF WriteGuest
  <2> HIDE DEF g
  <2> QED
    BY <1>2, <2>1, <2>2, <2>3, WriteStep, DeskBlank, Zenon
<1>3. CASE desk[d].at \in {"backfill", "insert"} /\ Done(d) /\ KeepsGuests /\ KeepsDisk
  <2>1. LookupHolds(Quiet)
    BY DeskBlank, Zenon DEF LookupHolds
  <2> QED
    BY <1>3, <2>1, DeskBlank, QuietStep, Zenon
       DEF Done, KeepsDisk, WithDoc, RecordsInv, RecordsTypes
<1> QED
  BY <1>1, <1>2, <1>3, Zenon DEF BookGuest

(* CreateGuest inserts a guest.                                             *)
LEMMA CreateGuestStep ==
  ASSUME RecordsInv, NEW d \in Desks, NEW k \in Contacts, CreateGuest(d, k)
  PROVE  RecordsInv'
<1> DEFINE g == Registered(k)
           i == Len(guests) + 1
<1>1. /\ g \in GuestRows /\ g.idType = NoDoc /\ g.idNumber = NoDoc
      /\ desk[d] \in DeskRecords /\ Len(guests) \in Nat
  BY SMTT(30) DEF Registered, GuestRows, RecordsInv, RecordsTypes
<1>2. /\ desk[d].at = "idle" /\ KeepsDisk /\ guests' = Append(guests, g)
      /\ unmatched \subseteq unmatched' /\ i \in unmatched'
      /\ desk' = [e \in Desks |-> IF e = d THEN desk[d] ELSE Outdated(e)]
  BY Zenon DEF CreateGuest
<1> HIDE DEF g
<1>3. ProfileHolds(g)
  BY <1>1, Zenon DEF ProfileHolds
<1> QED
  BY <1>1, <1>2, <1>3, WriteStep, SMTT(30)

-----------------------------------------------------------------------------
(* A request takes up, or lays down, a document and writes no guest.         *)
LEMMA DocumentStep ==
  ASSUME RecordsInv, NEW d \in Desks, KeepsGuests, drawn' \subseteq Docs,
         papers' \subseteq drawn', files' \subseteq drawn', missing' \subseteq drawn', PapersInv',
         NEW r \in DeskRecords, desk' = [desk EXCEPT ![d] = r], LookupHolds(r)
  PROVE  RecordsInv'
<1>1. RecordsTypes'
  BY Zenon DEF RecordsInv, RecordsTypes, KeepsGuests
<1>2. GuestsInv'
  BY GuestsFrame, Zenon DEF RecordsInv, RecordsTypes, KeepsGuests
<1> QED
  BY <1>1, <1>2, Zenon DEF RecordsInv

(* The documents at hand, and where they are when one request changes its.   *)
InHand == {desk[d].doc : d \in {e \in Desks : desk[e].at \in {"record", "unlink"}}}

(* The documents in the hands of a request change with that request only.   *)
LEMMA InHandChanges ==
  ASSUME RecordsInv, NEW d \in Desks, NEW r \in DeskRecords, desk' = [desk EXCEPT ![d] = r]
  PROVE  /\ r.at \in {"record", "unlink"} => r.doc \in InHand'
         /\ InHand \ {desk[d].doc} \subseteq InHand'
         /\ desk[d].at \notin {"record", "unlink"} => InHand \subseteq InHand'
<1>1. /\ desk'[d] = r /\ \A e \in Desks \ {d} : desk'[e] = desk[e]
  BY Zenon DEF RecordsInv, RecordsTypes
<1> QED
  BY <1>1, Zenon DEF InHand

(* An upload writes its file.                                               *)
LEMMA StoreFileStep ==
  ASSUME RecordsInv, NEW d \in Desks, StoreFile(d)
  PROVE  RecordsInv'
<1>1. PICK doc \in Typed \ drawn, k \in Contacts :
        /\ drawn' = drawn \cup {doc}
        /\ \/ /\ files' = files \cup {doc} /\ UNCHANGED strays
              /\ desk' = [desk EXCEPT ![d] = [Quiet EXCEPT !.at = "record", !.doc = doc, !.contact = k]]
           \/ /\ files' \in {files, files \cup {doc}}
              /\ strays' = strays \cup {doc} /\ UNCHANGED desk
  BY Zenon DEF StoreFile
<1>2. desk[d].at = "idle" /\ KeepsGuests /\ UNCHANGED <<papers, missing, unsure>>
  BY Zenon DEF StoreFile
<1>3. /\ doc \in Docs /\ drawn' \subseteq Docs /\ doc \notin papers /\ doc \notin missing /\ doc \notin files
      /\ papers' \subseteq drawn' /\ files' \subseteq drawn' /\ missing' \subseteq drawn'
  BY <1>1, <1>2, RecordsAssumption, Zenon DEF RecordsInv, RecordsTypes
<1>4. CASE /\ files' = files \cup {doc} /\ UNCHANGED strays
           /\ desk' = [desk EXCEPT ![d] = [Quiet EXCEPT !.at = "record", !.doc = doc, !.contact = k]]
  <2> DEFINE r == [Quiet EXCEPT !.at = "record", !.doc = doc, !.contact = k]
  <2>1. r \in DeskRecords /\ r.at = "record" /\ r.doc = doc
    BY <1>3, Zenon DEF Quiet, DeskRecords
  <2>2. desk' = [desk EXCEPT ![d] = r]
    BY <1>4, Zenon
  <2> HIDE DEF r
  <2>3. desk'[d] = r /\ \A e \in Desks \ {d} : desk'[e] = desk[e]
    BY <2>2, Zenon DEF RecordsInv, RecordsTypes
  <2>4. FilesMatchRows'
    <3>1. doc \in InHand' /\ InHand \subseteq InHand'
      BY <1>2, <2>1, <2>2, InHandChanges, Zenon
    <3> QED
      BY <1>2, <1>3, <1>4, <3>1, Zenon DEF RecordsInv, PapersInv, FilesMatchRows, InHand
  <2>5. \A e \in Desks : DocumentHeld(desk[e])'
    BY <1>1, <1>2, <1>3, <1>4, <2>1, <2>3, SMTT(30) DEF RecordsInv, PapersInv, DocumentHeld, WithDoc
  <2>6. DocumentsApart'
    <3>1. \A e \in Desks : desk[e].at \in WithDoc => desk[e].doc # doc
      BY Zenon DEF RecordsInv, PapersInv, DocumentHeld
    <3> QED
      BY <2>1, <2>3, <3>1, SMTT(30) DEF RecordsInv, PapersInv, DocumentsApart, WithDoc
  <2>7. LookupHolds(r)
    BY <2>1, Zenon DEF LookupHolds
  <2> QED
    BY <1>2, <1>3, <2>1, <2>2, <2>4, <2>5, <2>6, <2>7, DocumentStep, Zenon DEF PapersInv
<1>5. CASE files' \in {files, files \cup {doc}} /\ strays' = strays \cup {doc} /\ UNCHANGED desk
  <2>1. RecordsTypes'
    BY <1>2, <1>3, <1>5, Zenon DEF RecordsInv, RecordsTypes, KeepsGuests
  <2>2. PapersInv'
    BY <1>1, <1>2, <1>3, <1>5, SMTT(30)
    DEF RecordsInv, PapersInv, FilesMatchRows, DocumentHeld, DocumentsApart, WithDoc
  <2>3. GuestsInv'
    BY <1>2, <1>5, GuestsFrame, Zenon DEF RecordsInv, KeepsGuests
  <2> QED
    BY <2>1, <2>2, <2>3, Zenon DEF RecordsInv
<1> QED
  BY <1>1, <1>4, <1>5, Zenon

(* A request lays its document down: nobody else has it.                     *)
LEMMA LayDownStep ==
  ASSUME RecordsInv, NEW d \in Desks, desk[d].at \in {"record", "unlink"},
         NEW r \in DeskRecords, desk' = [desk EXCEPT ![d] = r], r.at \in {"idle", "phone"},
         KeepsGuests, UNCHANGED <<drawn, missing>>,
         unsure \subseteq unsure', strays \subseteq strays',
         papers' \in {papers, papers \cup {desk[d].doc}}, files' \in {files, files \ {desk[d].doc}},
         desk[d].at = "unlink" => papers' = papers,
         desk[d].doc \in papers' => desk[d].doc \in files' \/ desk[d].doc \in unsure',
         desk[d].doc \in files' => desk[d].doc \in papers' \/ desk[d].doc \in strays'
  PROVE  RecordsInv'
<1> DEFINE doc == desk[d].doc
<1>1. doc \in drawn /\ doc \notin papers
  BY Zenon DEF RecordsInv, PapersInv, DocumentHeld, WithDoc
<1>2. desk'[d] = r /\ \A e \in Desks \ {d} : desk'[e] = desk[e]
  BY Zenon DEF RecordsInv, RecordsTypes
<1>3. \A e \in Desks \ {d} : desk[e].at \in {"record", "unlink"} => desk[e].doc # doc
  BY Zenon DEF RecordsInv, PapersInv, DocumentsApart
<1>4. FilesMatchRows'
  <2>1. InHand \ {doc} \subseteq InHand'
    BY InHandChanges, Zenon
  <2>2. (papers \ files)' \subseteq unsure'
    BY Zenon DEF RecordsInv, PapersInv, FilesMatchRows
  <2>3. (files \ papers)' \subseteq strays' \cup InHand'
    BY <2>1, Zenon DEF RecordsInv, PapersInv, FilesMatchRows, InHand
  <2>4. (missing \cap papers)' \subseteq unsure'
    <3>1. doc \in papers' => doc \notin missing
      BY <1>1, Zenon DEF RecordsInv, PapersInv, DocumentHeld
    <3> QED
      BY <3>1, Zenon DEF RecordsInv, PapersInv, FilesMatchRows
  <2> QED
    BY <2>2, <2>3, <2>4, Zenon DEF FilesMatchRows, InHand
<1>5. \A e \in Desks : DocumentHeld(desk[e])'
  <2> SUFFICES ASSUME NEW e \in Desks PROVE DocumentHeld(desk[e])'
    BY Zenon
  <2>1. CASE e = d
    BY <1>2, <2>1, Zenon DEF DocumentHeld, WithDoc
  <2>2. CASE e # d
    BY <1>2, <1>3, <2>2, SMTT(30) DEF RecordsInv, PapersInv, DocumentHeld, WithDoc
  <2> QED
    BY <2>1, <2>2, Zenon
<1>6. DocumentsApart'
  BY <1>2, SMTT(30) DEF RecordsInv, PapersInv, DocumentsApart
<1>7. LookupHolds(r)
  BY Zenon DEF LookupHolds
<1> QED
  BY <1>1, <1>4, <1>5, <1>6, <1>7, DocumentStep, Zenon DEF PapersInv, RecordsInv, RecordsTypes

(* An upload inserts its row, or removes its file again.                    *)
LEMMA RecordUploadStep ==
  ASSUME RecordsInv, NEW d \in Desks, RecordUpload(d)
  PROVE  RecordsInv'
<1> DEFINE doc == desk[d].doc
<1>1. desk[d] \in DeskRecords /\ desk[d].at = "record" /\ doc \in files /\ doc \notin papers
  BY Zenon DEF RecordUpload, RecordsInv, RecordsTypes, PapersInv, DocumentHeld
<1>2. KeepsGuests /\ UNCHANGED <<drawn, missing>>
  BY Zenon DEF RecordUpload
<1>3. CASE /\ papers' = papers \cup {doc} /\ UNCHANGED <<files, unsure, strays>>
           /\ Goes(d, IF desk[d].contact = Nobody THEN "idle" ELSE "phone")
  <2> DEFINE r == [desk[d] EXCEPT !.at = IF desk[d].contact = Nobody THEN "idle" ELSE "phone"]
  <2>1. r \in DeskRecords /\ r.at \in {"idle", "phone"}
    BY <1>1, Zenon DEF DeskRecords
  <2>2. desk' = [desk EXCEPT ![d] = r]
    BY <1>1, <1>3, Zenon DEF Goes, DeskRecords, RecordsInv, RecordsTypes
  <2> HIDE DEF r
  <2> QED
    BY <1>1, <1>2, <1>3, <2>1, <2>2, LayDownStep, Zenon
<1>4. CASE /\ Done(d)
           /\ \/ files' = files \ {doc} /\ UNCHANGED strays
              \/ strays' = strays \cup {doc} /\ UNCHANGED files
           /\ \/ UNCHANGED <<papers, unsure>>
              \/ papers' = papers \cup {doc} /\ unsure' = unsure \cup {doc}
  BY <1>1, <1>2, <1>4, LayDownStep, DeskBlank, Zenon DEF Done
<1> QED
  BY <1>3, <1>4, Zenon DEF RecordUpload

(* The identity of a document is copied to the profile of its guest.        *)
LEMMA MirrorStep ==
  ASSUME RecordsInv, NEW d \in Desks, MirrorIdentity(d)
  PROVE  RecordsInv'
<1>0. desk[d] \in DeskRecords /\ desk' = [desk EXCEPT ![d] = Quiet] /\ KeepsDisk /\ LookupHolds(Quiet)
  BY DeskBlank, Zenon DEF MirrorIdentity, Done, RecordsInv, RecordsTypes, LookupHolds
<1>1. CASE /\ desk[d].at = "identity" /\ UNCHANGED unmatched
           /\ guests' = [guests EXCEPT ![desk[d].guest] = SetGuestIdentity(@, desk[d].doc)]
  <2> DEFINE i == desk[d].guest
             g == SetGuestIdentity(guests[i], desk[d].doc)
  <2>1. i \in 1..Len(guests) /\ guests[i] \in GuestRows /\ ProfileHolds(guests[i])
    BY <1>1, SMTT(30) DEF RecordsInv, RecordsTypes, GuestsInv, LookupHolds
  <2>2. g \in GuestRows /\ g.phone = guests[i].phone /\ ProfileHolds(g)
    BY <1>0, <2>1, IdentityFilled, Zenon DEF DeskRecords
  <2>3. guests' = [guests EXCEPT ![i] = g]
    BY <1>1, Zenon
  <2> HIDE DEF g
  <2>4. /\ guests' \in Seq(GuestRows) /\ Len(guests') = Len(guests)
        /\ \A j \in 1..Len(guests) : guests'[j].phone = guests[j].phone /\ ProfileHolds(guests'[j])
    BY <2>1, <2>2, <2>3, SMTT(30) DEF RecordsInv, RecordsTypes, GuestsInv
  <2>5. \A e \in Desks \ {d} : desk'[e] = desk[e]
    BY <1>0, Zenon DEF RecordsInv, RecordsTypes
  <2>6. OneGuestPerNumber'
    <3>1. OneGuestPerNumber
      BY Zenon DEF RecordsInv, GuestsInv
    <3> SUFFICES ASSUME NEW j \in 1..Len(guests), NEW k \in 1..Len(guests), j # k,
                        SameNumber(guests'[j].phone, guests'[k].phone)
                 PROVE  {j, k} \cap unmatched' # {}
      BY <2>4, Zenon DEF OneGuestPerNumber
    <3>2. SameNumber(guests[j].phone, guests[k].phone)
      BY <2>4, Zenon
    <3> QED
      BY <1>1, <3>1, <3>2, Zenon DEF OneGuestPerNumber
  <2>7. \A e \in Desks : LookupHolds(desk[e])'
    <3> SUFFICES ASSUME NEW e \in Desks PROVE LookupHolds(desk[e])'
      BY Zenon
    <3>1. CASE e = d
      BY <1>0, <3>1, DeskBlank, Zenon DEF LookupHolds, RecordsInv, RecordsTypes
    <3>2. CASE e # d
      <4>1. desk'[e] = desk[e] /\ LookupHolds(desk[e])
        BY <2>5, <3>2, Zenon DEF RecordsInv, GuestsInv
      <4>2. ByPhone(desk[e].contact) = {} =>
              \A j \in 1..Len(guests') : ~SameNumber(desk[e].contact.phone, guests'[j].phone)
        BY <2>4, Zenon DEF ByPhone
      <4> QED
        BY <2>4, <4>1, <4>2, Zenon DEF LookupHolds, ByPhone
    <3> QED
      BY <3>1, <3>2, Zenon
  <2>8. PapersInv'
    BY <1>0, <1>1, PapersFrame, DeskBlank, Zenon DEF RecordsInv, RecordsTypes, KeepsDisk, WithDoc
  <2>9. RecordsTypes'
    BY <1>0, <2>4, DeskBlank, Zenon DEF RecordsInv, RecordsTypes, KeepsDisk
  <2> QED
    BY <2>4, <2>6, <2>7, <2>8, <2>9, Zenon DEF RecordsInv, GuestsInv
<1>2. CASE desk[d].at \in {"phone", "email", "insert", "identity"} /\ KeepsGuests
  BY <1>0, <1>2, QuietStep, DeskBlank, Zenon DEF KeepsDisk, WithDoc, RecordsInv, RecordsTypes
<1> QED
  BY <1>1, <1>2, Zenon DEF MirrorIdentity

(* A download opens the file of a row it read.                              *)
LEMMA DownloadStep ==
  ASSUME RecordsInv, NEW d \in Desks, DownloadDocument(d)
  PROVE  RecordsInv'
<1>1. CASE ReadRows(d)
  <2>1. PICK doc \in papers : desk' = [desk EXCEPT ![d] = [Quiet EXCEPT !.at = "stat", !.doc = doc]]
    BY <1>1, Zenon DEF ReadRows
  <2> DEFINE r == [Quiet EXCEPT !.at = "stat", !.doc = doc]
  <2>2. r \in DeskRecords /\ r.at = "stat" /\ r.doc = doc /\ doc \in drawn
    BY Zenon DEF Quiet, DeskRecords, RecordsInv, RecordsTypes
  <2>3. desk' = [desk EXCEPT ![d] = r]
    BY <2>1, Zenon
  <2> HIDE DEF r
  <2>4. desk'[d] = r /\ \A e \in Desks \ {d} : desk'[e] = desk[e]
    BY <2>3, Zenon DEF RecordsInv, RecordsTypes
  <2>5. KeepsGuests /\ KeepsDisk /\ desk[d].at = "idle"
    BY <1>1, Zenon DEF ReadRows
  <2>6. FilesMatchRows'
    <3>1. InHand \subseteq InHand'
      BY <2>2, <2>3, <2>5, InHandChanges, Zenon
    <3> QED
      BY <2>5, <3>1, Zenon DEF RecordsInv, PapersInv, FilesMatchRows, InHand, KeepsDisk
  <2>7. \A e \in Desks : DocumentHeld(desk[e])'
    BY <2>2, <2>4, <2>5, Zenon DEF RecordsInv, PapersInv, DocumentHeld, WithDoc, KeepsDisk
  <2>8. DocumentsApart'
    <3>1. \A e \in Desks : desk[e].at = "record" => desk[e].doc # doc
      BY Zenon DEF RecordsInv, PapersInv, DocumentHeld
    <3> QED
      BY <2>2, <2>4, <3>1, SMTT(30) DEF RecordsInv, PapersInv, DocumentsApart
  <2>9. LookupHolds(r)
    BY <2>2, Zenon DEF LookupHolds
  <2> QED
    BY <2>2, <2>3, <2>5, <2>6, <2>7, <2>8, <2>9, DocumentStep, Zenon
    DEF PapersInv, KeepsDisk, RecordsInv, RecordsTypes
<1>2. CASE Stat(d)
  <2> DEFINE doc == desk[d].doc
  <2>1. /\ desk[d].at = "stat" /\ desk' = [desk EXCEPT ![d] = Quiet] /\ KeepsGuests
        /\ missing' = missing \cup ({doc} \ files) /\ UNCHANGED <<papers, files, drawn, unsure, strays>>
    BY <1>2, Zenon DEF Stat, Done
  <2>2. desk'[d] = Quiet /\ \A e \in Desks \ {d} : desk'[e] = desk[e]
    BY <2>1, Zenon DEF RecordsInv, RecordsTypes
  <2>3. doc \in drawn /\ \A e \in Desks : desk[e].at = "record" => desk[e].doc # doc
    BY <2>1, Zenon DEF RecordsInv, PapersInv, DocumentHeld, DocumentsApart, WithDoc
  <2>4. FilesMatchRows'
    <3>1. InHand \subseteq InHand'
      BY <2>1, InHandChanges, DeskBlank, ZenonT(30)
    <3> QED
      BY <2>1, <3>1, Zenon DEF RecordsInv, PapersInv, FilesMatchRows, InHand
  <2>5. \A e \in Desks : DocumentHeld(desk[e])'
    BY <2>1, <2>2, <2>3, DeskBlank, SMTT(30) DEF RecordsInv, PapersInv, DocumentHeld, WithDoc
  <2>6. DocumentsApart'
    BY <2>2, DeskBlank, SMTT(30) DEF RecordsInv, PapersInv, DocumentsApart
  <2>7. LookupHolds(Quiet)
    BY DeskBlank, Zenon DEF LookupHolds
  <2> QED
    BY <2>1, <2>3, <2>4, <2>5, <2>6, <2>7, DeskBlank, DocumentStep, Zenon
       DEF PapersInv, RecordsInv, RecordsTypes
<1> QED
  BY <1>1, <1>2, Zenon DEF DownloadDocument

(* A document is deleted, row first and file after it.                      *)
LEMMA DeleteStep ==
  ASSUME RecordsInv, NEW d \in Desks, DeleteDocument(d)
  PROVE  RecordsInv'
<1>1. ASSUME desk[d].at = "idle", NEW doc \in papers, papers' = papers \ {doc}, KeepsGuests,
             desk' = [desk EXCEPT ![d] = [Quiet EXCEPT !.at = "unlink", !.doc = doc]],
             UNCHANGED <<files, drawn, missing, unsure, strays>>
      PROVE  RecordsInv'
  <2> DEFINE r == [Quiet EXCEPT !.at = "unlink", !.doc = doc]
  <2>2. r \in DeskRecords /\ r.at = "unlink" /\ r.doc = doc /\ doc \in drawn
    BY <1>1, Zenon DEF Quiet, DeskRecords, RecordsInv, RecordsTypes
  <2>3. desk' = [desk EXCEPT ![d] = r]
    BY <1>1, Zenon
  <2> HIDE DEF r
  <2>4. desk'[d] = r /\ \A e \in Desks \ {d} : desk'[e] = desk[e]
    BY <2>3, Zenon DEF RecordsInv, RecordsTypes
  <2>5. \A e \in Desks : desk[e].at \in {"record", "unlink"} => desk[e].doc # doc
    BY <1>1, Zenon DEF RecordsInv, PapersInv, DocumentHeld
  <2>6. FilesMatchRows'
    <3>1. InHand \subseteq InHand' /\ doc \in InHand'
      BY <1>1, <2>2, <2>3, InHandChanges, Zenon
    <3> QED
      BY <1>1, <3>1, Zenon DEF RecordsInv, PapersInv, FilesMatchRows, InHand
  <2>7. \A e \in Desks : DocumentHeld(desk[e])'
    BY <1>1, <2>2, <2>4, SMTT(30) DEF RecordsInv, PapersInv, DocumentHeld, WithDoc
  <2>8. DocumentsApart'
    BY <2>2, <2>4, <2>5, SMTT(30) DEF RecordsInv, PapersInv, DocumentsApart
  <2>9. LookupHolds(r)
    BY <2>2, Zenon DEF LookupHolds
  <2> QED
    BY <1>1, <2>2, <2>3, <2>6, <2>7, <2>8, <2>9, DocumentStep, Zenon
       DEF PapersInv, RecordsInv, RecordsTypes
<1>2. CASE /\ desk[d].at = "unlink" /\ Done(d) /\ KeepsGuests /\ UNCHANGED <<papers, drawn, missing, unsure>>
           /\ \/ files' = files \ {desk[d].doc} /\ UNCHANGED strays
              \/ strays' = strays \cup {desk[d].doc} /\ UNCHANGED files
  <2>1. desk[d].doc \notin papers
    BY <1>2, Zenon DEF RecordsInv, PapersInv, DocumentHeld
  <2> QED
    BY <1>2, <2>1, LayDownStep, DeskBlank, Zenon DEF Done
<1> QED
  BY <1>1, <1>2, Zenon DEF DeleteDocument

(* The process restarts, and forgets its requests.                          *)
LEMMA RestartStep == RecordsInv /\ RestartRecords => RecordsInv'
<1> SUFFICES ASSUME RecordsInv, RestartRecords PROVE RecordsInv'
  BY Zenon
<1>1. /\ desk' = [d \in Desks |-> Quiet] /\ strays' = strays \cup InHand /\ KeepsGuests
      /\ UNCHANGED <<papers, files, drawn, missing, unsure>>
  BY Zenon DEF RestartRecords, InHand
<1>2. RecordsTypes'
  BY <1>1, DeskBlank, Zenon DEF RecordsInv, RecordsTypes, KeepsGuests
<1>3. FilesMatchRows'
  BY <1>1, Zenon DEF RecordsInv, PapersInv, FilesMatchRows, InHand
<1>4. DocumentsApart' /\ \A d \in Desks : DocumentHeld(desk[d])'
  BY <1>1, DeskBlank, Zenon DEF DocumentsApart, DocumentHeld, WithDoc
<1>5. GuestsInv'
  <2>1. LookupHolds(Quiet)
    BY DeskBlank, Zenon DEF LookupHolds
  <2> QED
    BY <1>1, <2>1, GuestsFrame, Zenon DEF RecordsInv, KeepsGuests
<1> QED
  BY <1>2, <1>3, <1>4, <1>5, Zenon DEF RecordsInv, PapersInv

(* The invariant of guests and documents is inductive.                      *)
LEMMA RecordsStep == RecordsInv /\ [GuestsNext \/ DocumentsNext]_recordVars => RecordsInv'
<1> SUFFICES ASSUME RecordsInv, [GuestsNext \/ DocumentsNext]_recordVars PROVE RecordsInv'
  BY Zenon
<1>1. CASE GuestsNext
  BY <1>1, BookGuestStep, EnsureGuestStep, CreateGuestStep, Zenon DEF GuestsNext
<1>2. ASSUME NEW d \in Desks, UploadDocument(d) \/ DownloadDocument(d) \/ DeleteDocument(d)
      PROVE  RecordsInv'
  BY <1>2, StoreFileStep, RecordUploadStep, MirrorStep, EnsureGuestStep, DownloadStep,
     DeleteStep, Zenon
  DEF UploadDocument
<1>3. CASE RestartRecords
  BY <1>3, RestartStep, Zenon
<1>4. CASE UNCHANGED recordVars
  <2>1. RecordsTypes'
    BY <1>4, Zenon DEF RecordsInv, RecordsTypes, recordVars
  <2>2. PapersInv'
    BY <1>4, PapersFrame, Zenon DEF RecordsInv, recordVars
  <2>3. GuestsInv'
    BY <1>4, GuestsFrame, Zenon DEF RecordsInv, recordVars
  <2> QED
    BY <2>1, <2>2, <2>3, Zenon DEF RecordsInv
<1> QED
  BY <1>1, <1>2, <1>3, <1>4, Zenon DEF DocumentsNext

(* The invariant of guests and documents holds in every reachable state.    *)
LEMMA RecordsInvariant == RecordsSpec => []RecordsInv
<1> QED
  BY RecordsStart, RecordsStep, PTL DEF RecordsSpec

(* The rows of reservation_documents and the files on the uploads volume     *)
(* answer to each other through uploads, deletions, failures and restarts.   *)
THEOREM DocumentsMatchFiles == RecordsSpec => []FilesMatchRows
<1>1. RecordsInv => FilesMatchRows
  BY Zenon DEF RecordsInv, PapersInv
<1> QED
  BY <1>1, RecordsInvariant, PTL

(* EnsureGuest makes one guest of one phone number, but for rows typed in at *)
(* the CRM or written after their lookup had gone stale.                     *)
THEOREM GuestsMatchedByNumber == RecordsSpec => []OneGuestPerNumber
<1>1. RecordsInv => OneGuestPerNumber
  BY Zenon DEF RecordsInv, GuestsInv
<1> QED
  BY <1>1, RecordsInvariant, PTL

(* SetGuestIdentity never joins the type of one complete document to the     *)
(* number of another, in whatever order uploads and bookings mirror them.    *)
THEOREM ProfileFromOneDocument == RecordsSpec => []IdentityFromOneDocument
<1>1. RecordsInv => IdentityFromOneDocument
  BY Zenon DEF RecordsInv, GuestsInv, ProfileHolds, IdentityFromOneDocument
<1> QED
  BY <1>1, RecordsInvariant, PTL

-----------------------------------------------------------------------------
(* Rows have the shape the code gives them, the phones that the resolver     *)
(* writes are normalised, and the unique index on the phone holds over the   *)
(* rows and the rows of open transactions.                                   *)
CustomerRows == [code : Int, phone : Phones, by : {"desk", "books", "none"}]
TillRecords == [at : {"idle", "find", "code", "insert", "commit", "refused"}, tx : BOOLEAN,
                phone : Phones, code : Int]
Normalised(phone) == phone.form \in {"digits", "trunk"}

CustomerTypes ==
    /\ customers \in Seq(CustomerRows)
    /\ claimed \in [Tills -> CustomerRows]
    /\ till \in [Tills -> TillRecords]

CodesBounded == \E b \in Nat :
    /\ \A i \in Ids : customers[i].code <= b
    /\ \A t \in Tills : till[t].code <= b /\ claimed[t].code <= b

PhonesUnique ==
    /\ \A i, j \in Ids : i # j => ~SamePhone(customers[i], customers[j])
    /\ \A i \in Ids, t \in Tills : ~SamePhone(customers[i], claimed[t])
    /\ \A t, u \in Tills : t # u => ~SamePhone(claimed[t], claimed[u])

PhonesNormalised ==
    /\ \A i \in Ids : customers[i].by = "desk" => Normalised(customers[i].phone)
    /\ \A t \in Tills : Normalised(till[t].phone) /\ Normalised(claimed[t].phone)
    /\ \A t \in Tills : till[t].at # "commit" => claimed[t] = NoClaim

CustomersInv == CustomerTypes /\ CodesBounded /\ PhonesUnique /\ PhonesNormalised

(* The rows that stand for no customer and no request.                      *)
LEMMA CustomerBlank ==
    /\ NoClaim \in CustomerRows /\ NoClaim.phone.number = NoPhone /\ NoClaim.code = -1
    /\ Normalised(NoClaim.phone)
    /\ NoTill \in TillRecords /\ NoTill.phone = NoClaim.phone /\ NoTill.code = 0 /\ NoTill.at = "idle"
<1>1. NoClaim.phone \in Phones
  BY Zenon DEF NoClaim, Phones
<1> QED
  BY <1>1, SMTT(30) DEF NoClaim, NoTill, CustomerRows, TillRecords, Normalised

(* normalisePhone answers with a number in normal form.                     *)
LEMMA PhoneNormalised ==
  ASSUME NEW raw \in Phones
  PROVE  normalisePhone(raw) \in Phones /\ Normalised(normalisePhone(raw))
<1>1. CASE raw \in [number : Subscribers, form : Forms]
  BY <1>1, Zenon DEF normalisePhone, Phones, Normalised, Forms
<1>2. CASE raw = [number |-> NoPhone, form |-> "digits"]
  BY <1>2, Zenon DEF normalisePhone, Phones, Normalised
<1> QED
  BY <1>1, <1>2, Zenon DEF Phones

(* Customer rows have their type.                                           *)
LEMMA RowsTyped ==
  ASSUME CustomersInv
  PROVE  \A i \in Ids : customers[i] \in CustomerRows /\ customers[i].code \in Int
<1>1. \A i \in Ids : customers[i] \in CustomerRows
  BY SMTT(30) DEF CustomersInv, CustomerTypes, Ids
<1>2. \A row \in CustomerRows : row.code \in Int
  BY Zenon DEF CustomerRows
<1> QED
  BY <1>1, <1>2, Zenon

(* A request moves on and writes no row.                                     *)
LEMMA TillStep ==
  ASSUME CustomersInv, NEW t \in Tills, NEW r \in TillRecords, till' = [till EXCEPT ![t] = r],
         Normalised(r.phone), r.at = "commit" => till[t].at = "commit",
         till[t].at = "commit" => r.at = "commit", UNCHANGED <<customers, claimed>>
  PROVE  CustomersInv'
<1>1. till'[t] = r /\ \A u \in Tills \ {t} : till'[u] = till[u]
  BY Zenon DEF CustomersInv, CustomerTypes
<1>2. CustomerTypes' /\ PhonesUnique' /\ PhonesNormalised'
  BY <1>1, Zenon DEF CustomersInv, CustomerTypes, PhonesUnique, PhonesNormalised, Ids, SamePhone
<1>3. CodesBounded'
  <2>1. PICK b \in Nat : /\ \A i \in Ids : customers[i].code <= b
                        /\ \A u \in Tills : till[u].code <= b /\ claimed[u].code <= b
    BY Zenon DEF CustomersInv, CodesBounded
  <2>2. r.code \in Int
    BY Zenon DEF TillRecords
  <2>3. PICK c \in Nat : b <= c /\ r.code <= c
    BY <2>2, SMTT(30)
  <2>a. \A x \in Int : x <= b => x <= c
    BY <2>3, SMTT(30)
  <2>b. \A i \in Ids : customers[i].code \in Int
    BY RowsTyped, Zenon
  <2>c. \A u \in Tills : till[u].code \in Int /\ claimed[u].code \in Int
    BY Zenon DEF CustomersInv, CustomerTypes, CustomerRows, TillRecords
  <2>4. /\ \A i \in Ids : customers[i].code <= c
        /\ \A u \in Tills : till[u].code <= c /\ claimed[u].code <= c
    BY <2>1, <2>a, <2>b, <2>c, Zenon
  <2> QED
    BY <1>1, <2>3, <2>4, Zenon DEF CodesBounded, Ids
<1> QED
  BY <1>2, <1>3, Zenon DEF CustomersInv

(* A row enters the table, or an open transaction, that no unique index      *)
(* refuses.                                                                  *)
LEMMA RowStored ==
  ASSUME CustomersInv, NEW row \in CustomerRows, row.by = "desk" => Normalised(row.phone),
         NEW i \in 1 .. Len(customers) + 1,
         customers' = IF i > Len(customers) THEN Append(customers, row) ELSE [customers EXCEPT ![i] = row],
         \A j \in Ids \ {i} : ~SamePhone(customers[j], row),
         NEW T \in SUBSET Tills, claimed' \in [Tills -> CustomerRows],
         \A u \in Tills : claimed'[u] = IF u \in T THEN NoClaim ELSE claimed[u],
         \A u \in Tills \ T : ~SamePhone(claimed[u], row),
         till' \in [Tills -> TillRecords],
         \A u \in Tills : till'[u] = IF u \in T THEN NoTill ELSE till[u]
  PROVE  CustomersInv'
<1>1. /\ customers' \in Seq(CustomerRows) /\ Len(customers') \in Nat /\ i \in Ids'
      /\ customers'[i] = row /\ \A j \in Ids' \ {i} : j \in Ids /\ customers'[j] = customers[j]
  <2>1. CASE i > Len(customers)
    BY <2>1, SMTT(30) DEF CustomersInv, CustomerTypes, Ids
  <2>2. CASE ~(i > Len(customers))
    BY <2>2, SMTT(30) DEF CustomersInv, CustomerTypes, Ids
  <2> QED
    BY <2>1, <2>2, Zenon
<1>2. \A a, b : SamePhone(a, b) => SamePhone(b, a)
  BY Zenon DEF SamePhone
<1>3. \A a : ~SamePhone(a, NoClaim) /\ ~SamePhone(NoClaim, a)
  BY CustomerBlank, Zenon DEF SamePhone
<1>4. PhonesUnique'
  <2>1. \A j, k \in Ids' : j # k => ~SamePhone(customers'[j], customers'[k])
    <3> SUFFICES ASSUME NEW j \in Ids', NEW k \in Ids', j # k
                 PROVE  ~SamePhone(customers'[j], customers'[k])
      BY Zenon
    <3>1. CASE j = i
      <4>1. customers'[j] = row /\ k \in Ids \ {i} /\ customers'[k] = customers[k]
        BY <1>1, <3>1, Zenon
      <4> QED
        BY <4>1, <1>2, Zenon
    <3>2. CASE k = i
      <4>1. customers'[k] = row /\ j \in Ids \ {i} /\ customers'[j] = customers[j]
        BY <1>1, <3>2, Zenon
      <4> QED
        BY <4>1, Zenon
    <3>3. CASE j # i /\ k # i
      <4>1. j \in Ids /\ k \in Ids /\ customers'[j] = customers[j] /\ customers'[k] = customers[k]
        BY <1>1, <3>3, Zenon
      <4> QED
        BY <4>1, Zenon DEF CustomersInv, PhonesUnique
    <3> QED
      BY <3>1, <3>2, <3>3, Zenon
  <2>2. \A j \in Ids', u \in Tills : ~SamePhone(customers'[j], claimed'[u])
    <3> SUFFICES ASSUME NEW j \in Ids', NEW u \in Tills
                 PROVE  ~SamePhone(customers'[j], claimed'[u])
      BY ZenonT(30)
    <3>1. CASE u \in T
      BY <1>3, <3>1, Zenon
    <3>2. CASE u \notin T /\ j = i
      BY <1>1, <1>2, <3>2, Zenon
    <3>3. CASE u \notin T /\ j # i
      <4>1. j \in Ids /\ customers'[j] = customers[j] /\ claimed'[u] = claimed[u]
        BY <1>1, <3>3, Zenon
      <4> QED
        BY <4>1, Zenon DEF CustomersInv, PhonesUnique
    <3> QED
      BY <3>1, <3>2, <3>3, Zenon
  <2>3. \A u, v \in Tills : u # v => ~SamePhone(claimed'[u], claimed'[v])
    BY <1>3, Zenon DEF CustomersInv, PhonesUnique
  <2> QED
    BY <2>1, <2>2, <2>3, ZenonT(30) DEF PhonesUnique, SamePhone
<1>5. PhonesNormalised'
  <2>1. \A j \in Ids' : customers'[j].by = "desk" => Normalised(customers'[j].phone)
    BY <1>1, ZenonT(30) DEF CustomersInv, PhonesNormalised
  <2>2. \A u \in Tills : /\ Normalised(till'[u].phone) /\ Normalised(claimed'[u].phone)
                         /\ till'[u].at # "commit" => claimed'[u] = NoClaim
    BY CustomerBlank, Zenon DEF CustomersInv, PhonesNormalised
  <2> QED
    BY <2>1, <2>2, Zenon DEF PhonesNormalised, Normalised
<1>6. CodesBounded'
  <2>1. PICK b \in Nat : /\ \A j \in Ids : customers[j].code <= b
                        /\ \A u \in Tills : till[u].code <= b /\ claimed[u].code <= b
    BY Zenon DEF CustomersInv, CodesBounded
  <2>2. row.code \in Int
    BY Zenon DEF CustomerRows
  <2>3. PICK c \in Nat : b <= c /\ row.code <= c
    BY <2>2, SMTT(30)
  <2>4. \A x \in Int : x <= b => x <= c
    BY <2>3, SMTT(30)
  <2>5. \A j \in Ids' : customers'[j].code <= c
    <3>1. \A j \in Ids : customers[j].code \in Int
      BY RowsTyped, Zenon
    <3> QED
      BY <1>1, <2>1, <2>3, <2>4, <3>1, Zenon
  <2>6. \A u \in Tills : till'[u].code <= c /\ claimed'[u].code <= c
    <3>1. \A u \in Tills : till[u].code \in Int /\ claimed[u].code \in Int
      BY Zenon DEF CustomersInv, CustomerTypes, CustomerRows, TillRecords
    <3>2. \A u \in Tills : till[u].code <= c /\ claimed[u].code <= c
      BY <2>1, <2>4, <3>1, Zenon
    <3>3. NoTill.code <= c /\ NoClaim.code <= c
      BY CustomerBlank, SMTT(30)
    <3> QED
      BY <3>2, <3>3, Zenon
  <2> QED
    BY <2>5, <2>6, Zenon DEF CodesBounded
<1> QED
  BY <1>1, <1>4, <1>5, <1>6, Zenon DEF CustomersInv, CustomerTypes

(* Init establishes the invariant of the customers.                         *)
LEMMA CustomersStart == CustomersInit => CustomersInv
<1> SUFFICES ASSUME CustomersInit PROVE CustomersInv
  BY Zenon
<1>1. customers = <<>> /\ Ids = {}
  BY SMTT(30) DEF CustomersInit, Ids
<1>2. \A t \in Tills : claimed[t] = NoClaim /\ till[t] = NoTill
  BY Zenon DEF CustomersInit
<1>3. CustomerTypes
  BY <1>1, CustomerBlank, SMTT(30) DEF CustomersInit, CustomerTypes
<1>4. CodesBounded
  <2>1. NoTill.code <= 0 /\ NoClaim.code <= 0
    BY CustomerBlank, SMTT(30)
  <2> QED
    BY <1>1, <1>2, <2>1, Zenon DEF CodesBounded
<1>5. PhonesUnique /\ PhonesNormalised
  BY <1>1, <1>2, CustomerBlank, Zenon DEF PhonesUnique, PhonesNormalised, SamePhone
<1> QED
  BY <1>3, <1>4, <1>5, Zenon DEF CustomersInv

(* A till inserts the customer, or finds the number taken.                  *)
LEMMA InsertCustomerStep ==
  ASSUME CustomersInv, NEW t \in Tills, InsertCustomer(t)
  PROVE  CustomersInv'
<1> DEFINE row == [code |-> till[t].code, phone |-> till[t].phone, by |-> "desk"]
<1>0. /\ till[t] \in TillRecords /\ till[t].at = "insert" /\ claimed[t] = NoClaim
      /\ Normalised(till[t].phone) /\ row \in CustomerRows /\ Len(customers) \in Nat
  BY SMTT(30)
     DEF CustomersInv, CustomerTypes, PhonesNormalised, InsertCustomer, TillRecords, CustomerRows
<1>1. row.phone = till[t].phone /\ row.code = till[t].code /\ row.by = "desk"
  BY Zenon
<1>2. \A u \in Tills \ {t} : ~SamePhone(claimed[u], row)
  BY Zenon DEF InsertCustomer, MayInsert
<1>3. CASE Resolved(t) /\ UNCHANGED <<customers, claimed>>
  BY <1>0, <1>3, CustomerBlank, TillStep, Zenon DEF Resolved
<1>4. CASE till' = [till EXCEPT ![t].at = "refused"] /\ UNCHANGED <<customers, claimed>>
  <2> DEFINE r == [till[t] EXCEPT !.at = "refused"]
  <2>1. r \in TillRecords /\ r.phone = till[t].phone /\ r.at = "refused"
    BY <1>0, Zenon DEF TillRecords
  <2>2. till' = [till EXCEPT ![t] = r]
    BY <1>4, <1>0, Zenon DEF CustomersInv, CustomerTypes, TillRecords
  <2> HIDE DEF r
  <2> QED
    BY <1>0, <1>4, <2>1, <2>2, TillStep, Zenon
<1>5. CASE /\ \A i \in Ids : ~SamePhone(customers[i], row)
           /\ claimed' = [claimed EXCEPT ![t] = row]
           /\ till' = [till EXCEPT ![t].at = "commit"] /\ UNCHANGED customers
  <2> DEFINE r == [till[t] EXCEPT !.at = "commit"]
  <2>1. r \in TillRecords /\ r.phone = till[t].phone /\ r.code = till[t].code /\ r.at = "commit"
    BY <1>0, Zenon DEF TillRecords
  <2>2. till' = [till EXCEPT ![t] = r]
    BY <1>5, <1>0, Zenon DEF CustomersInv, CustomerTypes, TillRecords
  <2> HIDE DEF r, row
  <2>3. /\ till'[t] = r /\ \A u \in Tills \ {t} : till'[u] = till[u]
        /\ claimed'[t] = row /\ \A u \in Tills \ {t} : claimed'[u] = claimed[u]
        /\ CustomerTypes'
    BY <1>0, <1>5, <2>1, <2>2, Zenon DEF CustomersInv, CustomerTypes
  <2>4. \A a, b : SamePhone(a, b) => SamePhone(b, a)
    BY Zenon DEF SamePhone
  <2>5. PhonesUnique'
    <3>1. \A i \in Ids, u \in Tills : ~SamePhone(customers[i], claimed'[u])
      BY <1>5, <2>3, Zenon DEF CustomersInv, PhonesUnique
    <3>2. \A u, v \in Tills : u # v => ~SamePhone(claimed'[u], claimed'[v])
      BY <1>2, <2>3, <2>4, Zenon DEF CustomersInv, PhonesUnique
    <3>3. \A i, j \in Ids : i # j => ~SamePhone(customers[i], customers[j])
      BY Zenon DEF CustomersInv, PhonesUnique
    <3> QED
      BY <1>5, <3>1, <3>2, <3>3, Zenon DEF PhonesUnique, Ids, SamePhone
  <2>6. PhonesNormalised'
    BY <1>0, <1>1, <1>5, <2>1, <2>3, SMTT(30) DEF CustomersInv, PhonesNormalised, Normalised, Ids
  <2>7. CodesBounded'
    BY <1>1, <1>5, <2>1, <2>3, SMTT(30) DEF CustomersInv, CodesBounded, Ids
  <2> QED
    BY <2>3, <2>5, <2>6, <2>7, Zenon DEF CustomersInv
<1>6. CASE /\ \A i \in Ids : ~SamePhone(customers[i], row)
           /\ customers' = Append(customers, row) /\ Resolved(t) /\ UNCHANGED claimed
  <2> HIDE DEF row
  <2>1. /\ till' \in [Tills -> TillRecords]
        /\ \A u \in Tills : till'[u] = IF u \in {t} THEN NoTill ELSE till[u]
    BY <1>6, CustomerBlank, Zenon DEF Resolved, CustomersInv, CustomerTypes
  <2>2. /\ claimed' \in [Tills -> CustomerRows]
        /\ \A u \in Tills : claimed'[u] = IF u \in {t} THEN NoClaim ELSE claimed[u]
    BY <1>0, <1>6, Zenon DEF CustomersInv, CustomerTypes
  <2> DEFINE i == Len(customers) + 1
  <2>3. i \in 1 .. Len(customers) + 1 /\ i > Len(customers)
    BY <1>0, SMTT(30)
  <2>4. Normalised(row.phone)
    BY <1>0, <1>1, Zenon
  <2> QED
    BY <1>0, <1>2, <1>6, <2>1, <2>2, <2>3, <2>4, RowStored, ZenonT(30)
<1> QED
  BY <1>3, <1>4, <1>5, <1>6, Zenon DEF InsertCustomer

(* The transaction of a till ends.                                          *)
LEMMA EndCustomerTxStep ==
  ASSUME CustomersInv, NEW t \in Tills, EndCustomerTx(t)
  PROVE  CustomersInv'
<1>0. /\ Len(customers) \in Nat /\ claimed[t] \in CustomerRows /\ Normalised(claimed[t].phone)
      /\ till' = [till EXCEPT ![t] = NoTill] /\ claimed' = [claimed EXCEPT ![t] = NoClaim]
  BY SMTT(30) DEF CustomersInv, CustomerTypes, PhonesNormalised, EndCustomerTx, Resolved
<1>1. /\ till' \in [Tills -> TillRecords]
      /\ \A u \in Tills : till'[u] = IF u \in {t} THEN NoTill ELSE till[u]
      /\ claimed' \in [Tills -> CustomerRows]
      /\ \A u \in Tills : claimed'[u] = IF u \in {t} THEN NoClaim ELSE claimed[u]
  BY <1>0, CustomerBlank, Zenon DEF CustomersInv, CustomerTypes
<1>2. CASE customers' = Append(customers, claimed[t])
  <2> DEFINE i == Len(customers) + 1
  <2>a. PICK row \in CustomerRows : row = claimed[t]
    BY <1>0, Zenon
  <2>1. i \in 1 .. Len(customers) + 1 /\ i > Len(customers)
    BY <1>0, SMTT(30)
  <2>2. /\ \A j \in Ids \ {i} : ~SamePhone(customers[j], row)
        /\ \A u \in Tills \ {t} : ~SamePhone(claimed[u], row)
    BY <2>a, Zenon DEF CustomersInv, PhonesUnique
  <2>3. Normalised(row.phone) /\ {t} \in SUBSET Tills
    BY <1>0, <2>a, Zenon
  <2>4. customers' = IF i > Len(customers) THEN Append(customers, row) ELSE [customers EXCEPT ![i] = row]
    BY <1>2, <2>a, <2>1, Zenon
  <2> HIDE DEF i
  <2> QED
    BY <1>1, <2>1, <2>2, <2>3, <2>4, RowStored, Zenon
<1>3. CASE customers' = customers
  <2>1. \A a : ~SamePhone(a, NoClaim) /\ ~SamePhone(NoClaim, a)
    BY CustomerBlank, Zenon DEF SamePhone
  <2>2. PhonesUnique'
    <3>1. \A i \in Ids, u \in Tills : ~SamePhone(customers[i], claimed'[u])
      BY <1>1, <2>1, Zenon DEF CustomersInv, PhonesUnique
    <3>2. \A u, v \in Tills : u # v => ~SamePhone(claimed'[u], claimed'[v])
      BY <1>1, <2>1, Zenon DEF CustomersInv, PhonesUnique
    <3>3. \A i, j \in Ids : i # j => ~SamePhone(customers[i], customers[j])
      BY Zenon DEF CustomersInv, PhonesUnique
    <3> QED
      BY <1>3, <3>1, <3>2, <3>3, Zenon DEF PhonesUnique, Ids, SamePhone
  <2>3. PhonesNormalised'
    BY <1>1, <1>3, CustomerBlank, Zenon DEF CustomersInv, PhonesNormalised, Ids, Normalised
  <2>4. CodesBounded'
    <3>1. PICK b \in Nat : /\ \A i \in Ids : customers[i].code <= b
                          /\ \A u \in Tills : till[u].code <= b /\ claimed[u].code <= b
      BY Zenon DEF CustomersInv, CodesBounded
    <3>2. NoTill.code <= b /\ NoClaim.code <= b
      BY CustomerBlank, SMTT(30)
    <3> QED
      BY <1>1, <1>3, <3>1, <3>2, Zenon DEF CodesBounded, Ids
  <2> QED
    BY <1>1, <1>3, <2>2, <2>3, <2>4, Zenon DEF CustomersInv, CustomerTypes
<1> QED
  BY <1>2, <1>3, Zenon DEF EndCustomerTx

(* The accountant creates or changes a customer.                            *)
LEMMA AccountantSteps ==
  ASSUME CustomersInv, NEW raw \in Phones,
         \/ \E code \in 0..MaxCustomers : CreateCustomer(code, raw)
         \/ \E i \in Ids : UpdateCustomer(i, raw)
  PROVE  CustomersInv'
<1>0. /\ Len(customers) \in Nat /\ {} \in SUBSET Tills
      /\ till \in [Tills -> TillRecords] /\ claimed \in [Tills -> CustomerRows]
  BY SMTT(30) DEF CustomersInv, CustomerTypes
<1>1. ASSUME NEW code \in 0..MaxCustomers, CreateCustomer(code, raw) PROVE CustomersInv'
  <2> DEFINE row == [code |-> code, phone |-> raw, by |-> "books"]
             i == Len(customers) + 1
  <2>1. row \in CustomerRows /\ row.by = "books"
    BY CustomersAssumption, SMTT(30) DEF CustomerRows
  <2>2. i \in 1 .. Len(customers) + 1 /\ i > Len(customers) /\ \A j \in Ids : j # i /\ j # 0
    BY <1>0, SMTT(30) DEF Ids
  <2>3. /\ customers' = Append(customers, row) /\ UNCHANGED <<claimed, till>>
        /\ \A j \in Ids \ {i} : ~SamePhone(customers[j], row)
        /\ \A u \in Tills : ~SamePhone(claimed[u], row)
    BY <1>1, <2>2, Zenon DEF CreateCustomer, Unheld
  <2> HIDE DEF row
  <2> QED
    BY <1>0, <2>1, <2>2, <2>3, RowStored, Zenon
<1>2. ASSUME NEW i \in Ids, UpdateCustomer(i, raw) PROVE CustomersInv'
  <2> DEFINE row == [customers[i] EXCEPT !.phone = raw, !.by = "books"]
  <2>1. row \in CustomerRows /\ row.by = "books"
    <3>1. customers[i] \in CustomerRows
      BY RowsTyped, Zenon
    <3> QED
      BY <3>1, Zenon DEF CustomerRows
  <2>2. i \in 1 .. Len(customers) + 1 /\ ~(i > Len(customers))
    BY <1>0, SMTT(30) DEF Ids
  <2>3. /\ customers' = [customers EXCEPT ![i] = row] /\ UNCHANGED <<claimed, till>>
        /\ \A j \in Ids \ {i} : ~SamePhone(customers[j], row)
        /\ \A u \in Tills : ~SamePhone(claimed[u], row)
    BY <1>2, Zenon DEF UpdateCustomer, Unheld
  <2> HIDE DEF row
  <2> QED
    BY <1>0, <2>1, <2>2, <2>3, RowStored, Zenon
<1> QED
  BY <1>1, <1>2, Zenon

-----------------------------------------------------------------------------
(* Linen: the counters are integers, and a request carries its quantities.   *)
LinenTypes ==
    /\ linen \in [total : Int, in_use : Int, laundry : Int, damaged : Int]
    /\ clamped \in BOOLEAN
    /\ porter \in [Porters -> [at : {"idle", "issue", "return"}, q : Nat, d : Nat]]

(* The pieces of an item are conserved by IssueLinen and ReturnLinen, in any *)
(* interleaving and whichever counter updates fail, until a counter is cut.  *)
THEOREM LinenPiecesConserved == LinenSpec => []PiecesConserved
<1> DEFINE I == LinenTypes /\ PiecesConserved
<1>0. \A n \in Int : Greatest0(n) \in Int
  BY SMTT(30) DEF Greatest0
<1>1. LinenInit => I
  <2> SUFFICES ASSUME LinenInit PROVE I
    BY Zenon
  <2>1. linen = [total |-> Stocked, in_use |-> 0, laundry |-> 0, damaged |-> 0] /\ Stocked \in Int
    BY LinenAssumption, SMTT(30) DEF LinenInit
  <2>a. linen \in [total : Int, in_use : Int, laundry : Int, damaged : Int]
    BY <2>1, SMTT(30)
  <2>b. NoPorter \in [at : {"idle", "issue", "return"}, q : Nat, d : Nat]
    BY Zenon DEF NoPorter
  <2>2. LinenTypes
    BY <2>a, <2>b, Zenon DEF LinenInit, LinenTypes
  <2> QED
    BY <2>1, <2>2, SMTT(30) DEF PiecesConserved
<1>2. I /\ [LinenNext]_linenVars => I'
  <2> SUFFICES ASSUME I, [LinenNext]_linenVars PROVE I'
    BY Zenon
  <2>1. ASSUME NEW p \in Porters, NEW q \in Bundles, NEW d \in 0..2,
               IssueInsert(p, q) \/ ReturnInsert(p, q, d)
        PROVE  I'
    BY <2>1, LinenAssumption, SMTT(30)
       DEF IssueInsert, ReturnInsert, Logged, LinenTypes, PiecesConserved
  <2>2. ASSUME NEW p \in Porters, IssueUpdate(p) PROVE I'
    <3>1. porter' \in [Porters -> [at : {"idle", "issue", "return"}, q : Nat, d : Nat]] /\ porter[p].q \in Nat
      BY <2>2, Zenon DEF IssueUpdate, NoPorter, LinenTypes
    <3>2. CASE UNCHANGED <<linen, clamped>>
      BY <3>1, <3>2, Zenon DEF LinenTypes, PiecesConserved
    <3>3. CASE linen' = AppliedIssue(porter[p].q) /\ clamped' = (clamped \/ linen.total < porter[p].q)
      <4>1. /\ linen'.in_use = linen.in_use + porter[p].q /\ linen'.total = Greatest0(linen.total - porter[p].q)
            /\ linen'.laundry = linen.laundry /\ linen'.damaged = linen.damaged
            /\ linen' \in [total : Int, in_use : Int, laundry : Int, damaged : Int]
        <5>1. PICK x \in Int : x = Greatest0(linen.total - porter[p].q)
          BY <1>0, <3>1, SMTT(30) DEF LinenTypes
        <5>2. PICK z \in Int : z = linen.in_use + porter[p].q
          BY <3>1, SMTT(30) DEF LinenTypes
        <5>3. linen' = [linen EXCEPT !.in_use = z, !.total = x]
          BY <3>3, <5>1, <5>2, Zenon DEF AppliedIssue, LinenTypes
        <5>4. /\ linen'.in_use = z /\ linen'.total = x
              /\ linen'.laundry = linen.laundry /\ linen'.damaged = linen.damaged
              /\ linen' \in [total : Int, in_use : Int, laundry : Int, damaged : Int]
          BY <5>3, Zenon DEF LinenTypes
        <5> QED
          BY <5>1, <5>2, <5>4, Zenon
      <4>2. clamped' \in BOOLEAN /\ (~clamped' => ~clamped /\ ~(linen.total < porter[p].q))
        BY <3>3, Zenon
      <4> QED
        BY <3>1, <4>1, <4>2, SMTT(30) DEF LinenTypes, PiecesConserved, Greatest0
    <3> QED
      BY <2>2, <3>2, <3>3, Zenon DEF IssueUpdate, Unapplied
  <2>3. ASSUME NEW p \in Porters, ReturnUpdate(p) PROVE I'
    <3> DEFINE j == porter[p]
    <3>1. /\ porter' \in [Porters -> [at : {"idle", "issue", "return"}, q : Nat, d : Nat]]
          /\ j.q \in Nat /\ j.d \in Nat
      BY <2>3, Zenon DEF ReturnUpdate, NoPorter, LinenTypes
    <3>2. CASE UNCHANGED <<linen, clamped>>
      BY <3>1, <3>2, Zenon DEF LinenTypes, PiecesConserved
    <3>3. CASE linen' = AppliedReturn(j.q, j.d) /\ clamped' = (clamped \/ linen.in_use < j.q \/ j.q < j.d)
      <4>1. /\ linen'.in_use = Greatest0(linen.in_use - j.q) /\ linen'.total = linen.total
            /\ linen'.laundry = linen.laundry + Greatest0(j.q - j.d) /\ linen'.damaged = linen.damaged + j.d
            /\ linen' \in [total : Int, in_use : Int, laundry : Int, damaged : Int]
        <5>1. PICK x \in Int : x = Greatest0(linen.in_use - j.q)
          BY <1>0, <3>1, SMTT(30) DEF LinenTypes
        <5>2. PICK y \in Int : y = Greatest0(j.q - j.d)
          BY <1>0, <3>1, SMTT(30)
        <5>3. PICK z \in Int : z = linen.laundry + y
          BY SMTT(30) DEF LinenTypes
        <5>4. PICK w \in Int : w = linen.damaged + j.d
          BY <3>1, SMTT(30) DEF LinenTypes
        <5>5. linen' = [linen EXCEPT !.in_use = x, !.laundry = z, !.damaged = w]
          BY <3>3, <5>1, <5>2, <5>3, <5>4, Zenon DEF AppliedReturn, LinenTypes
        <5>6. /\ linen'.in_use = x /\ linen'.total = linen.total
              /\ linen'.laundry = z /\ linen'.damaged = w
              /\ linen' \in [total : Int, in_use : Int, laundry : Int, damaged : Int]
          BY <5>5, Zenon DEF LinenTypes
        <5> QED
          BY <5>1, <5>2, <5>3, <5>4, <5>6, Zenon
      <4>2. clamped' \in BOOLEAN /\ (~clamped' => ~clamped /\ ~(linen.in_use < j.q) /\ ~(j.q < j.d))
        BY <3>3, Zenon
      <4> QED
        BY <3>1, <4>1, <4>2, SMTT(30) DEF LinenTypes, PiecesConserved, Greatest0
    <3> QED
      BY <2>3, <3>2, <3>3, Zenon DEF ReturnUpdate, Unapplied
  <2>4. CASE UNCHANGED linenVars
    BY <2>4, Zenon DEF linenVars, LinenTypes, PiecesConserved
  <2> QED
    BY <2>1, <2>2, <2>3, <2>4, SMTT(30) DEF LinenNext, IssueLinen, ReturnLinen
<1> QED
  BY <1>1, <1>2, PTL DEF LinenSpec

-----------------------------------------------------------------------------
INSTANCE WellFoundedInduction

(* The next customer code, and what rests on it.                            *)

(* Customers.  A set of integers with an upper bound has a greatest element. *)
LEMMA MaxIsGreatest ==
  ASSUME NEW S, S \subseteq Int, S # {}, NEW b \in Int, \A x \in S : x <= b
  PROVE  Max(S) \in S /\ \A y \in S : y <= Max(S)
<1> DEFINE R == {ss \in Nat \X Nat : ss[1] < ss[2]}
           T == {b - x : x \in S}
<1>1. OpToRel(<, Nat) = R
  BY Zenon DEF OpToRel
<1>2. IsWellFoundedOn(R, Nat)
  BY <1>1, NatLessThanWellFounded, Zenon
<1>3. T \subseteq Nat /\ T # {}
  <2>1. \A x \in S : b - x \in Nat
    OBVIOUS
  <2>2. T # {}
    BY Zenon
  <2> QED
    BY <2>1, <2>2, Zenon
<1>4. PICK z \in T : \A y \in T : ~(<<y, z>> \in R)
  <2> HIDE DEF R, T
  <2> QED
    BY <1>2, <1>3, WFMin, Zenon
<1>5. PICK x \in S : z = b - x
  BY Zenon
<1>6. \A y \in S : y <= x
  <2> TAKE y \in S
  <2>1. b - y \in T /\ b - y \in Nat /\ z \in Nat
    BY <1>3, Zenon
  <2>2. ~(b - y < z)
    BY <1>4, <2>1, Zenon
  <2> QED
    BY <1>5, <2>2, SMTT(30)
<1> QED
  BY <1>6, Zenon DEF Max

(* A till looks for the customer and the next code.                         *)
LEMMA ResolveSteps ==
  ASSUME CustomersInv, NEW t \in Tills,
         \/ \E raw \in Phones, tx \in BOOLEAN : Resolve(t, raw, tx)
         \/ FindByPhone(t) \/ nextCustomerCode(t) \/ TurnAway(t)
  PROVE  CustomersInv'
<1>0. till[t] \in TillRecords /\ Normalised(till[t].phone)
  BY Zenon DEF CustomersInv, CustomerTypes, PhonesNormalised
<1>1. ASSUME NEW raw \in Phones, NEW tx \in BOOLEAN, Resolve(t, raw, tx) PROVE CustomersInv'
  <2> DEFINE r == [at |-> IF raw.number = NoPhone THEN "code" ELSE "find", tx |-> tx,
                   phone |-> normalisePhone(raw), code |-> 0]
  <2>1. r \in TillRecords /\ r.phone = normalisePhone(raw) /\ r.at # "commit"
    BY PhoneNormalised, SMTT(30) DEF TillRecords
  <2>2. till' = [till EXCEPT ![t] = r] /\ till[t].at = "idle" /\ UNCHANGED <<customers, claimed>>
    BY <1>1, Zenon DEF Resolve
  <2> HIDE DEF r
  <2> QED
    BY <2>1, <2>2, PhoneNormalised, TillStep, Zenon
<1>2. CASE FindByPhone(t)
  <2>1. CASE Resolved(t)
    BY <1>2, <2>1, CustomerBlank, TillStep, Zenon DEF FindByPhone, Resolved
  <2>2. CASE till' = [till EXCEPT ![t].at = "code"]
    <3> DEFINE r == [till[t] EXCEPT !.at = "code"]
    <3>1. r \in TillRecords /\ r.phone = till[t].phone /\ r.at = "code"
      BY <1>0, Zenon DEF TillRecords
    <3>2. till' = [till EXCEPT ![t] = r]
      BY <2>2, <1>0, Zenon DEF CustomersInv, CustomerTypes, TillRecords
    <3> HIDE DEF r
    <3> QED
      BY <1>0, <1>2, <3>1, <3>2, TillStep, Zenon DEF FindByPhone
  <2> QED
    BY <1>2, <2>1, <2>2, Zenon DEF FindByPhone
<1>3. CASE nextCustomerCode(t)
  <2> DEFINE S == {0} \cup {customers[i].code : i \in Ids}
             r == [till[t] EXCEPT !.at = "insert", !.code = Max(S) + 1]
  <2>1. Max(S) \in Int
    <3>1. PICK b \in Nat : \A i \in Ids : customers[i].code <= b
      BY Zenon DEF CustomersInv, CodesBounded
    <3>2. S \subseteq Int /\ S # {}
      BY RowsTyped, SMTT(30)
    <3>3. b \in Int /\ \A x \in S : x <= b
      BY <3>1, SMTT(30)
    <3> HIDE DEF S
    <3> QED
      BY <3>2, <3>3, MaxIsGreatest, Zenon
  <2>2. Max(S) + 1 \in Int
    BY <2>1, SMTT(30)
  <2> HIDE DEF S
  <2>3. r \in TillRecords /\ r.phone = till[t].phone /\ r.at = "insert"
    BY <1>0, <2>2, Zenon DEF TillRecords
  <2>4. till' = [till EXCEPT ![t] = r]
    BY <1>3, <1>0, Zenon DEF nextCustomerCode, CustomersInv, CustomerTypes, TillRecords, S
  <2> HIDE DEF r
  <2> QED
    BY <1>0, <1>3, <2>3, <2>4, TillStep, Zenon DEF nextCustomerCode
<1>4. CASE TurnAway(t)
  BY <1>4, CustomerBlank, TillStep, Zenon DEF TurnAway, Resolved
<1> QED
  BY <1>1, <1>2, <1>3, <1>4, Zenon

(* The invariant of the customers is inductive.                             *)
LEMMA CustomersStep == CustomersInv /\ [CustomersNext]_customerVars => CustomersInv'
<1> SUFFICES ASSUME CustomersInv, [CustomersNext]_customerVars PROVE CustomersInv'
  BY Zenon
<1>1. ASSUME NEW t \in Tills, ensureAccountingCustomer(t) PROVE CustomersInv'
  BY <1>1, ResolveSteps, InsertCustomerStep, EndCustomerTxStep, Zenon DEF ensureAccountingCustomer
<1>2. CASE UNCHANGED customerVars
  BY <1>2, Zenon
     DEF customerVars, CustomersInv, CustomerTypes, CodesBounded, PhonesUnique, PhonesNormalised,
              Ids, SamePhone
<1> QED
  BY <1>1, <1>2, AccountantSteps, Zenon DEF CustomersNext

(* However tills, bookings and channel deliveries interleave with each other *)
(* and with the accountant's screens, ensureAccountingCustomer gives one     *)
(* person one customer, but for numbers typed with a trunk prefix.           *)
THEOREM CustomersAreOne == CustomersSpec => []OneCustomerPerPerson
<1>1. CustomersInv => OneCustomerPerPerson
  <2> SUFFICES ASSUME CustomersInv, NEW i \in Ids, NEW j \in Ids, i # j,
                      customers[i].phone.number = customers[j].phone.number,
                      customers[i].by = "desk", customers[j].by = "desk",
                      customers[i].phone.number # NoPhone,
                      customers[i].phone.form # "trunk", customers[j].phone.form # "trunk"
               PROVE  FALSE
    BY Zenon DEF OneCustomerPerPerson
  <2>1. customers[i].phone \in Phones /\ customers[j].phone \in Phones
    BY RowsTyped, Zenon DEF CustomerRows
  <2>2. customers[i].phone.form = "digits" /\ customers[j].phone.form = "digits"
    BY Zenon DEF CustomersInv, PhonesNormalised, Normalised
  <2>3. \A p, q \in Phones : p.number = q.number /\ p.form = q.form => p = q
    BY SMTT(30) DEF Phones
  <2>4. customers[i].phone = customers[j].phone
    BY <2>1, <2>2, <2>3, Zenon
  <2> QED
    BY <2>4, Zenon DEF CustomersInv, PhonesUnique, SamePhone
<1> QED
  BY <1>1, CustomersStart, CustomersStep, PTL DEF CustomersSpec

=============================================================================
