---------------------------- MODULE GuestRecords ----------------------------
(* Guests of the CRM and the identity documents captured for their stays:    *)
(* EnsureGuest and SetGuestIdentity (room_repository.go) as bookings and     *)
(* uploads call them, the document handlers (reservation_documents.go) with  *)
(* their files on the uploads volume, and the CRM's own screen.              *)
EXTENDS Naturals, Sequences, FiniteSets

CONSTANTS
  Desks,             \* requests in flight
  Docs,              \* document ids, each drawn once
  Typed, Numbered,   \* the documents that came with a type, with a number
  Contacts,          \* what a stay records: [phone, email], Blank where not given
  Blank,
  Last10,            \* phone as typed -> its last ten digits, Blank if it is shorter
  MaxGuests,         \* bound: rows
  MaxDiskFaults      \* bound: failures and restarts

NoDoc == "no document"

ASSUME RecordsAssumption ==
    /\ Typed \cup Numbered = Docs /\ NoDoc \notin Docs /\ MaxGuests \in Nat
    /\ \A k \in Contacts : k.phone = Blank \/ k.phone \in DOMAIN Last10

VARIABLES
  guests,       \* rows: phone, email, and the documents that gave id_type and id_number
  papers,       \* reservation_documents
  files,        \* on the uploads volume
  desk,         \* requests between their statements
  drawn,        \* document ids already used
  missing,      \* history: documents answered as no longer present
  unmatched,    \* history: guests written without a lookup, or after it had gone stale
  unsure,       \* history: documents whose INSERT was applied but reported as failed
  strays,       \* history: documents a failure or a restart cut off
  diskFaults

recordVars == <<guests, papers, files, desk, drawn, missing, unmatched, unsure, strays, diskFaults>>

Nobody == [phone |-> Blank, email |-> Blank]
Quiet == [at |-> "idle", tx |-> FALSE, doc |-> NoDoc, guest |-> 0, contact |-> Nobody, stale |-> FALSE]

RecordsInit ==
    /\ guests = <<>> /\ papers = {} /\ files = {} /\ drawn = {}
    /\ desk = [d \in Desks |-> Quiet]
    /\ missing = {} /\ unmatched = {} /\ unsure = {} /\ strays = {} /\ diskFaults = 0

Breaks == diskFaults < MaxDiskFaults /\ diskFaults' = diskFaults + 1
Goes(d, at) == desk' = [desk EXCEPT ![d].at = at]
Done(d) == desk' = [desk EXCEPT ![d] = Quiet]
KeepsGuests == UNCHANGED <<guests, unmatched>>
KeepsDisk == UNCHANGED <<papers, files, drawn, missing, unsure, strays>>

-----------------------------------------------------------------------------
(* EnsureGuest: by phone, then by e-mail, then a new row, one statement at a *)
(* time.  A phone of fewer than ten digits matches nobody.                   *)
SameNumber(p, q) == p # Blank /\ q # Blank /\ Last10[p] # Blank /\ Last10[p] = Last10[q]
ByPhoneAsTyped(k) == {i \in 1..Len(guests) : k.phone # Blank /\ k.phone = guests[i].phone}
ByPhone(k) == {i \in 1..Len(guests) : SameNumber(k.phone, guests[i].phone)}
ByEmail(k) == {i \in 1..Len(guests) : k.email # Blank /\ guests[i].email = k.email}

(* LIMIT 1 without an order: any of the matches.                             *)
LookUp(d, at, matches, otherwise) ==
    /\ desk[d].at = at
    /\ \/ \E i \in matches : desk' = [desk EXCEPT ![d].at = "backfill", ![d].guest = i]
       \/ matches = {} /\ Goes(d, otherwise)
    /\ KeepsGuests /\ KeepsDisk /\ UNCHANGED diskFaults

Or(a, b) == IF a # Blank THEN a ELSE b
Backfilled(g, k) == [g EXCEPT !.phone = Or(@, k.phone), !.email = Or(@, k.email)]
Registered(k) == [phone |-> k.phone, email |-> k.email, idType |-> NoDoc, idNumber |-> NoDoc]

(* SetGuestIdentity fills id_type and id_number, each on its own.            *)
SetGuestIdentity(g, doc) ==
    [g EXCEPT !.idType = IF @ = NoDoc /\ doc \in Typed THEN doc ELSE @,
              !.idNumber = IF @ = NoDoc /\ doc \in Numbered THEN doc ELSE @]

(* Guest i becomes g; the lookups of the other requests are then stale.      *)
Outdated(e) ==
    [desk[e] EXCEPT !.stale = @ \/ desk[e].at \in {"email", "insert", "backfill"}]
WriteGuest(d, i, g, next) ==
    /\ guests' = IF i > Len(guests) THEN Append(guests, g) ELSE [guests EXCEPT ![i] = g]
    /\ unmatched' = unmatched \cup {j \in {i} : desk[d].stale}
    /\ desk' = [e \in Desks |-> IF e = d THEN next ELSE Outdated(e)]

(* Blanks of a match are filled in, nothing is overwritten; an error there   *)
(* is ignored.                                                               *)
Resolution(d) ==
    IF desk[d].at = "backfill"
    THEN [id |-> desk[d].guest, row |-> Backfilled(guests[desk[d].guest], desk[d].contact)]
    ELSE [id |-> Len(guests) + 1, row |-> Registered(desk[d].contact)]

EnsureGuest(d) ==
    \/ LookUp(d, "phone", ByPhone(desk[d].contact), "email")
    \/ LookUp(d, "email", ByEmail(desk[d].contact), "insert")
    \/ LET r == Resolution(d) IN
       /\ desk[d].at \in {"backfill", "insert"} /\ ~desk[d].tx /\ r.id <= MaxGuests
       /\ \/ /\ WriteGuest(d, r.id, r.row, [desk[d] EXCEPT !.at = "identity", !.guest = r.id])
             /\ UNCHANGED diskFaults
          \/ desk[d].at = "backfill" /\ Breaks /\ Goes(d, "identity") /\ KeepsGuests
       /\ KeepsDisk

(* A booking resolves its guest inside its transaction, with the identity    *)
(* the form captured, if any; nobody sees what it wrote before it commits,   *)
(* and a later statement of the booking may roll it back.                    *)
BookGuest(d) ==
    \/ /\ desk[d].at = "idle"
       /\ \E k \in Contacts \ {Nobody}, doc \in {NoDoc} \cup (Docs \ drawn) :
            /\ desk' = [desk EXCEPT ![d] = [Quiet EXCEPT !.at = "phone", !.tx = TRUE, !.doc = doc, !.contact = k]]
            /\ drawn' = drawn \cup ({doc} \ {NoDoc})
       /\ KeepsGuests /\ UNCHANGED <<papers, files, missing, unsure, strays, diskFaults>>
    \/ /\ desk[d].at \in {"backfill", "insert"} /\ desk[d].tx
       /\ LET r == Resolution(d) IN
          \/ r.id <= MaxGuests /\ WriteGuest(d, r.id, SetGuestIdentity(r.row, desk[d].doc), Quiet)
          \/ Done(d) /\ KeepsGuests
       /\ KeepsDisk /\ UNCHANGED diskFaults

(* The CRM's screen inserts without looking.                                 *)
CreateGuest(d, k) ==
    /\ desk[d].at = "idle" /\ Len(guests) < MaxGuests
    /\ guests' = Append(guests, Registered(k))
    /\ unmatched' = unmatched \cup {Len(guests) + 1}
    /\ desk' = [e \in Desks |-> IF e = d THEN desk[d] ELSE Outdated(e)]
    /\ KeepsDisk /\ UNCHANGED diskFaults

-----------------------------------------------------------------------------
(* UploadDocument: the bytes, then the row, then the guest's profile.        *)
StoreFile(d) ==
    /\ desk[d].at = "idle"
    /\ \E doc \in Typed \ drawn, k \in Contacts :
         /\ drawn' = drawn \cup {doc}
         /\ \/ /\ files' = files \cup {doc} /\ UNCHANGED <<strays, diskFaults>>
               /\ desk' = [desk EXCEPT ![d] = [Quiet EXCEPT !.at = "record", !.doc = doc, !.contact = k]]
            \/ /\ Breaks /\ files' \in {files, files \cup {doc}}   \* a failed write may leave a part
               /\ strays' = strays \cup {doc} /\ UNCHANGED desk
    /\ KeepsGuests /\ UNCHANGED <<papers, missing, unsure>>

(* As RecordUpload, but a failed INSERT leaves the file.                     *)
LeaveFile(d) ==
    LET doc == desk[d].doc IN
    /\ desk[d].at = "record"
    /\ \/ /\ papers' = papers \cup {doc} /\ UNCHANGED diskFaults
          /\ Goes(d, IF desk[d].contact = Nobody THEN "idle" ELSE "phone")
       \/ Breaks /\ Done(d) /\ UNCHANGED papers
    /\ KeepsGuests /\ UNCHANGED <<files, drawn, missing, unsure, strays>>

(* A failed INSERT takes the file away again; the database may have applied  *)
(* it all the same.                                                          *)
RecordUpload(d) ==
    LET doc == desk[d].doc IN
    /\ desk[d].at = "record"
    /\ \/ /\ papers' = papers \cup {doc} /\ UNCHANGED <<files, unsure, strays, diskFaults>>
          /\ Goes(d, IF desk[d].contact = Nobody THEN "idle" ELSE "phone")
       \/ /\ Breaks /\ Done(d)
          /\ \/ files' = files \ {doc} /\ UNCHANGED strays
             \/ strays' = strays \cup {doc} /\ UNCHANGED files
          /\ \/ UNCHANGED <<papers, unsure>>
             \/ papers' = papers \cup {doc} /\ unsure' = unsure \cup {doc}
    /\ KeepsGuests /\ UNCHANGED <<drawn, missing>>

(* The mirror is best effort: an error anywhere in it is not reported.       *)
MirrorIdentity(d) ==
    /\ ~desk[d].tx /\ Done(d)
    /\ \/ /\ desk[d].at = "identity" /\ UNCHANGED <<unmatched, diskFaults>>
          /\ guests' = [guests EXCEPT ![desk[d].guest] = SetGuestIdentity(@, desk[d].doc)]
       \/ desk[d].at \in {"phone", "email", "insert", "identity"} /\ Breaks /\ KeepsGuests
    /\ KeepsDisk

UploadDocument(d) ==
    StoreFile(d) \/ RecordUpload(d) \/ MirrorIdentity(d) \/ (~desk[d].tx /\ EnsureGuest(d))

(* DownloadDocument and ListDocuments read rows, then look at the disk.      *)
ReadRows(d) ==
    /\ desk[d].at = "idle"
    /\ \E doc \in papers : desk' = [desk EXCEPT ![d] = [Quiet EXCEPT !.at = "stat", !.doc = doc]]
    /\ KeepsGuests /\ KeepsDisk /\ UNCHANGED diskFaults
Stat(d) ==
    /\ desk[d].at = "stat" /\ Done(d)
    /\ missing' = missing \cup ({desk[d].doc} \ files)
    /\ KeepsGuests /\ UNCHANGED <<papers, files, drawn, unsure, strays, diskFaults>>
DownloadDocument(d) == ReadRows(d) \/ Stat(d)

(* DeleteDocument: the row, then the bytes.                                  *)
DeleteDocument(d) ==
    \/ /\ desk[d].at = "idle"
       /\ \E doc \in papers : /\ papers' = papers \ {doc}
                            /\ desk' = [desk EXCEPT ![d] = [Quiet EXCEPT !.at = "unlink", !.doc = doc]]
       /\ KeepsGuests /\ UNCHANGED <<files, drawn, missing, unsure, strays, diskFaults>>
    \/ /\ desk[d].at = "unlink" /\ Done(d)
       /\ \/ files' = files \ {desk[d].doc} /\ UNCHANGED <<strays, diskFaults>>
          \/ Breaks /\ strays' = strays \cup {desk[d].doc} /\ UNCHANGED files
       /\ KeepsGuests /\ UNCHANGED <<papers, drawn, missing, unsure>>

(* The server restarts: requests and open transactions are gone, rows and    *)
(* files stay.                                                               *)
RestartRecords ==
    /\ Breaks /\ desk' = [d \in Desks |-> Quiet]
    /\ strays' = strays \cup {desk[d].doc : d \in {e \in Desks : desk[e].at \in {"record", "unlink"}}}
    /\ KeepsGuests /\ UNCHANGED <<papers, files, drawn, missing, unsure>>

GuestsNext ==
    \E d \in Desks : BookGuest(d) \/ EnsureGuest(d) \/ \E k \in Contacts : CreateGuest(d, k)
DocumentsNext ==
    \/ \E d \in Desks : UploadDocument(d) \/ DownloadDocument(d) \/ DeleteDocument(d)
    \/ RestartRecords

RecordsSpec == RecordsInit /\ [][GuestsNext \/ DocumentsNext]_recordVars

-----------------------------------------------------------------------------
(* Rows and files answer to each other, whatever fails or restarts between   *)
(* the two.  A row never points at a file that is not there, except where    *)
(* the INSERT was applied although it was reported as failed: UploadDocument *)
(* then removed the file.  A file without a row is one being uploaded or     *)
(* deleted, or one that a failure or a restart cut off: no ordinary path     *)
(* leaves a guest's document behind on the disk.  And "the stored file is no *)
(* longer present" is never said of a document the hotel still keeps.        *)
FilesMatchRows ==
    /\ papers \ files \subseteq unsure
    /\ files \ papers \subseteq
          strays \cup {desk[d].doc : d \in {e \in Desks : desk[e].at \in {"record", "unlink"}}}
    /\ missing \cap papers \subseteq unsure

(* One person is one guest: two rows with the same ten digits only when one  *)
(* was typed in at the CRM or written after its lookup had gone stale.       *)
OneGuestPerNumber ==
    \A i, j \in 1..Len(guests) :
        i # j /\ SameNumber(guests[i].phone, guests[j].phone) => {i, j} \cap unmatched # {}

(* The type and the number on a profile belong to one document, unless the   *)
(* documents were each captured with one of the two.                         *)
IdentityFromOneDocument ==
    \A i \in 1..Len(guests) :
        LET t == guests[i].idType  n == guests[i].idNumber IN
        t # n => t = NoDoc \/ n = NoDoc \/ t \notin Numbered \/ n \notin Typed
=============================================================================
