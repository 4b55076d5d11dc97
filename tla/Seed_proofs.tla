---------------------------- MODULE Seed_proofs ----------------------------
(***************************************************************************)
(* Theorems about addresses, for numbers of any length, and about Seed,    *)
(* for any people, any number of runs and any registrations by others.     *)
(***************************************************************************)
EXTENDS Seed, SequenceTheorems, TLAPS

-----------------------------------------------------------------------------
(***************************************************************************)
(* Addresses.                                                              *)
(***************************************************************************)

LEMMA PhoneShape ==
    ASSUME NEW raw \in RawAddresses, raw.kind = "phone"
    PROVE  /\ raw.uri \in Nat /\ raw.plus \in {"none", "first", "later"}
           /\ raw.letter \in BOOLEAN /\ raw.digits \in Seq(Digits)
BY DEF RawAddresses

LEMMA EmailShape ==
    ASSUME NEW raw \in RawAddresses, raw.kind # "phone"
    PROVE  /\ raw.kind = "email" /\ raw.uri \in Nat /\ raw.caps \in BOOLEAN
           /\ raw.flaw \in Flaws /\ raw.mailbox \in Mailboxes
BY DEF RawAddresses

LEMMA CanonicalShape ==
    ASSUME NEW digits \in Seq(Digits)
    PROVE  /\ Canonical(digits) \in RawAddresses
           /\ Canonical(digits).kind = "phone" /\ Canonical(digits).plus = "first"
           /\ Canonical(digits).digits = digits
BY DEF RawAddresses, Canonical, Phone

\* A full number is a sequence of digits of a length there are numbers of.
LEMMA FullNumberIs ==
    ASSUME NEW number
    PROVE  number \in FullNumbers <=> /\ number \in Seq(Digits)
                                      /\ Len(number) \in MinPhoneDigits..MaxPhoneDigits
<1>1. ASSUME number \in FullNumbers
      PROVE  number \in Seq(Digits) /\ Len(number) \in MinPhoneDigits..MaxPhoneDigits
  <2>1. PICK n \in MinPhoneDigits..MaxPhoneDigits : number \in [1..n -> Digits]
    BY <1>1 DEF FullNumbers
  <2>2. n \in Nat
    BY AddressesAssumption
  <2> QED
    BY <2>1, <2>2
<1>2. ASSUME number \in Seq(Digits), Len(number) \in MinPhoneDigits..MaxPhoneDigits
      PROVE  number \in FullNumbers
  <2>1. number \in [1..Len(number) -> Digits]
    BY <1>2
  <2> QED
    BY <1>2, <2>1 DEF FullNumbers
<1> QED
  BY <1>1, <1>2

LEMMA CanonicalDiffers ==
    ASSUME NEW d, NEW e
    PROVE  /\ Canonical(d) = Canonical(e) => d = e
           /\ Canonical(d) # NoAddress
<1>1. Canonical(d).digits = d /\ Canonical(e).digits = e /\ Canonical(d).kind = "phone"
  BY DEF Canonical, Phone
<1>2. NoAddress.kind = "none"
  BY DEF NoAddress
<1> QED
  BY <1>1, <1>2

\* The digits under which a readable phone number is stored.
KeyDigits(raw) ==
    IF raw.plus # "first" /\ Len(raw.digits) = NationalLength
    THEN <<CountryCode>> \o raw.digits
    ELSE raw.digits

LEMMA WithCountryCode ==
    ASSUME NEW digits \in Seq(Digits), Len(digits) = NationalLength
    PROVE  /\ <<CountryCode>> \o digits \in Seq(Digits)
           /\ Len(<<CountryCode>> \o digits) = NationalLength + 1
           /\ (<<CountryCode>> \o digits)[1] = CountryCode
           /\ Tail(<<CountryCode>> \o digits) = digits
BY AddressesAssumption

LEMMA PhoneRead ==
    ASSUME NEW raw \in RawAddresses, raw.kind = "phone", NormalizeAddress(raw) # NoAddress
    PROVE  /\ NormalizeAddress(raw) = Canonical(KeyDigits(raw))
           /\ KeyDigits(raw) \in FullNumbers
           /\ ~ raw.letter /\ raw.uri \in 0..1 /\ Readable(raw)
<1>1. NormalizeAddress(raw) = NormalizePhone(raw)
  BY DEF NormalizeAddress
<1>2. ~ raw.letter /\ ~ (PrefixesLeft(raw) > 0) /\ Readable(raw)
  BY <1>1 DEF NormalizePhone
<1>3. raw.uri \in 0..1
  BY <1>2, PhoneShape DEF PrefixesLeft
<1>4. NormalizeAddress(raw) = Canonical(KeyDigits(raw))
  BY <1>1, <1>2 DEF NormalizePhone, KeyDigits
<1>5. KeyDigits(raw) \in FullNumbers
  <2>1. CASE raw.plus # "first" /\ Len(raw.digits) = NationalLength
    <3>1. KeyDigits(raw) = <<CountryCode>> \o raw.digits
      BY <2>1 DEF KeyDigits
    <3>2. /\ <<CountryCode>> \o raw.digits \in Seq(Digits)
          /\ Len(<<CountryCode>> \o raw.digits) = NationalLength + 1
      BY <2>1, PhoneShape, WithCountryCode
    <3>3. NationalLength + 1 \in MinPhoneDigits..MaxPhoneDigits
      BY AddressesAssumption
    <3> QED
      BY <3>1, <3>2, <3>3, FullNumberIs
  <2>2. CASE ~ (raw.plus # "first" /\ Len(raw.digits) = NationalLength)
    <3>1. Len(raw.digits) \in MinPhoneDigits..MaxPhoneDigits
      BY <1>2, <2>2, AddressesAssumption DEF Readable
    <3> QED
      BY <2>2, <3>1, PhoneShape, FullNumberIs DEF KeyDigits
  <2> QED
    BY <2>1, <2>2
<1> QED
  BY <1>2, <1>3, <1>4, <1>5

LEMMA PhoneReadIf ==
    ASSUME NEW raw \in RawAddresses, raw.kind = "phone",
           ~ raw.letter, raw.uri \in 0..1, Readable(raw)
    PROVE  NormalizeAddress(raw) = Canonical(KeyDigits(raw))
<1>1. ~ (PrefixesLeft(raw) > 0)
  BY DEF PrefixesLeft
<1> QED
  BY <1>1 DEF NormalizeAddress, NormalizePhone, KeyDigits

LEMMA SpellingsAre ==
    ASSUME NEW number, NEW raw \in RawAddresses
    PROVE  raw \in Spellings(number) <=>
              /\ raw.kind = "phone" /\ raw.uri \in 0..1 /\ raw.letter = FALSE
              /\ \/ raw.plus = "first" /\ raw.digits = number
                 \/ Home(number) /\ raw.plus = "none" /\ raw.digits \in {number, Tail(number)}
BY DEF Spellings, Written, RawAddresses

LEMMA HomeNumber ==
    ASSUME NEW number \in Seq(Digits), Home(number)
    PROVE  /\ Len(number) = NationalLength + 1 /\ Head(number) = CountryCode
           /\ Tail(number) \in Seq(Digits) /\ Len(Tail(number)) = NationalLength
           /\ <<CountryCode>> \o Tail(number) = number
<1>1. Len(number) = NationalLength + 1 /\ number[1] = CountryCode /\ NationalLength \in Nat
  BY AddressesAssumption DEF Home
<1>2. number # <<>>
  BY <1>1
<1>3. Head(number) = CountryCode /\ Tail(number) \in Seq(Digits) /\ Len(Tail(number)) = NationalLength
  BY <1>1, <1>2
<1>4. CountryCode \in Digits
  BY AddressesAssumption
<1> DEFINE joined == <<CountryCode>> \o Tail(number)
<1>5. /\ joined \in Seq(Digits) /\ Len(joined) = NationalLength + 1 /\ joined[1] = CountryCode
  BY <1>3, <1>4, <1>1
<1>6. \A i \in 1..Len(number) : joined[i] = number[i]
  BY <1>1, <1>2, <1>3, <1>4
<1> QED
  BY <1>1, <1>3, <1>5, <1>6, SeqEqual

\* What is typed as a phone number is read as a number exactly if it is one of that
\* number's spellings (_normalize_phone, identity/addresses.py): nothing else is
\* taken for it, and none of its spellings for another number.
THEOREM OnlySpellingsAreRead ==
    ASSUME NEW raw \in RawAddresses, raw.kind = "phone", raw.plus # "later",
           NEW number \in FullNumbers
    PROVE  NormalizeAddress(raw) = Canonical(number) <=> raw \in Spellings(number)
<1>0. /\ raw.uri \in Nat /\ raw.plus \in {"none", "first"} /\ raw.digits \in Seq(Digits)
      /\ raw.letter \in BOOLEAN
      /\ number \in Seq(Digits) /\ Len(number) \in MinPhoneDigits..MaxPhoneDigits
  BY PhoneShape, FullNumberIs
<1>1. ASSUME NormalizeAddress(raw) = Canonical(number)
      PROVE  raw \in Spellings(number)
  <2>1. /\ KeyDigits(raw) = number /\ raw.letter = FALSE /\ raw.uri \in 0..1 /\ Readable(raw)
    BY <1>0, <1>1, PhoneRead, CanonicalDiffers
  <2>2. CASE raw.plus = "first"
    BY <2>1, <2>2, SpellingsAre DEF KeyDigits
  <2>3. CASE raw.plus = "none"
    <3>1. Home(number) /\ raw.digits \in {number, Tail(number)}
      <4>1. CASE Len(raw.digits) = NationalLength
        BY <1>0, <2>1, <2>3, <4>1, WithCountryCode DEF KeyDigits, Home
      <4>2. CASE Len(raw.digits) # NationalLength
        <5>1. KeyDigits(raw) = raw.digits /\ Len(raw.digits) = NationalLength + 1
              /\ Head(raw.digits) = CountryCode
          BY <2>1, <2>3, <4>2 DEF KeyDigits, Readable
        <5> QED
          BY <1>0, <2>1, <5>1, AddressesAssumption DEF Home
      <4> QED
        BY <4>1, <4>2
    <3> QED
      BY <2>1, <2>3, <3>1, SpellingsAre
  <2> QED
    BY <1>0, <2>2, <2>3
<1>2. ASSUME raw \in Spellings(number)
      PROVE  NormalizeAddress(raw) = Canonical(number)
  <2>0. raw.uri \in 0..1 /\ ~ raw.letter
    BY <1>2, SpellingsAre
  <2>1. CASE raw.plus = "first" /\ raw.digits = number
    BY <1>0, <2>0, <2>1, PhoneReadIf DEF Readable, KeyDigits
  <2>2. CASE Home(number) /\ raw.plus = "none" /\ raw.digits = number
    <3>1. Len(raw.digits) = NationalLength + 1 /\ Head(raw.digits) = CountryCode
      BY <1>0, <2>2, HomeNumber
    <3>2. Readable(raw) /\ KeyDigits(raw) = number
      BY <2>2, <3>1, AddressesAssumption DEF Readable, KeyDigits
    <3> QED
      BY <2>0, <3>2, PhoneReadIf
  <2>3. CASE Home(number) /\ raw.plus = "none" /\ raw.digits = Tail(number)
    <3>1. Len(raw.digits) = NationalLength /\ <<CountryCode>> \o Tail(number) = number
      BY <1>0, <2>3, HomeNumber
    <3> QED
      BY <2>0, <2>3, <3>1, PhoneReadIf DEF Readable, KeyDigits
  <2> QED
    BY <1>2, <2>1, <2>2, <2>3, SpellingsAre
<1> QED
  BY <1>1, <1>2

LEMMA EmailRead ==
    ASSUME NEW raw \in RawAddresses, raw.kind # "phone", NormalizeAddress(raw) # NoAddress
    PROVE  /\ NormalizeAddress(raw) = Email(PrefixesLeft(raw), FALSE, raw.flaw, raw.mailbox)
           /\ PrefixesLeft(raw) \in Nat
           /\ raw.uri <= 1 => PrefixesLeft(raw) = 0 /\ raw.flaw = "none"
<1>1. raw.kind = "email" /\ raw.uri \in Nat
  BY EmailShape
<1>2. NormalizeAddress(raw) = NormalizeEmail(raw)
  BY <1>1 DEF NormalizeAddress
<1>3. PrefixesLeft(raw) \in Nat /\ (raw.uri <= 1 => PrefixesLeft(raw) = 0)
  BY <1>1 DEF PrefixesLeft
<1>4. UsableEmail(raw) /\ NormalizeEmail(raw) = Email(PrefixesLeft(raw), FALSE, raw.flaw, raw.mailbox)
  BY <1>2 DEF NormalizeEmail
<1>5. PrefixesLeft(raw) = 0 => raw.flaw = "none"
  BY <1>4 DEF UsableEmail
<1> QED
  BY <1>2, <1>3, <1>4, <1>5

\* What is stored is an address again.
LEMMA NormalizedTyped ==
    ASSUME NEW raw \in RawAddresses, NormalizeAddress(raw) # NoAddress
    PROVE  /\ NormalizeAddress(raw) \in RawAddresses
           /\ NormalizeAddress(raw).kind = raw.kind
<1>1. CASE raw.kind = "phone"
  <2>1. PICK number \in FullNumbers : NormalizeAddress(raw) = Canonical(number)
    BY <1>1, PhoneRead
  <2>2. number \in Seq(Digits)
    BY FullNumberIs
  <2> QED
    BY <1>1, <2>1, <2>2, CanonicalShape
<1>2. CASE raw.kind # "phone"
  <2>1. raw.kind = "email" /\ raw.mailbox \in Mailboxes /\ raw.flaw \in Flaws
    BY <1>2, EmailShape
  <2> QED
    <3>1. PICK uri \in Nat : NormalizeAddress(raw) = Email(uri, FALSE, raw.flaw, raw.mailbox)
      BY <1>2, EmailRead
    <3>2. Email(uri, FALSE, raw.flaw, raw.mailbox).kind = "email"
      BY DEF Email
    <3>3. Email(uri, FALSE, raw.flaw, raw.mailbox) \in RawAddresses
      BY <2>1 DEF Email, RawAddresses
    <3> QED
      BY <2>1, <3>1, <3>2, <3>3
<1> QED
  BY <1>1, <1>2

\* Normalising what is stored changes nothing ("if a second pass moved the value,
\* stored rows would stop matching live traffic", test_addresses.py:102), except
\* for email addresses with two URI prefixes, of which one is removed at a time.
THEOREM NormalizedOnce ==
    ASSUME NEW raw \in RawAddresses, NormalizeAddress(raw) # NoAddress,
           raw.kind = "phone" \/ raw.uri <= 1
    PROVE  NormalizeAddress(NormalizeAddress(raw)) = NormalizeAddress(raw)
<1>1. CASE raw.kind = "phone"
  <2>1. PICK number \in FullNumbers : NormalizeAddress(raw) = Canonical(number)
    BY <1>1, PhoneRead
  <2>2. number \in Seq(Digits)
    BY FullNumberIs
  <2>3. Canonical(number) \in RawAddresses /\ Canonical(number).kind = "phone"
        /\ Canonical(number).plus # "later"
    BY <2>2, CanonicalShape
  <2>4. Canonical(number) \in Spellings(number)
    BY DEF Canonical, Phone, Spellings, Written
  <2> QED
    BY <2>1, <2>3, <2>4, OnlySpellingsAreRead
<1>2. CASE raw.kind # "phone"
  <2>1. NormalizeAddress(raw) = Email(0, FALSE, "none", raw.mailbox)
    BY <1>2, EmailRead
  <2>2. NormalizeAddress(Email(0, FALSE, "none", raw.mailbox)) = Email(0, FALSE, "none", raw.mailbox)
    BY DEF NormalizeAddress, NormalizeEmail, UsableEmail, Email, PrefixesLeft
  <2> QED
    BY <2>1, <2>2
<1> QED
  BY <1>1, <1>2

-----------------------------------------------------------------------------
(***************************************************************************)
(* The inductive invariant of Seed.                                        *)
(***************************************************************************)

\* What is committed: the seed's identities are those of its list, a person has an
\* identity of another making only once there, an address is one row's, and the
\* seeded people belong to no other organization.
TablesSound ==
    /\ \A id \in stored : id[1] \in {"organization", "user"}
    /\ \A row \in identities :
          /\ row.norm = NormalizeAddress(row.raw) /\ row.norm # NoAddress
          /\ row.id[1] = "identity" => row.id[2] \in Persons /\ row = SeedIdentity(row.id[2])
          /\ row.id[1] = "drawn" /\ row.user \in Persons => StableId("user", row.user) \in stored
    /\ \A one, other \in identities :
          one.channel = other.channel /\ one.norm = other.norm => one = other
    /\ \A m \in memberships : m.user \in Persons => m.org = Org

\* A run has found or inserted every row behind it, and inserted none before it.
Behind(r) ==
    /\ \A id \in run[r].mine : \E k \in 1..(run[r].at - 1) : SeedOrder[k] = id
    /\ \A k \in 1..(run[r].at - 1) : SeedOrder[k] \in run[r].mine \/ Found(SeedOrder[k])

RunsSound ==
    \A r \in Runs :
        /\ run[r].pc = "idle" => run[r].mine = {}
        /\ run[r].pc # "idle" => run[r].at \in 1..(Len(SeedOrder) + 1) /\ Behind(r)
        /\ run[r].pc = "inserting" => run[r].at <= Len(SeedOrder)

\* No key is held by two runs, or by a run and a committed row.
KeysApart ==
    /\ \A r \in Runs : \A id \in run[r].mine : UniqueKey(id) \notin CommittedKeys
    /\ \A r, q \in Runs : \A id \in run[r].mine : \A other \in run[q].mine :
          UniqueKey(id) = UniqueKey(other) => r = q

\* What a run did not find is still not there if nothing overlapped it.
AloneSees ==
    \A r \in Runs : run[r].alone =>
        /\ \A q \in Runs \ {r} : run[q].pc = "idle"
        /\ run[r].pc = "inserting" => ~ Found(SeedOrder[run[r].at])

SInv == TypeOK /\ TablesSound /\ RunsSound /\ KeysApart /\ AloneSees /\ SeededWhole

-----------------------------------------------------------------------------
(***************************************************************************)
(* The rows, their order and their keys.                                   *)
(***************************************************************************)

LEMMA PeopleAre ==
    /\ Len(People) \in Nat /\ DOMAIN People = 1..Len(People)
    /\ \A k \in 1..Len(People) : People[k] \in Persons
    /\ \A p \in Persons : \E k \in 1..Len(People) : People[k] = p
    /\ \A j, k \in 1..Len(People) : People[j] = People[k] => j = k
BY PeopleAssumption DEF Persons, Range, IsInjective

LEMMA RowIdIs ==
    ASSUME NEW id
    PROVE  id \in RowIds <=> \/ id = StableId("organization", Org)
                             \/ \E p \in Persons : \/ id = StableId("user", p)
                                                   \/ id = StableId("membership", p)
                                                   \/ id = StableId("identity", p)
<1>1. ASSUME NEW p
      PROVE  Range(RowsOf(p)) = {StableId("user", p), StableId("membership", p),
                                 StableId("identity", p)}
  <2>1. DOMAIN RowsOf(p) = 1..3
    BY DEF RowsOf
  <2>2. /\ RowsOf(p)[1] = StableId("user", p) /\ RowsOf(p)[2] = StableId("membership", p)
        /\ RowsOf(p)[3] = StableId("identity", p)
    BY DEF RowsOf
  <2>3. \A j : j \in 1..3 <=> j = 1 \/ j = 2 \/ j = 3
    OBVIOUS
  <2> QED
    BY <2>1, <2>2, <2>3 DEF Range
<1> QED
  BY <1>1 DEF RowIds

LEMMA RowOfPerson ==
    ASSUME NEW p
    PROVE  /\ RowsOf(p)[1] = StableId("user", p) /\ RowsOf(p)[2] = StableId("membership", p)
           /\ RowsOf(p)[3] = StableId("identity", p)
BY DEF RowsOf

\* Rows differ by kind and key.
LEMMA StableIdDiffers ==
    ASSUME NEW kind, NEW key, NEW kind2, NEW key2
    PROVE  /\ StableId(kind, key)[1] = kind /\ StableId(kind, key)[2] = key
           /\ StableId(kind, key) = StableId(kind2, key2) <=> kind = kind2 /\ key = key2
BY DEF StableId

\* Where the j-th row of the k-th person stands.
Place(k, j) == 3 * (k - 1) + j + 1

LEMMA OrderShape ==
    /\ Len(SeedOrder) = 3 * Len(People) + 1 /\ Len(SeedOrder) \in Nat
    /\ SeedOrder[1] = StableId("organization", Org)
    /\ \A k \in 1..Len(People), j \in 1..3 :
          /\ Place(k, j) \in 2..Len(SeedOrder)
          /\ SeedOrder[Place(k, j)] = RowsOf(People[k])[j]
    /\ \A n \in 2..Len(SeedOrder) : \E k \in 1..Len(People), j \in 1..3 : n = Place(k, j)
<1> DEFINE L == Len(People)
           Row(n) == IF n = 1 THEN StableId("organization", Org)
                     ELSE RowsOf(People[((n - 2) \div 3) + 1])[((n - 2) % 3) + 1]
<1>1. L \in Nat
  BY PeopleAre
<1>2. SeedOrder = [n \in 1..(3 * L + 1) |-> Row(n)]
  BY DEF SeedOrder, OrderOf
<1> HIDE DEF L
<1>3. Len(SeedOrder) = 3 * L + 1
  <2> HIDE DEF Row
  <2> QED
    BY <1>1, <1>2
<1>4. ASSUME NEW k \in 1..L, NEW j \in 1..3
      PROVE  /\ Place(k, j) \in 2..(3 * L + 1)
             /\ SeedOrder[Place(k, j)] = RowsOf(People[k])[j]
  <2>1. PICK n : n = Place(k, j)
    OBVIOUS
  <2>2. n \in 2..(3 * L + 1) /\ ((n - 2) \div 3) + 1 = k /\ ((n - 2) % 3) + 1 = j
    BY <1>1, <2>1 DEF Place
  <2>3. SeedOrder[n] = Row(n)
    BY <1>1, <1>2, <2>2
  <2> QED
    BY <2>1, <2>2, <2>3
<1>5. ASSUME NEW n \in 2..(3 * L + 1)
      PROVE  \E k \in 1..L, j \in 1..3 : n = Place(k, j)
  <2>1. /\ ((n - 2) \div 3) + 1 \in 1..L /\ ((n - 2) % 3) + 1 \in 1..3
        /\ n = 3 * ((n - 2) \div 3) + ((n - 2) % 3) + 2
    BY <1>1
  <2>2. n = Place(((n - 2) \div 3) + 1, ((n - 2) % 3) + 1)
    BY <1>1, <2>1 DEF Place
  <2> QED
    BY <2>1, <2>2
<1>6. SeedOrder[1] = StableId("organization", Org)
  BY <1>1, <1>2
<1> QED
  BY <1>1, <1>3, <1>4, <1>5, <1>6 DEF L

\* Every row is visited, once, a membership after that of its manager.
LEMMA OrderVisits ==
    /\ \A n \in 1..Len(SeedOrder) : SeedOrder[n] \in RowIds
    /\ \A id \in RowIds : \E n \in 1..Len(SeedOrder) : SeedOrder[n] = id
    /\ \A m, n \in 1..Len(SeedOrder) : SeedOrder[m] = SeedOrder[n] => m = n
    /\ \A n \in 1..Len(SeedOrder) : \A p \in Persons :
          SeedOrder[n] = StableId("membership", p) /\ ManagerOf[p] # Nobody =>
             \E m \in 1..(n - 1) : SeedOrder[m] = StableId("membership", ManagerOf[p])
<1>0. \A n \in 2..Len(SeedOrder) : n \in 1..Len(SeedOrder)
  BY OrderShape
<1>1. \A n \in 1..Len(SeedOrder) : n = 1 \/ n \in 2..Len(SeedOrder)
  BY OrderShape
<1>2. \A k \in 1..Len(People), j \in 1..3 :
         /\ j = 1 => SeedOrder[Place(k, j)] = StableId("user", People[k])
         /\ j = 2 => SeedOrder[Place(k, j)] = StableId("membership", People[k])
         /\ j = 3 => SeedOrder[Place(k, j)] = StableId("identity", People[k])
  <2> TAKE k \in 1..Len(People), j \in 1..3
  <2>1. SeedOrder[Place(k, j)] = RowsOf(People[k])[j]
    BY OrderShape
  <2>2. PICK p : p = People[k]
    OBVIOUS
  <2> QED
    BY <2>1, <2>2, RowOfPerson
<1>3. \A j \in 1..3 : j = 1 \/ j = 2 \/ j = 3
  OBVIOUS
<1>4. ASSUME NEW n \in 1..Len(SeedOrder)
      PROVE  SeedOrder[n] \in RowIds
  <2>1. CASE n = 1
    BY <2>1, OrderShape, RowIdIs
  <2>2. CASE n \in 2..Len(SeedOrder)
    <3>1. PICK k \in 1..Len(People), j \in 1..3 : n = Place(k, j)
      BY <2>2, OrderShape
    <3> QED
      BY <1>2, <1>3, <3>1, PeopleAre, RowIdIs
  <2> QED
    BY <1>1, <2>1, <2>2
<1>5. ASSUME NEW id \in RowIds
      PROVE  \E n \in 1..Len(SeedOrder) : SeedOrder[n] = id
  <2>1. CASE id = StableId("organization", Org)
    BY <2>1, OrderShape
  <2>2. ASSUME NEW p \in Persons, NEW j \in 1..3, id = RowsOf(p)[j]
        PROVE  \E n \in 1..Len(SeedOrder) : SeedOrder[n] = id
    <3>1. PICK k \in 1..Len(People) : People[k] = p
      BY PeopleAre
    <3>2. Place(k, j) \in 2..Len(SeedOrder) /\ SeedOrder[Place(k, j)] = id
      BY <2>2, <3>1, OrderShape
    <3>3. Place(k, j) \in 1..Len(SeedOrder)
      BY <3>2, OrderShape
    <3> QED
      BY <3>2, <3>3
  <2>3. 1 \in 1..3 /\ 2 \in 1..3 /\ 3 \in 1..3
    OBVIOUS
  <2> QED
    BY <2>1, <2>2, <2>3, RowIdIs, RowOfPerson
<1>6. ASSUME NEW m \in 1..Len(SeedOrder), NEW n \in 1..Len(SeedOrder),
             SeedOrder[m] = SeedOrder[n]
      PROVE  m = n
  <2>1. ASSUME NEW x \in 2..Len(SeedOrder)
        PROVE  SeedOrder[x] # StableId("organization", Org)
    <3>1. PICK k \in 1..Len(People), j \in 1..3 : x = Place(k, j)
      BY OrderShape
    <3> QED
      BY <1>2, <1>3, <3>1, StableIdDiffers
  <2>2. CASE m \in 2..Len(SeedOrder) /\ n \in 2..Len(SeedOrder)
    <3>1. PICK k \in 1..Len(People), j \in 1..3 : m = Place(k, j)
      BY <2>2, OrderShape
    <3>2. PICK k2 \in 1..Len(People), j2 \in 1..3 : n = Place(k2, j2)
      BY <2>2, OrderShape
    <3>3. j = j2 /\ People[k] = People[k2]
      BY <1>2, <1>3, <1>6, <3>1, <3>2, StableIdDiffers
    <3> QED
      BY <3>1, <3>2, <3>3, PeopleAre
  <2> QED
    BY <1>1, <1>6, <2>1, <2>2, OrderShape
<1>7. ASSUME NEW n \in 1..Len(SeedOrder), NEW p \in Persons,
             SeedOrder[n] = StableId("membership", p), ManagerOf[p] # Nobody
      PROVE  \E m \in 1..(n - 1) : SeedOrder[m] = StableId("membership", ManagerOf[p])
  <2>1. PICK k \in 1..Len(People) : People[k] = p
    BY PeopleAre
  <2>2. PICK i \in 1..(k - 1) : People[i] = ManagerOf[p]
    BY <1>7, <2>1, PeopleAssumption, PeopleAre
  <2>3. i \in 1..Len(People) /\ i < k /\ 2 \in 1..3
    BY PeopleAre
  <2>4. Place(k, 2) \in 1..Len(SeedOrder) /\ Place(i, 2) \in 1..Len(SeedOrder)
    <3>1. Place(k, 2) \in 2..Len(SeedOrder)
      BY <2>3, OrderShape
    <3>2. Place(i, 2) \in 2..Len(SeedOrder)
      BY <2>3, OrderShape
    <3> QED
      BY <1>0, <3>1, <3>2
  <2>5. n = Place(k, 2)
    BY <1>2, <1>6, <1>7, <2>1, <2>3, <2>4
  <2>6. Place(i, 2) \in 1..(n - 1)
    BY <2>3, <2>4, <2>5, PeopleAre DEF Place
  <2> QED
    BY <1>2, <2>2, <2>3, <2>6
<1> QED
  BY <1>4, <1>5, <1>6, <1>7

LEMMA KeyOf ==
    ASSUME NEW p
    PROVE  /\ UniqueKey(StableId("organization", p)) = StableId("organization", p)
           /\ UniqueKey(StableId("user", p)) = StableId("user", p)
           /\ UniqueKey(StableId("membership", p)) = StableId("membership", p)
           /\ UniqueKey(StableId("identity", p)) =
                 AddressKey(Channel, NormalizeAddress(AddressOf[p]))
BY StableIdDiffers DEF UniqueKey

LEMMA AddressKeyDiffers ==
    ASSUME NEW channel, NEW norm, NEW channel2, NEW norm2, NEW kind, NEW p, kind # "address"
    PROVE  /\ AddressKey(channel, norm) # StableId(kind, p)
           /\ AddressKey(channel, norm) = AddressKey(channel2, norm2) <=>
                 channel = channel2 /\ norm = norm2
BY DEF AddressKey, StableId

\* The list gives no two rows one key.
LEMMA KeysDiffer ==
    ASSUME NEW id \in RowIds, NEW other \in RowIds, UniqueKey(id) = UniqueKey(other)
    PROVE  id = other
<1>1. PICK kind, p :
         /\ kind \in {"organization", "user", "membership", "identity"}
         /\ id = StableId(kind, p) /\ (kind # "organization" => p \in Persons)
  BY RowIdIs
<1>2. PICK kind2, p2 :
         /\ kind2 \in {"organization", "user", "membership", "identity"}
         /\ other = StableId(kind2, p2) /\ (kind2 # "organization" => p2 \in Persons)
  BY RowIdIs
<1>3. CASE kind = "identity" /\ kind2 = "identity"
  <2>1. NormalizeAddress(AddressOf[p]) = NormalizeAddress(AddressOf[p2])
    BY <1>1, <1>2, <1>3, KeyOf, AddressKeyDiffers
  <2>2. p \in Persons /\ p2 \in Persons
    BY <1>1, <1>2, <1>3
  <2>3. p = p2
    BY <2>1, <2>2, PeopleAssumption
  <2> QED
    BY <1>1, <1>2, <1>3, <2>3
<1>4. CASE kind # "identity" /\ kind2 # "identity"
  BY <1>1, <1>2, <1>4, KeyOf
<1>5. CASE kind = "identity" /\ kind2 # "identity"
  <2>1. UniqueKey(id) = AddressKey(Channel, NormalizeAddress(AddressOf[p]))
    BY <1>1, <1>5, KeyOf
  <2>2. UniqueKey(other) = StableId(kind2, p2) /\ kind2 # "address"
    BY <1>2, <1>5, KeyOf
  <2>3. UniqueKey(id) # StableId(kind2, p2)
    BY <2>1, <2>2, AddressKeyDiffers
  <2> QED
    BY <2>2, <2>3
<1>6. CASE kind # "identity" /\ kind2 = "identity"
  <2>1. UniqueKey(other) = AddressKey(Channel, NormalizeAddress(AddressOf[p2]))
    BY <1>2, <1>6, KeyOf
  <2>2. UniqueKey(id) = StableId(kind, p) /\ kind # "address"
    BY <1>1, <1>6, KeyOf
  <2>3. UniqueKey(other) # StableId(kind, p)
    BY <2>1, <2>2, AddressKeyDiffers
  <2> QED
    BY <2>2, <2>3
<1> QED
  BY <1>3, <1>4, <1>5, <1>6

\* When the key of a row is taken.
LEMMA CommittedAre ==
    ASSUME TypeOK, TablesSound, NEW p, NEW channel, NEW norm
    PROVE  /\ StableId("organization", p) \in CommittedKeys <=>
                 StableId("organization", p) \in stored
           /\ StableId("user", p) \in CommittedKeys <=> StableId("user", p) \in stored
           /\ StableId("membership", p) \in CommittedKeys <=> \E m \in memberships : m.user = p
           /\ AddressKey(channel, norm) \in CommittedKeys <=>
                 \E row \in identities : row.channel = channel /\ row.norm = norm
<1>1. \A key : key \in CommittedKeys <=>
         \/ key \in stored
         \/ \E m \in memberships : key = StableId("membership", m.user)
         \/ \E row \in identities : key = AddressKey(row.channel, row.norm)
  BY DEF CommittedKeys
<1>2. /\ StableId("membership", p) \notin stored /\ AddressKey(channel, norm) \notin stored
  BY DEF TablesSound, StableId, AddressKey
<1>3. \A m : /\ StableId("membership", m) = StableId("membership", p) <=> m = p
             /\ StableId("organization", p) # StableId("membership", m)
             /\ StableId("user", p) # StableId("membership", m)
             /\ AddressKey(channel, norm) # StableId("membership", m)
  BY DEF StableId, AddressKey
<1>4. \A c, n : /\ AddressKey(c, n) = AddressKey(channel, norm) <=> c = channel /\ n = norm
                /\ StableId("organization", p) # AddressKey(c, n)
                /\ StableId("user", p) # AddressKey(c, n)
                /\ StableId("membership", p) # AddressKey(c, n)
  BY DEF StableId, AddressKey
<1> QED
  BY <1>1, <1>2, <1>3, <1>4

LEMMA FoundAre ==
    ASSUME NEW p
    PROVE  /\ Found(StableId("organization", p)) <=> StableId("organization", p) \in stored
           /\ Found(StableId("user", p)) <=> StableId("user", p) \in stored
           /\ Found(StableId("membership", p)) <=> [org |-> Org, user |-> p] \in memberships
           /\ Found(StableId("identity", p)) <=>
                 \E row \in identities : row.id = StableId("identity", p)
BY StableIdDiffers DEF Found

\* Rows once committed are found ever after.
LEMMA FoundStays ==
    ASSUME stored \subseteq stored', memberships \subseteq memberships',
           identities \subseteq identities', NEW id, Found(id)
    PROVE  Found(id)'
<1>1. CASE id[1] = "identity"
  BY <1>1 DEF Found
<1>2. CASE id[1] = "membership"
  BY <1>2 DEF Found
<1>3. CASE id[1] # "identity" /\ id[1] # "membership"
  BY <1>3 DEF Found
<1> QED
  BY <1>1, <1>2, <1>3

IdentityType == [id : {"identity", "drawn"} \X Users, user : Users, channel : Channels,
                 raw : RawAddresses, norm : RawAddresses, verified : BOOLEAN]

LEMMA SeedIdentityIs ==
    ASSUME NEW p
    PROVE  /\ SeedIdentity(p).id = StableId("identity", p) /\ SeedIdentity(p).user = p
           /\ SeedIdentity(p).id[1] = "identity" /\ SeedIdentity(p).id[2] = p
           /\ SeedIdentity(p).channel = Channel /\ SeedIdentity(p).verified = TRUE
           /\ SeedIdentity(p).raw = AddressOf[p]
           /\ SeedIdentity(p).norm = NormalizeAddress(AddressOf[p])
BY DEF SeedIdentity, IdentityRow, StableId

LEMMA SeedIdentityTyped ==
    ASSUME NEW p \in Persons
    PROVE  SeedIdentity(p) \in IdentityType /\ SeedIdentity(p).norm # NoAddress
<1>1. AddressOf[p] \in RawAddresses /\ NormalizeAddress(AddressOf[p]) # NoAddress
  BY SeedAssumption, PeopleAssumption
<1>2. NormalizeAddress(AddressOf[p]) \in RawAddresses
  BY <1>1, NormalizedTyped
<1>3. p \in Users /\ Channel \in Channels /\ StableId("identity", p) \in {"identity", "drawn"} \X Users
  BY SeedAssumption DEF StableId
<1> QED
  BY <1>1, <1>2, <1>3 DEF SeedIdentity, IdentityRow, IdentityType

-----------------------------------------------------------------------------
(***************************************************************************)
(* Every step keeps the invariant.                                         *)
(***************************************************************************)

LEMMA InitSInv == Init => SInv
<1> SUFFICES ASSUME Init PROVE SInv
  OBVIOUS
<1>1. PICK n \in 0..Len(People) :
        /\ stored = IF n = 0 THEN {}
                    ELSE {StableId("organization", Org)}
                            \union {StableId("user", p) : p \in {People[k] : k \in 1..n}}
        /\ memberships = Others \union {[org |-> Org, user |-> p] :
                                             p \in {People[k] : k \in 1..n}}
        /\ identities = {SeedIdentity(p) : p \in {People[k] : k \in 1..n}}
        /\ run = [r \in Runs |-> Idle]
  BY DEF Init
<1> DEFINE older == {People[k] : k \in 1..n}
<1>2. older \subseteq Persons /\ \A k \in 1..n : k \in 1..Len(People)
  BY PeopleAre
<1>3. /\ \A id : id \in stored <=>
            n # 0 /\ (id = StableId("organization", Org) \/ \E p \in older : id = StableId("user", p))
      /\ \A m : m \in memberships <=> m \in Others \/ \E p \in older : m = [org |-> Org, user |-> p]
      /\ \A row : row \in identities <=> \E p \in older : row = SeedIdentity(p)
  BY <1>1
<1>4. \A p \in older : n # 0
  BY <1>1
<1>5. /\ Idle \in RunState /\ Idle.pc = "idle" /\ Idle.mine = {} /\ Idle.alone = FALSE
      /\ \A r \in Runs : run[r] = Idle
  BY <1>1 DEF Idle, RunState
<1> HIDE DEF older, Idle
<1>6. TypeOK
  <2>1. stored \subseteq RowIds
    BY <1>2, <1>3, RowIdIs
  <2>2. memberships \subseteq [org : Orgs, user : Users]
    BY <1>2, <1>3, SeedAssumption
  <2>3. \A row \in identities : row \in IdentityType
    BY <1>2, <1>3, SeedIdentityTyped
  <2>4. run \in [Runs -> RunState]
    BY <1>1, <1>5
  <2> QED
    BY <2>1, <2>2, <2>3, <2>4 DEF TypeOK, IdentityType
<1>7. TablesSound
  <2>1. \A id \in stored : id[1] \in {"organization", "user"}
    BY <1>3, StableIdDiffers
  <2>2. ASSUME NEW row \in identities
        PROVE  /\ row.norm = NormalizeAddress(row.raw) /\ row.norm # NoAddress
               /\ row.id[1] = "identity" /\ row.id[2] \in Persons
               /\ row = SeedIdentity(row.id[2])
    <3>1. PICK p \in Persons : row = SeedIdentity(p)
      BY <1>2, <1>3
    <3>2. /\ SeedIdentity(p).raw = AddressOf[p]
          /\ SeedIdentity(p).norm = NormalizeAddress(AddressOf[p])
          /\ SeedIdentity(p).id[1] = "identity" /\ SeedIdentity(p).id[2] = p
      BY SeedIdentityIs
    <3>3. SeedIdentity(p).norm # NoAddress
      BY SeedIdentityTyped
    <3> QED
      BY <3>1, <3>2, <3>3
  <2>3. ASSUME NEW one \in identities, NEW other \in identities, one.norm = other.norm
        PROVE  one = other
    <3>1. PICK p \in Persons : one = SeedIdentity(p)
      BY <1>2, <1>3
    <3>2. PICK q \in Persons : other = SeedIdentity(q)
      BY <1>2, <1>3
    <3>3. NormalizeAddress(AddressOf[p]) = NormalizeAddress(AddressOf[q])
      <4>1. SeedIdentity(p).norm = NormalizeAddress(AddressOf[p])
        BY SeedIdentityIs
      <4>2. SeedIdentity(q).norm = NormalizeAddress(AddressOf[q])
        BY SeedIdentityIs
      <4> QED
        BY <2>3, <3>1, <3>2, <4>1, <4>2
    <3>4. p = q
      BY <3>3, PeopleAssumption
    <3> QED
      BY <3>1, <3>2, <3>4
  <2>4. ASSUME NEW m \in memberships, m.user \in Persons
        PROVE  m.org = Org
    BY <1>2, <1>3, <2>4, SeedAssumption
  <2> QED
    BY <2>1, <2>2, <2>3, <2>4 DEF TablesSound
<1>8. RunsSound /\ KeysApart /\ AloneSees
  BY <1>5 DEF RunsSound, KeysApart, AloneSees
<1>9. SeededWhole
  <2> SUFFICES ASSUME NEW p \in Persons
               PROVE  LET present == [org |-> Org, user |-> p] \in memberships
                      IN  /\ present <=> StableId("user", p) \in stored
                          /\ present <=> \E row \in identities :
                                            row.id = StableId("identity", p) /\ row.verified
                          /\ present => StableId("organization", Org) \in stored
                          /\ present /\ ManagerOf[p] # Nobody =>
                                [org |-> Org, user |-> ManagerOf[p]] \in memberships
    BY DEF SeededWhole
  <2>1. [org |-> Org, user |-> p] \in memberships <=> p \in older
    <3>1. [org |-> Org, user |-> p] \notin Others
      BY SeedAssumption
    <3> QED
      BY <1>3, <3>1
  <2>2. StableId("user", p) \in stored <=> p \in older
    BY <1>3, <1>4, StableIdDiffers
  <2>3. (\E row \in identities : row.id = StableId("identity", p) /\ row.verified) <=> p \in older
    <3>1. ASSUME NEW row \in identities, row.id = StableId("identity", p)
          PROVE  p \in older
      <4>1. PICK q \in older : row = SeedIdentity(q)
        BY <1>3
      <4>2. q = p
        <5>1. SeedIdentity(q).id = StableId("identity", q)
          BY SeedIdentityIs
        <5>2. StableId("identity", q) = StableId("identity", p)
          BY <3>1, <4>1, <5>1
        <5> QED
          BY <5>2, StableIdDiffers
      <4> QED
        BY <4>1, <4>2
    <3>2. SeedIdentity(p).id = StableId("identity", p) /\ SeedIdentity(p).verified
      BY SeedIdentityIs
    <3> QED
      BY <1>3, <3>1, <3>2
  <2>4. p \in older => StableId("organization", Org) \in stored
    BY <1>3, <1>4
  <2>5. ASSUME p \in older, ManagerOf[p] # Nobody
        PROVE  [org |-> Org, user |-> ManagerOf[p]] \in memberships
    <3>1. PICK k \in 1..n : People[k] = p
      BY <2>5 DEF older
    <3>2. PICK j \in 1..(k - 1) : People[j] = ManagerOf[p]
      BY <1>2, <2>5, <3>1, PeopleAssumption, PeopleAre
    <3>3. ManagerOf[p] \in older
      BY <3>1, <3>2 DEF older
    <3> QED
      BY <1>3, <3>3
  <2> QED
    BY <2>1, <2>2, <2>3, <2>4, <2>5
<1> QED
  BY <1>6, <1>7, <1>8, <1>9 DEF SInv

LEMMA IdleIs ==
    /\ Idle \in RunState /\ Idle.pc = "idle" /\ Idle.mine = {} /\ Idle.alone = FALSE
BY DEF Idle, RunState

\* A run that goes on, or is rolled back, without a commit.
LEMMA MovingKeepsSInv ==
    ASSUME SInv, NEW r \in Runs, NEW fields \in RunState,
           run' = [run EXCEPT ![r] = fields], UNCHANGED tables, run[r].pc # "idle",
           fields.pc = "idle" => fields.mine = {},
           fields.pc # "idle" =>
              /\ fields.at \in 1..(Len(SeedOrder) + 1)
              /\ \A id \in fields.mine : \E k \in 1..(fields.at - 1) : SeedOrder[k] = id
              /\ \A k \in 1..(fields.at - 1) : SeedOrder[k] \in fields.mine \/ Found(SeedOrder[k]),
           fields.pc = "inserting" => fields.at <= Len(SeedOrder),
           \A id \in fields.mine : id \in run[r].mine \/
              (UniqueKey(id) \notin CommittedKeys
                 /\ \A q \in Runs \ {r} : UniqueKey(id) \notin HeldBy(q)),
           fields.alone => run[r].alone,
           fields.alone /\ fields.pc = "inserting" => ~ Found(SeedOrder[fields.at])
    PROVE  SInv'
<1>1. /\ run' \in [Runs -> RunState] /\ run'[r] = fields
      /\ \A q \in Runs : q # r => run'[q] = run[q]
      /\ \A q \in Runs : run'[q] = IF q = r THEN fields ELSE run[q]
  BY DEF SInv, TypeOK
<1>2. UNCHANGED <<stored, memberships, identities>>
  BY DEF tables
<1>3. TypeOK' /\ TablesSound' /\ SeededWhole' /\ CommittedKeys' = CommittedKeys
  BY <1>1, <1>2 DEF SInv, TypeOK, TablesSound, SeededWhole, CommittedKeys
<1>4. \A id : Found(id)' <=> Found(id)
  BY <1>2 DEF Found
<1>5. RunsSound'
  <2> SUFFICES ASSUME NEW q \in Runs
               PROVE  /\ run'[q].pc = "idle" => run'[q].mine = {}
                      /\ run'[q].pc # "idle" =>
                            run'[q].at \in 1..(Len(SeedOrder) + 1) /\ Behind(q)'
                      /\ run'[q].pc = "inserting" => run'[q].at <= Len(SeedOrder)
    BY DEF RunsSound
  <2>1. CASE q = r
    BY <1>1, <1>4, <2>1 DEF Behind
  <2>2. CASE q # r
    BY <1>1, <1>4, <2>2 DEF SInv, RunsSound, Behind
  <2> QED
    BY <2>1, <2>2
<1>6. KeysApart'
  <2>1. ASSUME NEW q \in Runs, NEW id \in run'[q].mine
        PROVE  UniqueKey(id) \notin CommittedKeys
    BY <1>1 DEF SInv, KeysApart
  <2>2. ASSUME NEW q \in Runs, q # r, NEW id \in fields.mine, NEW other \in run[q].mine
        PROVE  UniqueKey(id) # UniqueKey(other)
    <3>1. UniqueKey(other) \in HeldBy(q)
      BY DEF HeldBy
    <3> QED
      BY <2>2, <3>1 DEF SInv, KeysApart
  <2>3. ASSUME NEW q \in Runs, NEW s \in Runs, q # s,
               NEW id \in run'[q].mine, NEW other \in run'[s].mine
        PROVE  UniqueKey(id) # UniqueKey(other)
    <3>1. CASE q = r
      BY <1>1, <2>2, <2>3, <3>1
    <3>2. CASE s = r
      BY <1>1, <2>2, <2>3, <3>2
    <3>3. CASE q # r /\ s # r
      BY <1>1, <2>3, <3>3 DEF SInv, KeysApart
    <3> QED
      BY <3>1, <3>2, <3>3
  <2> QED
    BY <1>3, <2>1, <2>3 DEF KeysApart
<1>7. AloneSees'
  <2> SUFFICES ASSUME NEW q \in Runs, run'[q].alone
               PROVE  /\ \A s \in Runs \ {q} : run'[s].pc = "idle"
                      /\ run'[q].pc = "inserting" => ~ Found(SeedOrder[run[q].at])'
    BY DEF AloneSees
  <2>1. CASE q = r
    <3>1. run[r].alone /\ \A s \in Runs \ {r} : run[s].pc = "idle"
      BY <1>1, <2>1 DEF SInv, AloneSees
    <3>2. fields.pc = "inserting" => ~ Found(SeedOrder[fields.at])
      BY <1>1, <2>1
    <3> QED
      BY <1>1, <1>2, <2>1, <3>1, <3>2 DEF Found
  <2>2. CASE q # r
    BY <1>1, <2>2 DEF SInv, AloneSees
  <2> QED
    BY <2>1, <2>2
<1> QED
  BY <1>3, <1>5, <1>6, <1>7 DEF SInv

LEMMA RollbackKeepsSInv ==
    ASSUME SInv, NEW r \in Runs, run[r].pc # "idle", run' = [run EXCEPT ![r] = Idle],
           UNCHANGED tables
    PROVE  SInv'
BY IdleIs, MovingKeepsSInv

LEMMA NextPlace ==
    ASSUME NEW n \in 1..Len(SeedOrder)
    PROVE  /\ n + 1 \in 1..(Len(SeedOrder) + 1) /\ n \in 1..(n + 1 - 1)
           /\ \A k \in 1..(n + 1 - 1) : k \in 1..(n - 1) \/ k = n
           /\ \A k \in 1..(n - 1) : k \in 1..(n + 1 - 1)
<1>1. Len(SeedOrder) \in Nat
  BY OrderShape
<1> QED
  BY <1>1

LEMMA AskKeepsSInv ==
    ASSUME SInv, NEW r \in Runs, Ask(r)
    PROVE  SInv'
<1>1. /\ run[r].pc = "asking" /\ run[r].at \in 1..Len(SeedOrder) /\ UNCHANGED tables
      /\ run[r] \in RunState /\ Behind(r) /\ Current(r) = SeedOrder[run[r].at]
  BY OrderShape DEF Ask, Order, Current, SInv, TypeOK, RunsSound, RunState
<1>2. CASE Found(Current(r))
  <2>1. PICK fields : fields = [run[r] EXCEPT !.at = @ + 1]
    OBVIOUS
  <2>2. run' = [run EXCEPT ![r] = fields]
    BY <1>2, <2>1 DEF Ask
  <2>3. /\ fields \in RunState /\ fields.pc = "asking" /\ fields.at = run[r].at + 1
        /\ fields.mine = run[r].mine /\ fields.alone = run[r].alone
    BY <1>1, <2>1 DEF RunState
  <2>4. /\ fields.at \in 1..(Len(SeedOrder) + 1)
        /\ \A k \in 1..(fields.at - 1) : k \in 1..(run[r].at - 1) \/ k = run[r].at
        /\ \A k \in 1..(run[r].at - 1) : k \in 1..(fields.at - 1)
    BY <1>1, <2>3, NextPlace
  <2>5. /\ \A id \in fields.mine : \E k \in 1..(fields.at - 1) : SeedOrder[k] = id
        /\ \A k \in 1..(fields.at - 1) : SeedOrder[k] \in fields.mine \/ Found(SeedOrder[k])
    BY <1>1, <1>2, <2>3, <2>4 DEF Behind
  <2>6. /\ run[r].pc # "idle" /\ fields.pc # "idle" /\ fields.pc # "inserting"
        /\ (fields.alone => run[r].alone) /\ \A id \in fields.mine : id \in run[r].mine
        /\ fields.at \in 1..(Len(SeedOrder) + 1) /\ fields \in RunState /\ UNCHANGED tables
    BY <1>1, <2>3, <2>4
  <2> QED
    BY <2>2, <2>5, <2>6, MovingKeepsSInv
<1>3. CASE ~ Found(Current(r))
  <2>1. PICK fields : fields = [run[r] EXCEPT !.pc = "inserting"]
    OBVIOUS
  <2>2. run' = [run EXCEPT ![r] = fields]
    BY <1>3, <2>1 DEF Ask
  <2>3. /\ fields \in RunState /\ fields.pc = "inserting" /\ fields.at = run[r].at
        /\ fields.mine = run[r].mine /\ fields.alone = run[r].alone
    BY <1>1, <2>1 DEF RunState
  <2>4. fields.at \in 1..(Len(SeedOrder) + 1) /\ fields.at <= Len(SeedOrder)
    BY <1>1, <2>3, OrderShape
  <2> QED
    <3>1. /\ \A id \in fields.mine : \E k \in 1..(fields.at - 1) : SeedOrder[k] = id
          /\ \A k \in 1..(fields.at - 1) : SeedOrder[k] \in fields.mine \/ Found(SeedOrder[k])
          /\ \A id \in fields.mine : id \in run[r].mine
      BY <1>1, <2>3 DEF Behind
    <3>2. ~ Found(SeedOrder[fields.at])
      BY <1>1, <1>3, <2>3
    <3>3. run[r].pc # "idle" /\ fields.pc # "idle" /\ (fields.alone => run[r].alone)
      BY <1>1, <2>3
    <3> QED
      BY <1>1, <2>2, <2>3, <2>4, <3>1, <3>2, <3>3, MovingKeepsSInv
<1> QED
  BY <1>2, <1>3

LEMMA InsertKeepsSInv ==
    ASSUME SInv, NEW r \in Runs, Insert(r)
    PROVE  SInv'
<1>1. /\ run[r].pc = "inserting" /\ run[r].at \in 1..Len(SeedOrder) /\ UNCHANGED tables
      /\ run[r] \in RunState /\ Behind(r) /\ Current(r) = SeedOrder[run[r].at]
      /\ Current(r) \in RowIds
  BY OrderShape, OrderVisits DEF Insert, Order, Current, SInv, TypeOK, RunsSound, RunState
<1>2. /\ UniqueKey(Current(r)) \notin CommittedKeys
      /\ \A q \in Runs \ {r} : UniqueKey(Current(r)) \notin HeldBy(q)
  BY DEF Insert, TableTakes, Contended
<1>3. PICK fields : fields = [run[r] EXCEPT !.pc = "asking", !.at = @ + 1,
                                            !.mine = @ \union {Current(r)}]
  OBVIOUS
<1>4. run' = [run EXCEPT ![r] = fields]
  BY <1>3 DEF Insert
<1>5. /\ fields \in RunState /\ fields.pc = "asking" /\ fields.at = run[r].at + 1
      /\ fields.mine = run[r].mine \union {Current(r)} /\ fields.alone = run[r].alone
  <2>1. PICK id \in RowIds : id = Current(r)
    BY <1>1
  <2>2. fields = [run[r] EXCEPT !.pc = "asking", !.at = @ + 1, !.mine = @ \union {id}]
    BY <1>3, <2>1
  <2>3. run[r].mine \union {id} \in SUBSET RowIds /\ run[r].at + 1 \in Nat
    BY <1>1 DEF RunState
  <2> QED
    BY <1>1, <2>1, <2>2, <2>3 DEF RunState
<1>6. /\ fields.at \in 1..(Len(SeedOrder) + 1)
      /\ \A k \in 1..(fields.at - 1) : k \in 1..(run[r].at - 1) \/ k = run[r].at
      /\ \A k \in 1..(run[r].at - 1) : k \in 1..(fields.at - 1)
      /\ run[r].at \in 1..(fields.at - 1)
  BY <1>1, <1>5, NextPlace, SMTT(30)
<1>7. /\ \A id \in fields.mine : \E k \in 1..(fields.at - 1) : SeedOrder[k] = id
      /\ \A k \in 1..(fields.at - 1) : SeedOrder[k] \in fields.mine \/ Found(SeedOrder[k])
  BY <1>1, <1>5, <1>6 DEF Behind
<1>8. \A id \in fields.mine : id \in run[r].mine \/
         (UniqueKey(id) \notin CommittedKeys
            /\ \A q \in Runs \ {r} : UniqueKey(id) \notin HeldBy(q))
  <2>1. PICK new : new = Current(r)
    OBVIOUS
  <2>2. /\ UniqueKey(new) \notin CommittedKeys
        /\ \A q \in Runs \ {r} : UniqueKey(new) \notin HeldBy(q)
    BY <1>2, <2>1
  <2>3. \A id \in fields.mine : id \in run[r].mine \/ id = new
    BY <1>5, <2>1
  <2> QED
    BY <2>2, <2>3
<1>9. run[r].pc # "idle" /\ fields.pc # "idle" /\ fields.pc # "inserting"
      /\ (fields.alone => run[r].alone) /\ fields \in RunState /\ UNCHANGED tables
      /\ fields.at \in 1..(Len(SeedOrder) + 1)
  BY <1>1, <1>5, <1>6
<1> QED
  BY <1>4, <1>7, <1>8, <1>9, MovingKeepsSInv

LEMMA StartKeepsSInv ==
    ASSUME SInv, NEW r \in Runs, Start(r)
    PROVE  SInv'
<1> DEFINE none == \A x \in Runs : run[x].pc = "idle"
           other(q) == [run[q] EXCEPT !.alone = FALSE]
<1>1. PICK fields : fields = [Idle EXCEPT !.pc = "asking", !.alone = none]
  OBVIOUS
<1>2. /\ fields \in RunState /\ fields.pc = "asking" /\ fields.at = 1 /\ fields.mine = {}
      /\ fields.alone = none
  <2>1. none \in BOOLEAN
    OBVIOUS
  <2> HIDE DEF none
  <2> QED
    BY <1>1, <2>1 DEF Idle, RunState
<1>3. /\ run' = [q \in Runs |-> IF q = r THEN fields ELSE other(q)]
      /\ run[r].pc = "idle" /\ UNCHANGED <<stored, memberships, identities>>
  BY <1>1 DEF Start, tables
<1>4. \A q \in Runs : /\ other(q) \in RunState /\ other(q).pc = run[q].pc
                      /\ other(q).at = run[q].at /\ other(q).mine = run[q].mine
                      /\ other(q).alone = FALSE
  BY DEF SInv, TypeOK, RunState
<1> HIDE DEF other
<1>5. \A q \in Runs : /\ q = r => run'[q] = fields
                      /\ q # r => /\ run'[q] \in RunState /\ run'[q].pc = run[q].pc
                                  /\ run'[q].at = run[q].at /\ run'[q].mine = run[q].mine
                                  /\ run'[q].alone = FALSE
  BY <1>3, <1>4
<1>6. run' \in [Runs -> RunState]
  BY <1>2, <1>3, <1>4
<1>7. TypeOK' /\ TablesSound' /\ SeededWhole' /\ CommittedKeys' = CommittedKeys
  BY <1>3, <1>6 DEF SInv, TypeOK, TablesSound, SeededWhole, CommittedKeys
<1>8. \A id : Found(id)' <=> Found(id)
  BY <1>3 DEF Found
<1>9. RunsSound'
  <2> SUFFICES ASSUME NEW q \in Runs
               PROVE  /\ run'[q].pc = "idle" => run'[q].mine = {}
                      /\ run'[q].pc # "idle" =>
                            run'[q].at \in 1..(Len(SeedOrder) + 1) /\ Behind(q)'
                      /\ run'[q].pc = "inserting" => run'[q].at <= Len(SeedOrder)
    BY DEF RunsSound
  <2>1. CASE q = r
    <3>1. 1 \in 1..(Len(SeedOrder) + 1) /\ 1..(1 - 1) = {}
      BY OrderShape
    <3> QED
      BY <1>2, <1>5, <2>1, <3>1 DEF Behind
  <2>2. CASE q # r
    BY <1>5, <1>8, <2>2 DEF SInv, RunsSound, Behind
  <2> QED
    BY <2>1, <2>2
<1>10. \A q \in Runs : run'[q].mine = run[q].mine
  BY <1>2, <1>3, <1>5 DEF SInv, RunsSound
<1>11. KeysApart'
  BY <1>7, <1>10 DEF SInv, KeysApart
<1>12. AloneSees'
  <2> SUFFICES ASSUME NEW q \in Runs, run'[q].alone
               PROVE  /\ \A s \in Runs \ {q} : run'[s].pc = "idle"
                      /\ run'[q].pc # "inserting"
    BY DEF AloneSees
  <2>1. q = r /\ none
    BY <1>2, <1>5
  <2> QED
    BY <1>2, <1>5, <2>1
<1> QED
  BY <1>7, <1>9, <1>11, <1>12 DEF SInv

LEMMA RowIdKinds ==
    ASSUME NEW id \in RowIds
    PROVE  /\ id[1] \in {"organization", "user", "membership", "identity"}
           /\ id = StableId(id[1], id[2])
           /\ id[1] = "organization" => id[2] = Org
           /\ id[1] # "organization" => id[2] \in Persons
BY RowIdIs, StableIdDiffers

\* All that a run has not found when it commits, it has inserted.
LEMMA CommitMakes ==
    ASSUME SInv, NEW r \in Runs, Commit(r)
    PROVE  /\ run[r].pc = "asking" /\ run[r].mine \subseteq RowIds
           /\ run' = [run EXCEPT ![r] = Idle]
           /\ \A id \in RowIds : id \in run[r].mine \/ Found(id)
           /\ \A x : x \in stored' <=>
                 x \in stored \/ (x \in run[r].mine /\ x[1] \in {"organization", "user"})
           /\ \A x : x \in memberships' <=>
                 \/ x \in memberships
                 \/ \E p \in Persons : /\ StableId("membership", p) \in run[r].mine
                                       /\ x = [org |-> Org, user |-> p]
           /\ \A x : x \in identities' <=>
                 \/ x \in identities
                 \/ \E p \in Persons : /\ StableId("identity", p) \in run[r].mine
                                       /\ x = SeedIdentity(p)
<1>1. /\ run[r].pc = "asking" /\ run[r].at > Len(SeedOrder) /\ run[r].mine \subseteq RowIds
      /\ run[r].at \in 1..(Len(SeedOrder) + 1) /\ Behind(r)
      /\ run' = [run EXCEPT ![r] = Idle]
  BY DEF Commit, Visited, Order, SInv, TypeOK, RunsSound, RunState
<1>2. 1..(run[r].at - 1) = 1..Len(SeedOrder)
  BY <1>1, OrderShape
<1>3. \A id \in RowIds : id \in run[r].mine \/ Found(id)
  BY <1>1, <1>2, OrderVisits DEF Behind
<1>4. \A x : x \in stored' <=>
         x \in stored \/ (x \in run[r].mine /\ x[1] \in {"organization", "user"})
  BY DEF Commit, Inserted
<1>5. \A kind : \A id : id \in Inserted(r, kind) <=> id \in run[r].mine /\ id[1] = kind
  BY DEF Inserted
<1>6. \A kind \in {"membership", "identity"} : \A p : StableId(kind, p) \in run[r].mine =>
         p \in Persons /\ StableId(kind, p) \in Inserted(r, kind) /\ StableId(kind, p)[2] = p
  <2> TAKE kind \in {"membership", "identity"}
  <2> TAKE p
  <2> HAVE StableId(kind, p) \in run[r].mine
  <2>1. StableId(kind, p)[1] = kind /\ StableId(kind, p)[2] = p
    BY StableIdDiffers
  <2> QED
    BY <1>1, <1>5, <2>1, RowIdKinds
<1>7. \A kind \in {"membership", "identity"} : \A id \in Inserted(r, kind) :
         id[2] \in Persons /\ id = StableId(kind, id[2]) /\ id \in run[r].mine
  BY <1>1, <1>5, RowIdKinds
<1>8. ASSUME NEW x
      PROVE  x \in memberships' <=>
                \/ x \in memberships
                \/ \E p \in Persons : /\ StableId("membership", p) \in run[r].mine
                                      /\ x = [org |-> Org, user |-> p]
  <2>1. x \in memberships' <=>
           x \in memberships \/ \E id \in Inserted(r, "membership") : x = [org |-> Org, user |-> id[2]]
    BY DEF Commit
  <2>2. (\E id \in Inserted(r, "membership") : x = [org |-> Org, user |-> id[2]]) <=>
           \E p \in Persons : /\ StableId("membership", p) \in run[r].mine
                              /\ x = [org |-> Org, user |-> p]
    BY <1>6, <1>7
  <2> QED
    BY <2>1, <2>2
<1>9. ASSUME NEW x
      PROVE  x \in identities' <=>
                \/ x \in identities
                \/ \E p \in Persons : /\ StableId("identity", p) \in run[r].mine
                                      /\ x = SeedIdentity(p)
  <2>1. x \in identities' <=>
           x \in identities \/ \E id \in Inserted(r, "identity") : x = SeedIdentity(id[2])
    BY DEF Commit, IdentitiesOf
  <2>2. (\E id \in Inserted(r, "identity") : x = SeedIdentity(id[2])) <=>
           \E p \in Persons : StableId("identity", p) \in run[r].mine /\ x = SeedIdentity(p)
    BY <1>6, <1>7
  <2> QED
    BY <2>1, <2>2
<1> QED
  BY <1>1, <1>3, <1>4, <1>8, <1>9

\* After a commit everything on the list is there.
LEMMA CommitKeepsSInv ==
    ASSUME SInv, NEW r \in Runs, Commit(r)
    PROVE  SInv'
<1>1. /\ run[r].pc = "asking" /\ run[r].mine \subseteq RowIds
      /\ run' = [run EXCEPT ![r] = Idle]
      /\ \A id \in RowIds : id \in run[r].mine \/ Found(id)
  BY CommitMakes
<1>2. \A x : x \in stored' <=>
         x \in stored \/ (x \in run[r].mine /\ x[1] \in {"organization", "user"})
  BY CommitMakes
<1>3. \A x : x \in memberships' <=>
         \/ x \in memberships
         \/ \E p \in Persons : /\ StableId("membership", p) \in run[r].mine
                               /\ x = [org |-> Org, user |-> p]
  BY CommitMakes
<1>4. \A x : x \in identities' <=>
         \/ x \in identities
         \/ \E p \in Persons : /\ StableId("identity", p) \in run[r].mine
                               /\ x = SeedIdentity(p)
  BY CommitMakes
<1>5. stored \subseteq stored' /\ memberships \subseteq memberships' /\ identities \subseteq identities'
  BY <1>2, <1>3, <1>4
<1>6. /\ run' \in [Runs -> RunState]
      /\ \A q \in Runs : run'[q] = IF q = r THEN Idle ELSE run[q]
  BY <1>1, IdleIs DEF SInv, TypeOK
<1>7. TypeOK'
  <2>1. stored' \subseteq RowIds
    BY <1>1, <1>2 DEF SInv, TypeOK
  <2>2. memberships' \subseteq [org : Orgs, user : Users]
    <3>1. \A p \in Persons : [org |-> Org, user |-> p] \in [org : Orgs, user : Users]
      BY SeedAssumption
    <3> QED
      BY <1>3, <3>1 DEF SInv, TypeOK
  <2>3. identities' \subseteq IdentityType
    BY <1>4, SeedIdentityTyped DEF SInv, TypeOK, IdentityType
  <2> QED
    BY <1>6, <2>1, <2>2, <2>3 DEF TypeOK, IdentityType
<1>8. ASSUME NEW p \in Persons, StableId("identity", p) \in run[r].mine, NEW row \in identities
      PROVE  ~ (row.channel = Channel /\ row.norm = NormalizeAddress(AddressOf[p]))
  <2>1. AddressKey(Channel, NormalizeAddress(AddressOf[p])) \notin CommittedKeys
    BY <1>8, KeyOf DEF SInv, KeysApart
  <2> QED
    BY <2>1, CommittedAre DEF SInv
<1>9. TablesSound'
  <2>1. \A id \in stored' : id[1] \in {"organization", "user"}
    BY <1>2 DEF SInv, TablesSound
  <2>2. ASSUME NEW row \in identities'
        PROVE  /\ row.norm = NormalizeAddress(row.raw) /\ row.norm # NoAddress
               /\ row.id[1] = "identity" => row.id[2] \in Persons /\ row = SeedIdentity(row.id[2])
               /\ row.id[1] = "drawn" /\ row.user \in Persons => StableId("user", row.user) \in stored'
    <3>1. CASE row \in identities
      BY <1>5, <3>1 DEF SInv, TablesSound
    <3>2. ASSUME NEW p \in Persons, row = SeedIdentity(p)
          PROVE  /\ row.norm = NormalizeAddress(row.raw) /\ row.norm # NoAddress
                 /\ row.id[1] = "identity" /\ row.id[2] \in Persons /\ row = SeedIdentity(row.id[2])
      <4>1. /\ SeedIdentity(p).raw = AddressOf[p]
            /\ SeedIdentity(p).norm = NormalizeAddress(AddressOf[p])
            /\ SeedIdentity(p).id[1] = "identity" /\ SeedIdentity(p).id[2] = p
        BY SeedIdentityIs
      <4>2. SeedIdentity(p).norm # NoAddress
        BY SeedIdentityTyped
      <4> QED
        BY <3>2, <4>1, <4>2
    <3> QED
      BY <1>4, <3>1, <3>2
  <2>3. ASSUME NEW one \in identities', NEW other \in identities',
               one.channel = other.channel, one.norm = other.norm
        PROVE  one = other
    <3>1. \A p \in Persons : /\ SeedIdentity(p).channel = Channel
                             /\ SeedIdentity(p).norm = NormalizeAddress(AddressOf[p])
      BY SeedIdentityIs
    <3>2. CASE one \in identities /\ other \in identities
      BY <2>3, <3>2 DEF SInv, TablesSound
    <3>3. ASSUME NEW p \in Persons, StableId("identity", p) \in run[r].mine, one = SeedIdentity(p)
          PROVE  one = other
      <4>1. other \notin identities
        BY <1>8, <2>3, <3>1, <3>3
      <4>2. PICK q \in Persons : other = SeedIdentity(q)
        BY <1>4, <4>1
      <4>3. NormalizeAddress(AddressOf[p]) = NormalizeAddress(AddressOf[q])
        BY <2>3, <3>1, <3>3, <4>2
      <4> QED
        BY <3>3, <4>2, <4>3, PeopleAssumption
    <3>4. ASSUME NEW p \in Persons, StableId("identity", p) \in run[r].mine, other = SeedIdentity(p),
                 one \in identities
          PROVE  FALSE
      BY <1>8, <2>3, <3>1, <3>4
    <3> QED
      BY <1>4, <3>2, <3>3, <3>4
  <2>4. \A m \in memberships' : m.user \in Persons => m.org = Org
    BY <1>3 DEF SInv, TablesSound
  <2> QED
    BY <2>1, <2>2, <2>3, <2>4 DEF TablesSound
<1>10. ASSUME NEW p \in Persons
       PROVE  /\ StableId("user", p) \in stored'
              /\ [org |-> Org, user |-> p] \in memberships'
              /\ SeedIdentity(p) \in identities'
  <2>1. /\ StableId("user", p) \in RowIds /\ StableId("membership", p) \in RowIds
        /\ StableId("identity", p) \in RowIds
    BY RowIdIs
  <2>2. StableId("user", p) \in stored'
    <3>1. StableId("user", p)[1] = "user"
      BY StableIdDiffers
    <3>2. Found(StableId("user", p)) <=> StableId("user", p) \in stored
      BY FoundAre
    <3> QED
      BY <1>1, <1>2, <2>1, <3>1, <3>2
  <2>3. [org |-> Org, user |-> p] \in memberships'
    BY <1>1, <1>3, <2>1, FoundAre
  <2>4. SeedIdentity(p) \in identities'
    <3>1. CASE Found(StableId("identity", p))
      <4>1. PICK row \in identities : row.id = StableId("identity", p)
        BY <3>1, FoundAre
      <4>2. row.id[1] = "identity" /\ row.id[2] = p
        BY <4>1, StableIdDiffers
      <4>3. row = SeedIdentity(p)
        BY <4>2 DEF SInv, TablesSound
      <4> QED
        BY <1>5, <4>3
    <3>2. CASE StableId("identity", p) \in run[r].mine
      BY <1>4, <3>2
    <3> QED
      BY <1>1, <2>1, <3>1, <3>2
  <2> QED
    BY <2>2, <2>3, <2>4
<1>11. StableId("organization", Org) \in stored'
  <2>1. StableId("organization", Org)[1] = "organization"
    BY StableIdDiffers
  <2>2. Found(StableId("organization", Org)) <=> StableId("organization", Org) \in stored
    BY FoundAre
  <2>3. StableId("organization", Org) \in RowIds
    BY RowIdIs
  <2> QED
    BY <1>1, <1>2, <2>1, <2>2, <2>3
<1>12. SeededWhole'
  <2>1. \A p \in Persons : \E row \in identities' : row.id = StableId("identity", p) /\ row.verified
    BY <1>10, SeedIdentityIs
  <2>2. \A p \in Persons : ManagerOf[p] # Nobody => ManagerOf[p] \in Persons
    BY SeedAssumption
  <2> QED
    BY <1>10, <1>11, <2>1, <2>2 DEF SeededWhole
<1>13. \A id : Found(id) => Found(id)'
  BY <1>5, FoundStays
<1>14. RunsSound'
  BY <1>6, <1>13, IdleIs DEF SInv, RunsSound, Behind
<1>15. \A key \in CommittedKeys' : key \in CommittedKeys \/ key \in HeldBy(r)
  <2>1. ASSUME NEW id \in run[r].mine
        PROVE  UniqueKey(id) \in HeldBy(r)
    BY DEF HeldBy
  <2>2. ASSUME NEW id \in stored'
        PROVE  id \in CommittedKeys \/ id \in HeldBy(r)
    <3>1. CASE id \in stored
      BY <3>1 DEF CommittedKeys
    <3>2. CASE id \in run[r].mine /\ id[1] \in {"organization", "user"}
      <4>1. UniqueKey(id) = id
        BY <3>2 DEF UniqueKey
      <4> QED
        BY <2>1, <3>2, <4>1
    <3> QED
      BY <1>2, <3>1, <3>2
  <2>3. ASSUME NEW m \in memberships'
        PROVE  StableId("membership", m.user) \in CommittedKeys
                  \/ StableId("membership", m.user) \in HeldBy(r)
    <3>1. CASE m \in memberships
      BY <3>1 DEF CommittedKeys
    <3>2. ASSUME NEW p \in Persons, StableId("membership", p) \in run[r].mine, m.user = p
          PROVE  StableId("membership", m.user) \in HeldBy(r)
      BY <2>1, <3>2, KeyOf
    <3> QED
      BY <1>3, <3>1, <3>2
  <2>4. ASSUME NEW row \in identities'
        PROVE  AddressKey(row.channel, row.norm) \in CommittedKeys
                  \/ AddressKey(row.channel, row.norm) \in HeldBy(r)
    <3>1. CASE row \in identities
      BY <3>1 DEF CommittedKeys
    <3>2. ASSUME NEW p \in Persons, StableId("identity", p) \in run[r].mine, row = SeedIdentity(p)
          PROVE  AddressKey(row.channel, row.norm) \in HeldBy(r)
      <4>1. /\ SeedIdentity(p).channel = Channel
            /\ SeedIdentity(p).norm = NormalizeAddress(AddressOf[p])
        BY SeedIdentityIs
      <4>2. UniqueKey(StableId("identity", p)) = AddressKey(row.channel, row.norm)
        BY <3>2, <4>1, KeyOf
      <4> QED
        BY <2>1, <3>2, <4>2
    <3> QED
      BY <1>4, <3>1, <3>2
  <2> QED
    BY <2>2, <2>3, <2>4 DEF CommittedKeys
<1>16. KeysApart'
  <2>1. ASSUME NEW q \in Runs, NEW id \in run'[q].mine
        PROVE  q # r /\ id \in run[q].mine
    BY <1>6, IdleIs
  <2>2. ASSUME NEW q \in Runs, NEW id \in run'[q].mine
        PROVE  UniqueKey(id) \notin CommittedKeys'
    <3>1. q # r /\ id \in run[q].mine
      BY <2>1
    <3>2. UniqueKey(id) \notin CommittedKeys
      BY <3>1 DEF SInv, KeysApart
    <3>3. UniqueKey(id) \notin HeldBy(r)
      BY <3>1 DEF SInv, KeysApart, HeldBy
    <3> QED
      BY <1>15, <3>2, <3>3
  <2> QED
    BY <2>1, <2>2 DEF SInv, KeysApart
<1>17. AloneSees'
  <2>1. \A q \in Runs : ~ run'[q].alone
    BY <1>1, <1>6, IdleIs DEF SInv, AloneSees
  <2> QED
    BY <2>1 DEF AloneSees
<1> QED
  BY <1>7, <1>9, <1>12, <1>14, <1>16, <1>17 DEF SInv

\* An address registered otherwise is nobody's yet, neither committed nor about to be.
LEMMA ClaimKeepsSInv ==
    ASSUME SInv, NEW user \in Claimants, NEW channel \in Channels, NEW raw \in Claims,
           NEW verified \in BOOLEAN, Claim(user, channel, raw, verified)
    PROVE  SInv'
<1>1. PICK new : new = IdentityRow(StableId("drawn", user), user, channel, raw, verified)
  OBVIOUS
<1>2. /\ identities' = identities \union {new} /\ UNCHANGED <<stored, memberships, run>>
      /\ user \in Persons => StableId("user", user) \in stored
      /\ NormalizeAddress(raw) # NoAddress
      /\ ~ \E row \in identities : row.channel = channel /\ row.norm = NormalizeAddress(raw)
      /\ \A r \in Runs : AddressKey(channel, NormalizeAddress(raw)) \notin HeldBy(r)
  BY <1>1 DEF Claim, MayRegister, AddressFree
<1>3. /\ new.id = StableId("drawn", user) /\ new.id[1] = "drawn" /\ new.user = user
      /\ new.channel = channel /\ new.raw = raw /\ new.norm = NormalizeAddress(raw)
  BY <1>1 DEF IdentityRow, StableId
<1>4. new \in IdentityType
  <2>1. raw \in RawAddresses /\ user \in Users
    BY SeedAssumption
  <2>2. NormalizeAddress(raw) \in RawAddresses
    BY <1>2, <2>1, NormalizedTyped
  <2>3. StableId("drawn", user) \in {"identity", "drawn"} \X Users
    BY <2>1 DEF StableId
  <2> QED
    BY <1>1, <2>1, <2>2, <2>3 DEF IdentityRow, IdentityType
<1>5. TypeOK'
  BY <1>2, <1>4 DEF SInv, TypeOK, IdentityType
<1>6. TablesSound'
  <2>1. ASSUME NEW row \in identities'
        PROVE  /\ row.norm = NormalizeAddress(row.raw) /\ row.norm # NoAddress
               /\ row.id[1] = "identity" => row.id[2] \in Persons /\ row = SeedIdentity(row.id[2])
               /\ row.id[1] = "drawn" /\ row.user \in Persons => StableId("user", row.user) \in stored'
    <3>1. CASE row \in identities
      BY <1>2, <3>1 DEF SInv, TablesSound
    <3>2. CASE row = new
      BY <1>2, <1>3, <3>2
    <3> QED
      BY <1>2, <3>1, <3>2
  <2>2. ASSUME NEW one \in identities', NEW other \in identities',
               one.channel = other.channel, one.norm = other.norm
        PROVE  one = other
    BY <1>2, <1>3, <2>2 DEF SInv, TablesSound
  <2> QED
    BY <1>2, <2>1, <2>2 DEF SInv, TablesSound
<1>7. \A p : StableId("identity", p) # new.id
  BY <1>3, StableIdDiffers
<1>8. SeededWhole'
  BY <1>2, <1>7 DEF SInv, SeededWhole
<1>9. \A id : Found(id) => Found(id)'
  BY <1>2, FoundStays
<1>10. ASSUME NEW id \in RowIds, ~ Found(id)
       PROVE  ~ Found(id)'
  <2>1. id[1] = "identity" => id # new.id
    BY <1>3
  <2> QED
    BY <1>2, <1>10, <2>1 DEF Found
<1>11. RunsSound'
  BY <1>2, <1>9 DEF SInv, RunsSound, Behind
<1>12. \A key \in CommittedKeys' :
          key \in CommittedKeys \/ key = AddressKey(channel, NormalizeAddress(raw))
  BY <1>2, <1>3 DEF CommittedKeys
<1>13. KeysApart'
  BY <1>2, <1>12 DEF SInv, KeysApart, HeldBy
<1>14. AloneSees'
  <2> SUFFICES ASSUME NEW r \in Runs, run[r].alone
               PROVE  /\ \A q \in Runs \ {r} : run[q].pc = "idle"
                      /\ run[r].pc = "inserting" => ~ Found(SeedOrder[run[r].at])'
    BY <1>2 DEF AloneSees
  <2>1. CASE run[r].pc = "inserting"
    <3>1. PICK id : id = SeedOrder[run[r].at]
      OBVIOUS
    <3>2. id \in RowIds /\ ~ Found(id)
      BY <2>1, <3>1, OrderShape, OrderVisits DEF SInv, RunsSound, AloneSees
    <3>3. ~ Found(id)'
      BY <1>10, <3>2
    <3>4. ~ Found(SeedOrder[run[r].at])'
      BY <1>2, <3>1, <3>3 DEF Found
    <3> QED
      BY <3>4 DEF SInv, AloneSees
  <2> QED
    BY <2>1 DEF SInv, AloneSees
<1> QED
  BY <1>5, <1>6, <1>8, <1>11, <1>13, <1>14 DEF SInv

LEMMA StepKeepsSInv == SInv /\ [Next]_vars => SInv'
<1> SUFFICES ASSUME SInv, [Next]_vars PROVE SInv'
  OBVIOUS
<1>1. ASSUME NEW r \in Runs, Start(r)
      PROVE  SInv'
  BY <1>1, StartKeepsSInv
<1>2. ASSUME NEW r \in Runs, Serve(r)
      PROVE  SInv'
  <2>1. CASE Ask(r)
    BY <2>1, AskKeepsSInv
  <2>2. CASE Insert(r)
    BY <2>2, InsertKeepsSInv
  <2>3. CASE Fail(r)
    BY <2>3, RollbackKeepsSInv DEF Fail, Refused
  <2>4. CASE Commit(r)
    BY <2>4, CommitKeepsSInv
  <2> QED
    BY <1>2, <2>1, <2>2, <2>3, <2>4 DEF Serve
<1>3. ASSUME NEW r \in Runs, Crash(r)
      PROVE  SInv'
  BY <1>3, RollbackKeepsSInv DEF Crash
<1>4. ASSUME NEW user \in Claimants, NEW channel \in Channels, NEW raw \in Claims,
             NEW verified \in BOOLEAN, Claim(user, channel, raw, verified)
      PROVE  SInv'
  BY <1>4, ClaimKeepsSInv
<1>5. CASE UNCHANGED vars
  BY <1>5, SMTT(30) DEF vars, SInv, TypeOK, TablesSound, RunsSound, Behind, Found, KeysApart, HeldBy,
              CommittedKeys, AloneSees, SeededWhole
<1> QED
  BY <1>1, <1>2, <1>3, <1>4, <1>5 DEF Next

LEMMA SInvHolds == Spec => []SInv
BY InitSInv, StepKeepsSInv, PTL DEF Spec

-----------------------------------------------------------------------------
\* For any people, any number of runs and any registrations, committed rows and runs
\* keep their types; what is stored of an address is an address.
THEOREM SeedTypeCorrect == Spec => []TypeOK
BY SInvHolds, PTL DEF SInv

\* A seeded person is there with a user, a membership and a verified identity or not
\* at all, however many runs overlap, fail or crash (seed and main, seed.py).
THEOREM SeededWholeHolds == Spec => []SeededWhole
BY SInvHolds, PTL DEF SInv

\* Whatever earlier runs left behind, a run nothing overlaps is refused only where a
\* seeded address is somebody else's (seed.py:3, "Safe to run repeatedly").
THEOREM AloneNeverRefusedHolds == Spec => []AloneNeverRefused
<1>1. SInv => AloneNeverRefused
  <2> SUFFICES ASSUME SInv, NEW r \in Runs, Refused(r), run[r].alone
               PROVE  \E row \in identities : \E p \in Persons \ {row.user} :
                         row.norm = NormalizeAddress(AddressOf[p])
    BY DEF AloneNeverRefused
  <2>1. PICK id : id = Current(r)
    OBVIOUS
  <2>2. /\ run[r].at \in 1..Len(SeedOrder) /\ id = SeedOrder[run[r].at] /\ id \in RowIds
        /\ ~ Found(id) /\ ~ TableTakes(r, id) /\ Behind(r) /\ run[r].mine \subseteq RowIds
    <3>1. /\ run[r].pc = "inserting" /\ ~ TableTakes(r, id) /\ id = SeedOrder[run[r].at]
          /\ Behind(r) /\ run[r].mine \subseteq RowIds
      BY <2>1 DEF Refused, Current, Order, SInv, RunsSound, TypeOK, RunState
    <3>2. run[r].at \in 1..Len(SeedOrder)
      BY <3>1, OrderShape DEF SInv, RunsSound
    <3> QED
      BY <3>1, <3>2, OrderVisits DEF SInv, AloneSees
  <2>3. UniqueKey(id) \notin HeldBy(r)
    <3> SUFFICES ASSUME NEW other \in run[r].mine, UniqueKey(other) = UniqueKey(id)
                 PROVE  FALSE
      BY DEF HeldBy
    <3>1. other = id
      BY <2>2, KeysDiffer
    <3>2. PICK k \in 1..(run[r].at - 1) : SeedOrder[k] = id
      BY <2>2, <3>1 DEF Behind
    <3>3. PICK n \in 1..Len(SeedOrder) : n = run[r].at
      BY <2>2
    <3>4. k \in 1..Len(SeedOrder) /\ k # n
      <4>1. Len(SeedOrder) \in Nat /\ k \in 1..(n - 1)
        BY <3>3, OrderShape
      <4> QED
        BY <4>1
    <3>5. SeedOrder[k] = SeedOrder[n]
      BY <2>2, <3>2, <3>3
    <3> QED
      BY <3>4, <3>5, OrderVisits
  <2>4. ManagerVisited(r, id)
    <3> SUFFICES ASSUME id[1] = "membership", ManagerOf[id[2]] # Nobody
                 PROVE  \E k \in 1..(run[r].at - 1) :
                           SeedOrder[k] = StableId("membership", ManagerOf[id[2]])
      BY DEF ManagerVisited, Order
    <3>1. PICK p \in Persons : p = id[2] /\ id = StableId("membership", p)
      BY <2>2, RowIdKinds
    <3>2. PICK n \in 1..Len(SeedOrder) : n = run[r].at
      BY <2>2
    <3>3. SeedOrder[n] = StableId("membership", p) /\ ManagerOf[p] # Nobody
      BY <2>2, <3>1, <3>2
    <3>4. \E m \in 1..(n - 1) : SeedOrder[m] = StableId("membership", ManagerOf[p])
      BY <3>3, OrderVisits
    <3> QED
      BY <3>1, <3>2, <3>4
  <2>5. id[1] = "identity" => NormalizeAddress(AddressOf[id[2]]) # NoAddress
    BY <2>2, RowIdKinds, PeopleAssumption
  <2>6. UniqueKey(id) \in CommittedKeys
    BY <2>2, <2>3, <2>4, <2>5 DEF TableTakes
  <2>7. PICK p : id = StableId(id[1], p) /\ p = id[2] /\ (id[1] # "organization" => p \in Persons)
    BY <2>2, RowIdKinds
  <2>8. id[1] # "organization"
    <3> SUFFICES ASSUME id = StableId("organization", p) PROVE FALSE
      BY <2>7
    <3>1. UniqueKey(id) = id
      BY KeyOf
    <3>2. id \in stored
      BY <2>6, <3>1, CommittedAre DEF SInv
    <3> QED
      BY <2>2, <3>2, FoundAre
  <2>9. id[1] # "user"
    <3> SUFFICES ASSUME id = StableId("user", p) PROVE FALSE
      BY <2>7
    <3>1. UniqueKey(id) = id
      BY KeyOf
    <3>2. id \in stored
      BY <2>6, <3>1, CommittedAre DEF SInv
    <3> QED
      BY <2>2, <3>2, FoundAre
  <2>10. id[1] # "membership"
    <3> SUFFICES ASSUME id = StableId("membership", p), p \in Persons PROVE FALSE
      BY <2>7
    <3>1. PICK m \in memberships : m.user = p
      BY <2>6, KeyOf, CommittedAre DEF SInv
    <3>2. m = [org |-> Org, user |-> p]
      BY <3>1 DEF SInv, TablesSound, TypeOK
    <3> QED
      BY <2>2, <3>2, FoundAre
  <2>11. id = StableId("identity", p) /\ p \in Persons
    BY <2>2, <2>7, <2>8, <2>9, <2>10, RowIdKinds
  <2>12. PICK row \in identities : row.channel = Channel /\ row.norm = NormalizeAddress(AddressOf[p])
    BY <2>6, <2>11, KeyOf, CommittedAre DEF SInv
  <2>13. CASE row.user # p
    BY <2>11, <2>12, <2>13
  <2>14. CASE row.user = p
    <3>1. row.id[1] \in {"identity", "drawn"} /\ row.id = <<row.id[1], row.id[2]>>
      BY DEF SInv, TypeOK
    <3>2. CASE row.id[1] = "identity"
      <4>1. row = SeedIdentity(row.id[2])
        BY <3>2 DEF SInv, TablesSound
      <4>2. PICK q : q = row.id[2]
        OBVIOUS
      <4>3. SeedIdentity(q).user = q
        BY SeedIdentityIs
      <4>4. row.id = StableId("identity", p)
        BY <2>14, <3>1, <3>2, <4>1, <4>2, <4>3 DEF StableId
      <4> QED
        BY <2>2, <2>11, <4>4, FoundAre
    <3>3. CASE row.id[1] = "drawn"
      <4>1. StableId("user", p) \in stored
        BY <2>11, <2>14, <3>3 DEF SInv, TablesSound
      <4>2. \E other \in identities : other.id = StableId("identity", p)
        BY <2>11, <4>1 DEF SInv, SeededWhole
      <4> QED
        BY <2>2, <2>11, <4>2, FoundAre
    <3> QED
      BY <3>1, <3>2, <3>3
  <2> QED
    BY <2>13, <2>14
<1> QED
  BY <1>1, SInvHolds, PTL
-----------------------------------------------------------------------------
(***************************************************************************)
(* Recognition.                                                            *)
(***************************************************************************)

LEMMA TypedPhoneIs ==
    ASSUME NEW raw
    PROVE  /\ raw \in TypedPhones => raw \in RawAddresses /\ raw.kind = "phone"
           /\ /\ raw \in RawAddresses /\ raw.kind = "phone" /\ raw.uri \in 0..2
              /\ Len(raw.digits) \in 0..(MaxPhoneDigits + 1)
              => raw \in TypedPhones
<1>1. ASSUME NEW s, s \in DigitStrings
      PROVE  s \in Seq(Digits)
  <2>1. PICK n \in 0..(MaxPhoneDigits + 1) : s \in [1..n -> Digits]
    BY <1>1 DEF DigitStrings
  <2>2. n \in Nat
    BY AddressesAssumption
  <2> QED
    BY <2>1, <2>2
<1>2. ASSUME NEW s \in Seq(Digits), Len(s) \in 0..(MaxPhoneDigits + 1)
      PROVE  s \in DigitStrings
  <2>1. s \in [1..Len(s) -> Digits]
    BY <1>2
  <2> QED
    BY <1>2, <2>1 DEF DigitStrings
<1>3. ASSUME raw \in TypedPhones
      PROVE  raw \in RawAddresses /\ raw.kind = "phone"
  <2>1. raw.digits \in DigitStrings
    BY <1>3 DEF TypedPhones
  <2>2. raw.digits \in Seq(Digits)
    BY <1>1, <2>1
  <2> QED
    BY <1>3, <2>2 DEF TypedPhones, RawAddresses
<1>4. ASSUME raw \in RawAddresses, raw.kind = "phone", raw.uri \in 0..2,
             Len(raw.digits) \in 0..(MaxPhoneDigits + 1)
      PROVE  raw \in TypedPhones
  <2>1. raw.digits \in DigitStrings
    BY <1>2, <1>4, PhoneShape
  <2> QED
    BY <1>4, <2>1 DEF TypedPhones, RawAddresses
<1> QED
  BY <1>3, <1>4

\* Every spelling of a number could be typed, and is one of an address.
LEMMA SpellingsAreTyped ==
    ASSUME NEW number \in FullNumbers, NEW raw \in Spellings(number)
    PROVE  raw \in TypedPhones /\ raw.plus # "later" /\ raw \in RawAddresses /\ raw.kind = "phone"
<1>1. /\ number \in Seq(Digits) /\ Len(number) \in MinPhoneDigits..MaxPhoneDigits
  BY FullNumberIs
<1>2. Len(number) \in 0..(MaxPhoneDigits + 1)
  BY <1>1, AddressesAssumption
<1>3. Home(number) => /\ Tail(number) \in Seq(Digits)
                      /\ Len(Tail(number)) \in 0..(MaxPhoneDigits + 1)
  <2> SUFFICES ASSUME Home(number)
               PROVE  Tail(number) \in Seq(Digits) /\ Len(Tail(number)) \in 0..(MaxPhoneDigits + 1)
    OBVIOUS
  <2>1. Tail(number) \in Seq(Digits) /\ Len(Tail(number)) = NationalLength
    BY <1>1, HomeNumber
  <2> QED
    BY <2>1, AddressesAssumption
<1>4. raw \in Written("first", {number})
         \/ (Home(number) /\ raw \in Written("none", {number, Tail(number)}))
  BY DEF Spellings
<1>5. /\ raw.digits \in Seq(Digits) /\ Len(raw.digits) \in 0..(MaxPhoneDigits + 1)
      /\ raw.kind = "phone" /\ raw.uri \in 0..1 /\ raw.plus \in {"first", "none"}
  <2>1. CASE raw \in Written("first", {number})
    BY <1>1, <1>2, <2>1 DEF Written
  <2>2. CASE Home(number) /\ raw \in Written("none", {number, Tail(number)})
    BY <1>1, <1>2, <1>3, <2>2 DEF Written
  <2> QED
    BY <1>4, <2>1, <2>2
<1>6. raw \in RawAddresses
  <2>1. raw = Phone(raw.uri, raw.plus, raw.letter, raw.digits) /\ raw.letter = FALSE
    BY <1>4 DEF Written, Phone
  <2>2. raw.uri \in Nat
    BY <1>5
  <2>3. Phone(raw.uri, raw.plus, FALSE, raw.digits) \in RawAddresses
    BY <1>5, <2>2 DEF Phone, RawAddresses
  <2> QED
    BY <2>1, <2>3
<1> QED
  BY <1>5, <1>6, TypedPhoneIs

LEMMA NumberTypedFor ==
    ASSUME NEW number \in FullNumbers
    PROVE  TypedFor[number] = Spellings(number)
<1>1. TypedFor[number] = {raw \in TypedPhones : /\ raw.plus # "later"
                                                 /\ NormalizeAddress(raw) = Canonical(number)}
  BY DEF TypedFor
<1>2. ASSUME NEW raw \in TypedPhones, raw.plus # "later"
      PROVE  NormalizeAddress(raw) = Canonical(number) <=> raw \in Spellings(number)
  BY <1>2, TypedPhoneIs, OnlySpellingsAreRead
<1> QED
  BY <1>1, <1>2, SpellingsAreTyped

\* The number under which an address is stored.
LEMMA StoredNumber ==
    ASSUME SInv, NEW row \in identities, row.norm.kind = "phone"
    PROVE  row.norm.digits \in FullNumbers /\ row.norm = Canonical(row.norm.digits)
<1>1. /\ row.raw \in RawAddresses /\ row.norm = NormalizeAddress(row.raw)
      /\ NormalizeAddress(row.raw) # NoAddress
  BY DEF SInv, TypeOK, TablesSound
<1>2. row.raw.kind = "phone"
  BY <1>1, NormalizedTyped
<1>3. PICK number \in FullNumbers : row.norm = Canonical(number)
  BY <1>1, <1>2, PhoneRead
<1>4. number \in Seq(Digits)
  BY FullNumberIs
<1>5. row.norm.digits = number
  BY <1>3, <1>4, CanonicalShape
<1> QED
  BY <1>3, <1>5

\* For numbers of any length: of everything that could be typed, exactly the
\* spellings of a registered number are read as that number, so no two people share
\* a spelling (_normalize_phone, addresses.py:69).
THEOREM NumberHasOneKeyHolds == Spec => []NumberHasOneKey
<1>1. SInv => NumberHasOneKey
  BY StoredNumber, NumberTypedFor DEF NumberHasOneKey
<1> QED
  BY <1>1, SInvHolds, PTL
\* What is registered is what was typed: a seeded address or a claimed one.
RegisteredAsTyped == \A row \in identities : row.raw \in Claims \union {AddressOf[p] : p \in Persons}

LEMMA RegisteredAsTypedHolds == Spec => []RegisteredAsTyped
<1>0. ASSUME NEW p
      PROVE  SeedIdentity(p).raw = AddressOf[p]
  BY SeedIdentityIs
<1>1. Init => RegisteredAsTyped
  <2> SUFFICES ASSUME Init PROVE RegisteredAsTyped
    OBVIOUS
  <2>1. \E n \in 0..Len(People) : identities = {SeedIdentity(p) : p \in {People[k] : k \in 1..n}}
    BY DEF Init
  <2>2. PICK n \in 0..Len(People) :
           identities = {SeedIdentity(p) : p \in {People[k] : k \in 1..n}}
    BY <2>1
  <2>3. \A row \in identities : \E k \in 1..n : row = SeedIdentity(People[k])
    BY <2>2
  <2>4. \A k \in 1..n : People[k] \in Persons
    BY PeopleAre
  <2>5. ASSUME NEW row \in identities
        PROVE  \E p \in Persons : row.raw = AddressOf[p]
    <3>1. PICK p \in Persons : row = SeedIdentity(p)
      BY <2>3, <2>4
    <3> QED
      BY <1>0, <3>1
  <2> QED
    BY <2>5 DEF RegisteredAsTyped
<1>2. SInv /\ RegisteredAsTyped /\ [Next]_vars => RegisteredAsTyped'
  <2> SUFFICES ASSUME SInv, RegisteredAsTyped, [Next]_vars PROVE RegisteredAsTyped'
    OBVIOUS
  <2>1. ASSUME NEW r \in Runs, Commit(r)
        PROVE  RegisteredAsTyped'
    <3>1. ASSUME NEW row \in identities'
          PROVE  row.raw \in Claims \union {AddressOf[p] : p \in Persons}
      <4>1. CASE row \in identities
        BY <4>1 DEF RegisteredAsTyped
      <4>2. CASE row \notin identities
        <5>1. PICK p \in Persons : row = SeedIdentity(p)
          BY <2>1, <4>2, CommitMakes
        <5> QED
          BY <1>0, <5>1
      <4> QED
        BY <4>1, <4>2
    <3> QED
      BY <3>1 DEF RegisteredAsTyped
  <2>2. ASSUME NEW user \in Claimants, NEW channel \in Channels, NEW raw \in Claims,
               NEW verified \in BOOLEAN, Claim(user, channel, raw, verified)
        PROVE  RegisteredAsTyped'
    BY <2>2 DEF Claim, IdentityRow, RegisteredAsTyped
  <2>3. CASE identities' = identities
    BY <2>3 DEF RegisteredAsTyped
  <2>4. \/ \E r \in Runs : Commit(r)
        \/ \E user \in Claimants, channel \in Channels, raw \in Claims, verified \in BOOLEAN :
              Claim(user, channel, raw, verified)
        \/ identities' = identities
    BY DEF Next, Start, Serve, Ask, Insert, Fail, Crash, tables, vars
  <2> QED
    BY <2>1, <2>2, <2>3, <2>4
<1> QED
  BY <1>1, <1>2, SInvHolds, PTL DEF Spec

\* Where an address is stored, every way to type it is read as what is stored.
LEMMA TypedAsStored ==
    ASSUME SInv, RegisteredAsTyped,
           \A raw \in Claims \union {AddressOf[p] : p \in Persons} : raw.kind = "phone" \/ raw.uri <= 1,
           NEW row \in identities,
           NEW raw \in IF row.norm.kind = "email" THEN MailSpellings(row.norm.mailbox)
                                                  ELSE Spellings(row.norm.digits)
    PROVE  NormalizeAddress(raw) = row.norm
<1>1. /\ row.raw \in RawAddresses /\ row.norm = NormalizeAddress(row.raw)
      /\ NormalizeAddress(row.raw) # NoAddress /\ row.norm.kind = row.raw.kind
      /\ row.raw.kind = "phone" \/ row.raw.uri <= 1
  BY NormalizedTyped DEF SInv, TypeOK, TablesSound, RegisteredAsTyped
<1>2. CASE row.raw.kind = "phone"
  <2>1. row.norm.digits \in FullNumbers /\ row.norm = Canonical(row.norm.digits)
    BY <1>1, <1>2, StoredNumber
  <2>2. raw \in Spellings(row.norm.digits)
    BY <1>1, <1>2
  <2>3. raw \in RawAddresses /\ raw.kind = "phone" /\ raw.plus # "later"
    BY <2>1, <2>2, SpellingsAreTyped
  <2> QED
    BY <2>1, <2>2, <2>3, OnlySpellingsAreRead
<1>3. CASE row.raw.kind # "phone"
  <2>1. row.norm = Email(0, FALSE, "none", row.raw.mailbox) /\ row.norm.kind = "email"
    BY <1>1, <1>3, EmailRead, EmailShape
  <2>2. row.norm.mailbox = row.raw.mailbox
    BY <2>1 DEF Email
  <2>3. raw.kind = "email" /\ raw.uri \in 0..1 /\ raw.flaw = "none" /\ raw.mailbox = row.raw.mailbox
    BY <2>1, <2>2 DEF MailSpellings
  <2>4. PrefixesLeft(raw) = 0
    BY <2>3 DEF PrefixesLeft
  <2> QED
    BY <2>1, <2>3, <2>4 DEF NormalizeAddress, NormalizeEmail, UsableEmail
<1> QED
  BY <1>2, <1>3

\* If no email address was typed with two URI prefixes, whatever is typed at the
\* destination of a member, and in whatever way, is from that member and nobody else
\* (resolve_sender, resolution.py, and _destination_for, outbox.py).
THEOREM RecognisedHowTypedHolds ==
    ASSUME \A raw \in Claims \union {AddressOf[p] : p \in Persons} : raw.kind = "phone" \/ raw.uri <= 1
    PROVE  Spec => []RecognisedHowTyped
<1>1. SInv /\ RegisteredAsTyped => RecognisedHowTyped
  <2> SUFFICES ASSUME SInv, RegisteredAsTyped, NEW m \in memberships, NEW channel \in Channels,
                      NEW reached \in DestinationsFor(m, channel),
                      NEW raw \in IF reached.kind = "email" THEN MailSpellings(reached.mailbox)
                                                            ELSE Spellings(reached.digits)
               PROVE  ResolveSender(channel, raw, m.org) = {m}
    BY DEF RecognisedHowTyped
  <2>1. PICK row \in identities : /\ row.user = m.user /\ row.channel = channel
                                  /\ row.verified /\ row.norm = reached
    BY DEF DestinationsFor
  <2>2. NormalizeAddress(raw) = row.norm /\ row.norm # NoAddress
    <3>1. raw \in IF row.norm.kind = "email" THEN MailSpellings(row.norm.mailbox)
                                             ELSE Spellings(row.norm.digits)
      BY <2>1
    <3>2. NormalizeAddress(raw) = row.norm
      BY <3>1, TypedAsStored
    <3> QED
      BY <3>2 DEF SInv, TablesSound
  <2>3. ASSUME NEW x
        PROVE  x \in ResolveSender(channel, raw, m.org) <=>
                  /\ x \in memberships /\ x.org = m.org
                  /\ \E other \in identities : /\ other.user = x.user /\ other.channel = channel
                                               /\ other.norm = row.norm /\ other.verified
    BY <2>2 DEF ResolveSender
  <2>4. \A other \in identities :
           other.channel = channel /\ other.norm = row.norm => other = row
    BY <2>1 DEF SInv, TablesSound
  <2>5. ASSUME NEW x \in memberships, x.org = m.org, x.user = m.user
        PROVE  x = m
    BY <2>5 DEF SInv, TypeOK
  <2>6. m \in ResolveSender(channel, raw, m.org)
    BY <2>1, <2>3
  <2>7. ASSUME NEW x \in ResolveSender(channel, raw, m.org)
        PROVE  x = m
    BY <2>1, <2>3, <2>4, <2>5, <2>7
  <2> QED
    BY <2>6, <2>7
<1> QED
  BY <1>1, SInvHolds, RegisteredAsTypedHolds, PTL
=============================================================================
