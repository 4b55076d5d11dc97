------------------------------ MODULE Identity ------------------------------
(***************************************************************************)
(* Who a message is from, and where a member is reached                    *)
(* (app/domain/identity/resolution.py, the look-up of a destination in     *)
(* app/domain/notifications/outbox.py, and the constraints of              *)
(* messaging_identities and memberships).                                  *)
(***************************************************************************)
EXTENDS Addresses, FiniteSets

CONSTANTS
    Users, Orgs, Channels

VARIABLES
    memberships,  \* committed memberships, as [org, user]
    identities    \* committed messaging_identities

IdentityRow(id, user, channel, raw, verified) ==
    [id |-> id, user |-> user, channel |-> channel, raw |-> raw,
     norm |-> NormalizeAddress(raw), verified |-> verified]

\* The join of resolve_sender.  session.scalar takes its first row, so more than
\* one would be a guess.
ResolveSender(channel, raw, org) ==
    LET canonical == NormalizeAddress(raw)
    IN  {m \in memberships :
            /\ m.org = org
            /\ canonical # NoAddress
            /\ \E row \in identities :
                  /\ row.user = m.user /\ row.channel = channel
                  /\ row.norm = canonical /\ row.verified}

\* _destination_for: LIMIT 1 without an order, so any of these.
DestinationsFor(m, channel) ==
    {row.norm : row \in {r \in identities :
                            r.user = m.user /\ r.channel = channel /\ r.verified}}

\* Slip: the constraint leaves the channel's rows to each user.
AddressFreePerUser(user, channel, norm) ==
    ~ \E row \in identities : row.user = user /\ row.channel = channel /\ row.norm = norm

\* uq_messaging_identities_channel_address_norm.
AddressFree(user, channel, norm) ==
    ~ \E row \in identities : row.channel = channel /\ row.norm = norm

\* Slip: an address that cannot be read is stored as it is.
MayRegisterUnread(user, channel, raw) == AddressFree(user, channel, NormalizeAddress(raw))

\* register_identity inserts IdentityRow, unless the address cannot be read or the
\* table refuses it.
MayRegister(user, channel, raw) ==
    /\ NormalizeAddress(raw) # NoAddress
    /\ AddressFree(user, channel, NormalizeAddress(raw))
-----------------------------------------------------------------------------
\* Every phone number that could be typed, in every way, with up to one digit too many.
DigitStrings == UNION {[1..n -> Digits] : n \in 0..(MaxPhoneDigits + 1)}
TypedPhones == [kind : {"phone"}, uri : 0..2, plus : {"none", "first", "later"},
                letter : BOOLEAN, digits : DigitStrings]

\* The numbers there are, and how people write them: in full after a "+", or,
\* in the home country, without it, with or without the country code.
FullNumbers == UNION {[1..n -> Digits] : n \in MinPhoneDigits..MaxPhoneDigits}
Home(number) == Len(number) = NationalLength + 1 /\ number[1] = CountryCode
Written(plus, ways) ==
    [kind : {"phone"}, uri : 0..1, plus : {plus}, letter : {FALSE}, digits : ways]
Spellings(number) ==
    Written("first", {number})
    \union IF Home(number) THEN Written("none", {number, Tail(number)}) ELSE {}

MailSpellings(mailbox) ==
    [kind : {"email"}, uri : 0..1, caps : BOOLEAN, flaw : {"none"}, mailbox : {mailbox}]

-----------------------------------------------------------------------------
\* What is typed and read as a number.  A "+" that is not in front is left out
\* here; PlusRespected is about it.
TypedFor == [number \in FullNumbers |->
                {raw \in TypedPhones : /\ raw.plus # "later"
                                       /\ NormalizeAddress(raw) = Canonical(number)}]

\* Of everything that could be typed, exactly the spellings of a registered number
\* are read as that number (addresses.py:3), so nobody is taken for somebody else
\* and nothing is guessed (addresses.py:93).
NumberHasOneKey ==
    \A row \in identities :
        row.norm.kind = "phone" => TypedFor[row.norm.digits] = Spellings(row.norm.digits)

\* Wherever Jenie reaches a member, whatever is typed there and in whatever way
\* is from that member and nobody else, the stored address itself among them
\* (test_addresses.py:102: "if a second pass moved the value, stored rows would
\* stop matching live traffic").
RecognisedHowTyped ==
    \A m \in memberships : \A channel \in Channels :
        \A reached \in DestinationsFor(m, channel) :
            \A raw \in IF reached.kind = "email" THEN MailSpellings(reached.mailbox)
                                                ELSE Spellings(reached.digits) :
                ResolveSender(channel, raw, m.org) = {m}

\* A number with a "+" is registered as the digits it has (addresses.py:17: "A
\* number that already carries a "+" is respected as-is").
PlusRespected ==
    \A row \in identities :
        row.raw.kind = "phone" /\ row.raw.plus # "none" => row.norm = Canonical(row.raw.digits)
=============================================================================
