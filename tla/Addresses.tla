----------------------------- MODULE Addresses -----------------------------
(***************************************************************************)
(* Canonical messaging addresses (app/domain/identity/addresses.py).       *)
(*                                                                         *)
(* A raw address is what normalize_address can tell of a typed string: how *)
(* many URI prefixes stand before it and then, of an email address, its    *)
(* mailbox and how it is written, or, of a phone number, its digits, where *)
(* its "+" stands and whether a letter is among them.  The lengths of      *)
(* numbers are constants, so that an instance may scale them down: all the *)
(* code asks of them is their order.                                       *)
(***************************************************************************)
EXTENDS Naturals, Sequences

CONSTANTS
    Digits,           \* digits of phone numbers
    CountryCode,      \* DEFAULT_COUNTRY_CODE, "1" in the code
    NationalLength,   \* digits of a bare national number, 10 in the code
    MinPhoneDigits,   \* 7 in the code
    MaxPhoneDigits,   \* 15 in the code
    Mailboxes         \* email addresses, apart from how they are written

ASSUME AddressesAssumption ==
    /\ CountryCode \in Digits
    /\ NationalLength \in Nat /\ MinPhoneDigits \in Nat /\ MaxPhoneDigits \in Nat
    /\ 0 < MinPhoneDigits /\ MinPhoneDigits <= NationalLength
    /\ NationalLength < MaxPhoneDigits

Phone(uri, plus, letter, digits) ==
    [kind |-> "phone", uri |-> uri, plus |-> plus, letter |-> letter, digits |-> digits]

Email(uri, caps, flaw, mailbox) ==
    [kind |-> "email", uri |-> uri, caps |-> caps, flaw |-> flaw, mailbox |-> mailbox]

\* What can be wrong with an email address.
Flaws == {"none", "no local part", "no domain", "second at", "undotted domain", "inner space"}

RawAddresses ==
    [kind : {"phone"}, uri : Nat, plus : {"none", "first", "later"}, letter : BOOLEAN,
     digits : Seq(Digits)]
    \union [kind : {"email"}, uri : Nat, caps : BOOLEAN, flaw : Flaws, mailbox : Mailboxes]

NoAddress == [kind |-> "none"]  \* InvalidAddress is raised

Canonical(digits) == Phone(0, "first", FALSE, digits)

\* What _strip_uri_prefix leaves: one prefix is removed.
PrefixesLeft(raw) == IF raw.uri = 0 THEN 0 ELSE raw.uri - 1

\* A prefix that is left passes for a local part.
UsableEmail(raw) ==
    raw.flaw = "none" \/ (raw.flaw = "no local part" /\ PrefixesLeft(raw) > 0)

\* Slip: the address is looked up as it is written.
NormalizeEmailAsWritten(raw) ==
    IF UsableEmail(raw) THEN Email(PrefixesLeft(raw), raw.caps, raw.flaw, raw.mailbox)
                        ELSE NoAddress

NormalizeEmail(raw) ==
    IF UsableEmail(raw) THEN Email(PrefixesLeft(raw), FALSE, raw.flaw, raw.mailbox)
                        ELSE NoAddress

\* Slip: any number one digit longer than a national one is taken for one with
\* its country code.
ReadableLoose(raw) ==
    \/ raw.plus = "first" /\ Len(raw.digits) \in MinPhoneDigits..MaxPhoneDigits
    \/ raw.plus # "first" /\ Len(raw.digits) \in {NationalLength, NationalLength + 1}

\* Fully qualified, bare national, or national after the country code.
Readable(raw) ==
    \/ raw.plus = "first" /\ Len(raw.digits) \in MinPhoneDigits..MaxPhoneDigits
    \/ raw.plus # "first" /\ Len(raw.digits) = NationalLength
    \/ /\ raw.plus # "first"
       /\ Len(raw.digits) = NationalLength + 1
       /\ Head(raw.digits) = CountryCode

\* A second prefix leaves letters in the number.  Its "+" counts only in front.
NormalizePhone(raw) ==
    IF raw.letter \/ PrefixesLeft(raw) > 0 \/ ~ Readable(raw) THEN NoAddress
    ELSE IF raw.plus # "first" /\ Len(raw.digits) = NationalLength
         THEN Canonical(<<CountryCode>> \o raw.digits)
         ELSE Canonical(raw.digits)

NormalizeAddress(raw) ==
    IF raw.kind = "email" THEN NormalizeEmail(raw) ELSE NormalizePhone(raw)
=============================================================================
