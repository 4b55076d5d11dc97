SPECIFICATION Spec
CONSTANTS
    khalid = khalid
    izra = izra
    marwa = marwa
    outsider = outsider
    Digits = {1, 2}
    CountryCode = 1
    NationalLength = 2
    MinPhoneDigits = 1
    MaxPhoneDigits = 4
    Mailboxes = {"marwa"}
    Users = {khalid, izra, marwa, outsider}
    Orgs = {"colorstack", "other"}
    Channels = {"IMESSAGE", "SMS"}
    People <- MCPeople
    AddressOf <- MCAddressOf
    ManagerOf <- MCManagerOf
    Nobody = Nobody
    Org = "colorstack"
    Channel = "IMESSAGE"
    Others <- MCOthers
    Runs = {r1, r2}
    Claimants = {outsider, marwa}
    Claims <- MCClaims
    MaxClaims = 1
INVARIANTS
    PlusRespected
