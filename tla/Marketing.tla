----------------------------- MODULE Marketing -----------------------------
(***************************************************************************)
(* The marketing data of the token (contract.rs): a record that everybody  *)
(* reads and one account may edit, and the logo, an item of its own.  The  *)
(* record is removed once nothing is left in it.  No other part of the     *)
(* token reads or writes the two items, so they are a machine of their own;*)
(* each message is one step, one that fails changes nothing.               *)
(*                                                                         *)
(* A definition under the comment "Wrong:" is a bug the code does not have.*)
(***************************************************************************)
EXTENDS Integers, Addresses

CONSTANTS
    Blank,          \* a text of white space only, "" included
    Texts,          \* other texts: projects, descriptions, URLs
    LOGO_SIZE_CAP,  \* 5 KB in the code
    Logos,          \* the logos considered
    Instantiations  \* the marketing part of the instantiate messages considered

VARIABLES
    marketing_info, \* MARKETING_INFO
    logo            \* LOGO

marketing_vars == <<marketing_info, logo>>

-----------------------------------------------------------------------------
\* A picture: whether it starts as a file of its kind does, and its size.
Picture == [kind : {"svg", "png"}, header : BOOLEAN, size : Nat]
Logo == Picture \cup [kind : {"url"}, url : Texts]

\* What the record says of the logo: the URL, or that there is a picture.
LogoInfo == [kind : {"url"}, url : Texts] \cup [kind : {"embedded"}]

Field == Texts \cup {Blank, None}
MarketingInfo == [project : Field, description : Field, marketing : Addr \cup {None},
                  logo : LogoInfo \cup {None}]

InstantiateMarketingInfo ==
    [project : Field, description : Field, marketing : AnyAddr \cup {Blank, None},
     logo : Logo \cup {None}]

ASSUME MarketingAssumption ==
    /\ None \notin AnyAddr \cup Texts \cup {Blank}
    /\ None \notin Logo \cup LogoInfo \cup MarketingInfo
    /\ Blank \notin Addr \cup Texts
    /\ NoAddr \notin Addr
    /\ LOGO_SIZE_CAP \in Nat
    /\ Logos \subseteq Logo
    /\ Instantiations \subseteq InstantiateMarketingInfo \cup {None}

-----------------------------------------------------------------------------
\* Wrong: the size is not looked at.
VerifyLogoAnySize(l) == l.kind # "url" => l.header

\* verify_logo: the XML preamble of an SVG, the header of a PNG, the size of both.
VerifyLogo(l) == l.kind # "url" => l.header /\ l.size <= LOGO_SIZE_CAP

LogoInfoOf(l) == IF l.kind = "url" THEN l ELSE [kind |-> "embedded"]

InstantiateOk(i) ==
    /\ i.logo # None => VerifyLogo(i.logo)
    /\ i.marketing # None => i.marketing \in Addr

\* The two items after an instantiate message with the marketing part i.
InitWith(i) ==
    IF i = None
    THEN marketing_info = None /\ logo = None
    ELSE /\ InstantiateOk(i)
         /\ logo = i.logo
         /\ marketing_info = [i EXCEPT !.logo = IF i.logo = None THEN None ELSE LogoInfoOf(i.logo)]

Init == \E i \in Instantiations : InitWith(i)

-----------------------------------------------------------------------------
\* Wrong: a record without an editor is everybody's.
AuthorizedOrNobody(sender) ==
    marketing_info # None /\ marketing_info.marketing \in {sender, None}

\* Only the account in the record, while there is a record, may edit.
Authorized(sender) == marketing_info # None /\ marketing_info.marketing = sender

\* A field after an update: nothing given keeps it, a blank text clears it.
Updated(field, text) ==
    IF text = None THEN field ELSE IF text = Blank THEN None ELSE text

\* Wrong: the logo does not count.
IsEmptyButLogo(info) ==
    info.project = None /\ info.description = None /\ info.marketing = None

IsEmpty(info) ==
    /\ info.project = None /\ info.description = None /\ info.marketing = None
    /\ info.logo = None

UpdateMarketingOk(sender, marketing) ==
    Authorized(sender) /\ marketing \in Addr \cup {Blank, None}

UpdateMarketing(sender, project, description, marketing) ==
    /\ UpdateMarketingOk(sender, marketing)
    /\ LET info == [marketing_info EXCEPT !.project = Updated(@, project),
                                          !.description = Updated(@, description),
                                          !.marketing = Updated(@, marketing)]
       IN  marketing_info' = IF IsEmpty(info) THEN None ELSE info
    /\ UNCHANGED logo

UploadLogoOk(sender, l) == Authorized(sender) /\ VerifyLogo(l)

UploadLogo(sender, l) ==
    /\ UploadLogoOk(sender, l)
    /\ logo' = l
    /\ marketing_info' = [marketing_info EXCEPT !.logo = LogoInfoOf(l)]

Next ==
    \E sender \in Addr :
        \/ \E project, description \in Field, marketing \in AnyAddr \cup {Blank, None} :
              UpdateMarketing(sender, project, description, marketing)
        \/ \E l \in Logos : UploadLogo(sender, l)

Spec == Init /\ [][Next]_marketing_vars

-----------------------------------------------------------------------------
\* Queries.

EmptyInfo == [project |-> None, description |-> None, marketing |-> None, logo |-> None]
QueryMarketingInfo == IF marketing_info = None THEN EmptyInfo ELSE marketing_info

\* Without an item, and for a URL, the query fails.
QueryDownloadLogo == IF logo = None \/ logo.kind = "url" THEN None ELSE logo

-----------------------------------------------------------------------------
\* Properties.

\* The items keep their types, and no logo is stored that verify_logo refuses,
\* neither by instantiate nor by upload_logo.
TypeOK ==
    /\ marketing_info \in MarketingInfo \cup {None}
    /\ logo \in [kind : {"svg", "png"}, header : {TRUE}, size : 0 .. LOGO_SIZE_CAP]
               \cup [kind : {"url"}, url : Texts] \cup {None}

\* The two items tell the same story: a client that reads "embedded" in the
\* record can download a picture, one that reads a URL or nothing cannot.
LogoInSync ==
    QueryMarketingInfo.logo = IF logo = None THEN None ELSE LogoInfoOf(logo)

\* Who gives up the role leaves everything as it is for good, the record that is
\* removed with the role included: no message of anybody restores it.
GoneForGood ==
    [][marketing_info = None \/ marketing_info.marketing = None
       => UNCHANGED marketing_vars]_marketing_vars
=============================================================================
