--------------------------- MODULE MarketingTests ---------------------------
(***************************************************************************)
(* The unit tests of the marketing data (contract.rs) as scripts of        *)
(* Replays: a token with a record, one message to it, and what the queries *)
(* answer then.                                                            *)
(***************************************************************************)
EXTENDS Replays

Url(url) == [kind |-> "url", url |-> url]
Svg(header, size) == [kind |-> "svg", header |-> header, size |-> size]
Png(header, size) == [kind |-> "png", header |-> header, size |-> size]

Record(project, description, marketing, l) ==
    [project |-> project, description |-> description, marketing |-> marketing, logo |-> l]

\* The token of the tests; only the editor differs.
RecordOf(editor) == Record("Project", "Description", editor, Url("url"))
MarketedBy(editor) ==
    [Instantiated([x \in Addr |-> 0], None, None, None) EXCEPT !.marketing = RecordOf(editor)]

\* A message changes the record, and the logo cannot be downloaded.
Changed(msg, record) ==
    Script(MarketedBy("creator"), <<>>, <<Ok(msg, <<Marketed(record), Downloaded(None)>>)>>)

\* A message is refused, and the record is what it was.
Unchanged(editor, msg) ==
    Script(MarketedBy(editor), <<>>,
           <<Err(msg, <<Marketed(RecordOf(editor)), Downloaded(None)>>)>>)

\* A picture replaces the URL.
Embedded(l) ==
    Script(MarketedBy("creator"), <<>>,
           <<Ok(UploadLogoOf("creator", l),
                <<Marketed([RecordOf("creator") EXCEPT !.logo = [kind |-> "embedded"]]),
                  Downloaded(l)>>)>>)

-----------------------------------------------------------------------------
instantiate_marketing ==
    Script(MarketedBy("marketing"), <<Marketed(RecordOf("marketing")), Downloaded(None)>>, <<>>)

invalid_marketing ==
    Script(Plain("creator", 0),
           <<Rule(Market!InstantiateOk(RecordOf(NoAddr)), FALSE), Downloaded(None)>>, <<>>)

update_unauthorised ==
    Unchanged("marketing",
              UpdateMarketingOf("creator", "New project", "Better description", "creator"))

update_project ==
    Changed(UpdateMarketingOf("creator", "New project", None, None),
            Record("New project", "Description", "creator", Url("url")))

clear_project ==
    Changed(UpdateMarketingOf("creator", "", None, None),
            Record(None, "Description", "creator", Url("url")))

update_description ==
    Changed(UpdateMarketingOf("creator", None, "Better description", None),
            Record("Project", "Better description", "creator", Url("url")))

clear_description ==
    Changed(UpdateMarketingOf("creator", None, "", None),
            Record("Project", None, "creator", Url("url")))

update_marketing ==
    Changed(UpdateMarketingOf("creator", None, None, "marketing"), RecordOf("marketing"))

update_marketing_invalid ==
    Unchanged("creator", UpdateMarketingOf("creator", None, None, NoAddr))

clear_marketing == Changed(UpdateMarketingOf("creator", None, None, ""), RecordOf(None))

update_logo_url ==
    Changed(UploadLogoOf("creator", Url("new_url")),
            Record("Project", "Description", "creator", Url("new_url")))

update_logo_png == Embedded(Png(TRUE, 8))
update_logo_svg == Embedded(Svg(TRUE, 33))

update_logo_png_oversized == Unchanged("creator", UploadLogoOf("creator", Png(TRUE, 6008)))
update_logo_svg_oversized == Unchanged("creator", UploadLogoOf("creator", Svg(TRUE, 6032)))
update_logo_png_invalid == Unchanged("creator", UploadLogoOf("creator", Png(FALSE, 1)))
update_logo_svg_invalid == Unchanged("creator", UploadLogoOf("creator", Svg(FALSE, 1)))
=============================================================================
