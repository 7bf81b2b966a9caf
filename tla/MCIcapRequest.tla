--------------------------- MODULE MCIcapRequest ---------------------------
(***************************************************************************)
(* Small instances of IcapRequest for TLC: the kinds of requests that take *)
(* different ways through the code.                                        *)
(***************************************************************************)
EXTENDS IcapRequest

Plain == [options |-> FALSE, hasbody |-> TRUE, len |-> 2, preview |-> -1,
          allow204 |-> FALSE, allow206 |-> FALSE, close |-> FALSE, corrupt |-> FALSE]

Options == [Plain EXCEPT !.options = TRUE, !.hasbody = FALSE, !.len = 0]
OptionsBody == [Plain EXCEPT !.options = TRUE, !.len = 1]
NoBody == [Plain EXCEPT !.hasbody = FALSE, !.len = 0, !.allow204 = TRUE]
Allowing == [Plain EXCEPT !.allow204 = TRUE, !.allow206 = TRUE]
Preview == [Allowing EXCEPT !.preview = 1]
WholePreview == [Allowing EXCEPT !.preview = 2, !.allow204 = FALSE, !.close = TRUE]
EmptyPreview == [NoBody EXCEPT !.preview = 0]
Corrupt == [Allowing EXCEPT !.corrupt = TRUE, !.len = 1]
Long == [Plain EXCEPT !.len = 3]

AllRequests == <<Options, OptionsBody, NoBody, Long, Allowing, Preview, WholePreview, EmptyPreview,
                 Corrupt>>
Defaults == [as200 |-> FALSE, fake204 |-> TRUE, pipelining |-> TRUE]
OneOff == {Defaults, [Defaults EXCEPT !.as200 = TRUE], [Defaults EXCEPT !.fake204 = FALSE],
           [Defaults EXCEPT !.pipelining = FALSE]}
AllowRequests == <<Allowing>>
=============================================================================
