---------------------------- MODULE MCItemPaging ----------------------------
(***************************************************************************)
(* ItemPaging for TLC: two CVEs and a news item on pages of one, written   *)
(* by NVD before and after an analysis, by CISA without a severity, by     *)
(* GitHub with one that is lower, and by a feed without a timestamp of its *)
(* own, so that its row follows the time of the run.  Two writes of the    *)
(* same age tie, and a merge moves a row over the cursor in either         *)
(* direction.                                                              *)
(***************************************************************************)
EXTENDS ItemPaging

CONSTANT none

W(title, summary, source, trust, severity, score, exploited, due, categories,
  published, updated, ingested) ==
    [title |-> title, summary |-> summary, source |-> source, trust |-> trust,
     severity |-> severity, score |-> score, exploited |-> exploited, due |-> due,
     categories |-> categories, published |-> published, updated |-> updated,
     ingested |-> ingested]

Received == W("received", "", "nvd", 3, 0, none, FALSE, none, {"cloud"}, none, 2, 1)
Analysed == W("analysed", "text", "nvd", 3, 4, 7, FALSE, none, {"cloud"}, 2, 3, 3)
Catalogued == W("catalogued", "action", "cisa-kev", 3, 0, none, TRUE, 3, {"exploit"}, 1, none, 2)
Advisory == W("advisory", "advice", "github-advisories", 2, 3, 9, FALSE, none, {"malware"}, 3, 3, 2)
Story == W("story", "lead", "feed", 2, 0, none, FALSE, none, {"phishing"}, none, none, 1)
Revised == W("revised", "", "feed", 2, 0, none, TRUE, none, {"exploit"}, none, none, 3)

FeedWrites == {Story, Revised}
AllWrites == {Received, Analysed, Catalogued, Advisory} \cup FeedWrites
=============================================================================
