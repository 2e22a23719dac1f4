---------------------------- MODULE MCDictManager ------------------------------
(* DictManager with the dictionaries of example/brpc/common/dicts.cpp, and    *)
(* with a dictionary class whose init() returns 0 on success.                 *)
EXTENDS DictManager

CONSTANTS offer_bid_ratio, common_dict, no_file, reloadable, ratio_txt, r1

MCReader == {r1}
MCObj == 1..6

\* dicts.cpp:12-13: two dictionaries on one file; and one without a file.
RepoDict == {offer_bid_ratio, common_dict, no_file}
RepoHanders == <<offer_bid_ratio, common_dict, no_file>>
RepoPathOf == [d \in RepoDict |-> IF d = no_file THEN NoPath ELSE ratio_txt]
RepoInitOK == [d \in RepoDict |-> TRUE]

\* One dictionary that check() can reload.
OneDict == {reloadable}
OneHander == <<reloadable>>
OnePathOf == [d \in OneDict |-> ratio_txt]
OneInitOK == [d \in OneDict |-> FALSE]

MCPath == {ratio_txt}
ReadableOrNot == {"ok", "unreadable"}
OneSecond == {1}
TwoSeconds == {2}
================================================================================
