----------------------------- MODULE MCCampaign -----------------------------
EXTENDS Campaign

\* b and n are of one machine: a developer's checkout, and the campaign's place.
MCPlaces == {"a", "b", "n"}
MCHost == [a |-> "a", b |-> "b", n |-> "b"]
MCBias == [a |-> 0, b |-> 1]

\* The five-point result, and another.
MCReferences == [five |-> 0, other |-> 4]

Passing == [tests |-> [cpu |-> 1, gpu |-> 1, slow |-> 0], selftest |-> TRUE, kernelExact |-> TRUE,
            position |-> 0, micros |-> 100, cv |-> 0, seconds |-> 100]

\* One that moves the results, one that is slower and moves them further, within the
\* tolerance of the second, and a broken one.
MCRevisions ==
  <<Passing, [Passing EXCEPT !.position = 6, !.tests.slow = 1],
    [Passing EXCEPT !.position = 7, !.micros = 130, !.cv = 5, !.seconds = 130],
    [Passing EXCEPT !.tests.gpu = -1, !.seconds = 200]>>

Q(tier, update, reason, data, require) ==
  [tier |-> tier, update |-> update, reason |-> reason, data |-> data, require |-> require, ccpi |-> None]
Full     == Q("full", TRUE, TRUE, TRUE, FALSE)
FullOnly == Q("full", FALSE, FALSE, TRUE, TRUE)
Tests    == Q("gpu", FALSE, FALSE, FALSE, FALSE)
Quick    == Q("quick", TRUE, TRUE, FALSE, FALSE)
Variants == {Full, FullOnly, Quick, Tests,
             Q("full", TRUE, FALSE, TRUE, TRUE), Q("full", TRUE, TRUE, FALSE, FALSE), Q("full", FALSE, FALSE, FALSE, TRUE)}

Setup(roots, lacks, users, requests, maxChecks, maxChanges, kinds) ==
  [root |-> [a |-> roots[1], b |-> roots[2], n |-> "campaign's"], lacks |-> [a |-> lacks, b |-> {}], users |-> users,
   requests |-> requests, checks |-> maxChecks, changes |-> maxChanges, kinds |-> kinds, campaign |-> {}]
Apart == <<"a's", "b's">>

Job(size, devices) == [size |-> size, devices |-> devices, tile |-> 0, steps |-> STEPS, redo |-> {}]
MCSubmissions ==
  {Job(256, 1), Job(256, 8), Job(512, 8), Job(512, 16), [Job(256, 1) EXCEPT !.tile = 96],
   [Job(256, 1) EXCEPT !.steps = <<"data", "weak">>, !.redo = {"data"}]}
WithCampaign(s, subs) == [s EXCEPT !.campaign = subs]

\* Two machines on one root; the life of one; what may happen to it; what may be asked;
\* CCPi's results moved; one without a GPU, one without a compiler; a campaign, and one
\* with an update by hand beside it.
MCSetups ==
  {Setup(<<"shared", "shared">>, {}, {"a", "b"}, {Full}, 3, 1, {"kill"}),
   Setup(Apart, {}, {"a"}, {Full, FullOnly}, 3, 2, {"commit", "cleanup", "kill"}),
   Setup(Apart, {}, {"a"}, {Full, FullOnly}, 2, 2, {"commit", "upgrade", "others"}),
   Setup(Apart, {}, {"a"}, {Full, Tests}, 2, 3, {"commit"}),
   Setup(Apart, {}, {"a"}, Variants, 2, 1, {"error"}),
   Setup(Apart, {}, {"a"}, {FullOnly, [Full EXCEPT !.ccpi = "other"]}, 2, 2, {"commit", "ccpi"}),
   Setup(Apart, {"gpu"}, {"a"}, Variants, 2, 1, {"commit"}),
   Setup(Apart, {"compiler"}, {"a"}, {Full, Tests}, 2, 1, {"commit"}),
   WithCampaign(Setup(Apart, {}, {}, {}, 0, 1, {"error"}), MCSubmissions),
   WithCampaign(Setup(Apart, {}, {"b"}, {Quick}, 2, 1, {"kill"}), {Job(256, 1)})}
=============================================================================
