------------------------- MODULE ProviderManifests -------------------------
(***************************************************************************)
(* Manifests for TLC.  Three that are seeded: a free and a paid provider   *)
(* of images; one's own machine in place of the paid one; and all of them, *)
(* with the fallbacks of the first renumbered; beside one that is not      *)
(* valid.  And documents of every shape of fallback and dependency lists.  *)
(***************************************************************************)
EXTENDS Manifests

OnFree(fallback) == Adapter(1, "image", FALSE, TRUE, 0, fallback)
OnPaid(fallback) == Adapter(2, "image", FALSE, TRUE, 2, fallback)
OnOwn(fallback) == Adapter(3, "image", TRUE, TRUE, None, fallback)
Free(adapters) == Provider("free", "free", 50, adapters)
Paid(adapters) == Provider("paid", "paid", 90, adapters)
Own(adapters) == Provider("own", "freemium", 60, adapters)

ImageEntry == CapabilityEntry("image", <<>>, <<>>)
Routed(default, byCapability) == [default |-> default, byCapability |-> byCapability]
Plain == Routed("balanced", <<>>)

Document(capabilities, providers, routing) ==
  [capabilities |-> capabilities, providers |-> providers, families |-> <<>>,
   routing |-> routing, devices |-> <<>>]

Manifests4 ==
  [both |-> Document(<<ImageEntry>>, <<Free(<<OnFree(<<>>)>>), Paid(<<OnPaid(<<1>>)>>)>>,
                     Routed("balanced", [c \in {"image"} |-> "highest_quality"])),
   owned |-> Document(<<ImageEntry>>, <<Free(<<OnFree(<<>>)>>), Own(<<OnOwn(<<1>>)>>)>>, Plain),
   all |-> Document(<<ImageEntry>>, <<Free(<<OnFree(<<>>)>>), Paid(<<OnPaid(<<3, 1>>)>>),
                                 Own(<<OnOwn(<<1>>)>>)>>,
                    Routed("balanced", [c \in {"image"} |-> "free_only"])),
   circular |-> Document(<<ImageEntry>>, <<Free(<<OnFree(<<2>>)>>), Paid(<<OnPaid(<<1>>)>>)>>, Plain)]

\* The build that seeds constructs the first adapter.
Asked4 ==
  LET asked(m) == AskedBy(m, {1})
  IN [both |-> asked(Manifests4.both), owned |-> asked(Manifests4.owned),
      all |-> asked(Manifests4.all), circular |-> asked(Manifests4.circular)]

Seeded == Asked4        \* built once, however often it is asked for

\* Lists of at most two.
Lists(S) == {<<>>} \cup {<<x>> : x \in S} \cup {<<x, y>> : x \in S, y \in S}

\* Fallbacks among three adapters, the third of another capability perhaps, and the first
\* two of one provider perhaps.
FallbackDocuments ==
  {Document(<<ImageEntry, CapabilityEntry("voice", <<>>, <<>>)>>,
            IF together THEN <<Free(<<OnFree(f), OnPaid(g)>>), Own(<<third>>)>>
            ELSE <<Free(<<OnFree(f)>>), Paid(<<OnPaid(g)>>), Own(<<third>>)>>, Plain) :
     f \in Lists(1..3), g \in Lists(1..3), together \in BOOLEAN,
     third \in {[OnOwn(h) EXCEPT !.capability = c] : h \in Lists(1..3), c \in {"image", "voice"}}}

\* Requirements among three capabilities, one of them optional perhaps.
DependencyDocuments ==
  LET names == {"image", "voice", "video"}
  IN {Document(<<CapabilityEntry("image", f, o), CapabilityEntry("voice", g, <<>>),
                 CapabilityEntry("video", h, <<>>)>>, <<Free(<<OnFree(<<>>)>>)>>, Plain) :
        f \in Lists(names), g \in Lists(names), h \in Lists(names), o \in {<<>>, <<"voice">>}}

\* What is preferred, and who serves it.
RoutingDocuments ==
  {Document(<<ImageEntry>>, providers, Routed(default, byCapability)) :
     providers \in {<<Free(<<OnFree(<<>>)>>)>>, <<Paid(<<OnFree(<<>>)>>)>>,
                    <<Paid(<<OnFree(<<2>>)>>), Free(<<OnPaid(<<>>)>>)>>},
     default \in {"balanced", "free_first"},
     byCapability \in {<<>>} \cup [{"image"} -> {None, "fastest", "free_only"}]
                       \cup [{"voice"} -> {None}]}

Documents == FallbackDocuments \cup DependencyDocuments \cup RoutingDocuments

\* Nothing measured, or the free provider down, the paid one slow, and one of the quotas of
\* the own one used up.
Unmeasured == [health |-> <<>>, quotas |-> {}, latency |-> <<>>]
Quota(provider, left) == [provider |-> provider, left |-> left]
Troubled == [health |-> [p \in {"free"} |-> 0],
             quotas |-> {Quota("own", None), Quota("own", 0), Quota("paid", 7)},
             latency |-> [i \in {2} |-> 9]]
Measurements == {Unmeasured, Troubled}
=============================================================================
