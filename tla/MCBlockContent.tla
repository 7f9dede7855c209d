--------------------------- MODULE MCBlockContent ---------------------------
(* An instance of BlockContent for TLC: for every type a full content and   *)
(* all that differ from it in one field.                                    *)
EXTENDS BlockContent

Texts ==
  [announcement_bar |-> {"text"}, cta |-> {"text"}, video_carousel |-> {"title"},
   cod_assurance |-> {"note"}, offers_price |-> {"title"}, store_trust |-> {},
   purchase_benefits |-> {"note"}, spacer |-> {}, benefits |-> {"title"},
   offer_price |-> {"note"}, price_summary |-> {"note"},
   included_benefits |-> {"title"}, reviews |-> {"title"}, faq |-> {"title"},
   guarantee |-> {"title", "text", "eyebrow"},
   main_problem |-> {"eyebrow", "title", "highlight", "subtitle"},
   solution_presentation |-> {"bridge_text", "title", "text", "final_title"},
   how_it_works |-> {"title", "highlight", "subtitle"},
   audience |-> {"title", "positive_title", "negative_title", "footer"},
   moment |-> {"title", "highlight", "text", "emphasis"}]

TitledItem == [title |-> {"padded"}, text |-> {"text"}, kicker |-> {"blank"}]
Lists ==
  [benefits |-> [items |-> "padded"],
   included_benefits |-> [items |-> [name |-> {"padded"}, tag |-> {"blank"}]],
   reviews |-> [items |-> [name |-> {"text"}, text |-> {"padded"},
                           rating |-> {47}]],
   faq |-> [items |-> [question |-> {"text"}, answer |-> {"padded"}]],
   guarantee |-> [benefits |-> [title |-> {"padded"}]],
   main_problem |-> [items |-> TitledItem],
   solution_presentation |-> [items |-> TitledItem],
   how_it_works |-> [steps |-> TitledItem],
   audience |-> [positive_items |-> "text", negative_items |-> "padded"]]
Numbers == [offer_price |-> {"compare_at_price"},
            price_summary |-> {"compare_at_price"}, guarantee |-> {"days"}]

ListsOf(type) == IF type \in DOMAIN Lists THEN Lists[type] ELSE <<>>
NumbersOf(type) == IF type \in DOMAIN Numbers THEN Numbers[type] ELSE {}
Repeated(item, n) == [i \in 1 .. n |-> item]

(* "style" is no field of any component. *)
Full(type) ==
  [f \in Texts[type] \union {"style"} |-> {"padded"}]
  @@ [f \in DOMAIN ListsOf(type) |-> {Repeated(ListsOf(type)[f], 2)}]
  @@ [f \in NumbersOf(type) |-> {15}]
Deviations(type) ==
  {(f :> v) : f \in Texts[type], v \in {{}, {"blank"}, {"long"}, {"notText"}}}
  \union {(f :> v) : f \in NumbersOf(type), v \in {{}, {0}, {5}, {3655}}}
  \union UNION {{(f :> {Repeated(ListsOf(type)[f], n)}) : n \in {0, 1, 9}}
                  \union {f :> {}} : f \in DOMAIN ListsOf(type)}
  \union {("accent_color" :> {v}) : v \in {"", "blank", "short", "red"}}
  \union {("dark_mode" :> {v}) : v \in {"", "True", "1", "light", "other"}}
  \union {<<>>}
TheContents == UNION {{[type |-> type, config |-> d @@ Full(type)] :
                         d \in Deviations(type)} : type \in DOMAIN Texts}

(* Templates of earlier releases. *)
Entry(type, slot, order, config) ==
  [type |-> type, slot |-> slot, order |-> order, config |-> config,
   enabled |-> TRUE]
Colliding ==
  <<Entry("offers_price", 2, 0, <<>>), Entry("video_carousel", 2, -1, <<>>),
    Entry("cta", 2, 0, [text |-> {"padded"}, accent_color |-> {"short"}])>>
TheOlder ==
  {Colliding,
   <<Entry("spacer", 0, 12, <<>>), Entry("spacer", 0, 9, <<>>)>>,
   <<Entry("renamed", 0, 0, <<>>)>>,
   <<Entry("spacer", 31, 0, <<>>)>>,
   Repeated(Entry("spacer", 1, 0, <<>>), 11),
   [i \in 1 .. 21 |-> Entry("spacer", i, 0, <<>>)]}

Url(host, path) == [host |-> host, query |-> FALSE, path |-> path]
Original == Url("public", <<"originals", "a.jpg">>)
Videos(n) == [v \in 1 .. n |-> [url |-> Original, caption |-> {"padded"}]]
Image(quantity, url) == [quantity |-> quantity, url |-> url]
Media(i, videos, images) ==
  [index |-> i, videos |-> videos, images |-> images]
BothImages == <<Image(2, Original), Image(1, Original)>>
TheAssignments ==
  {<<>>,
   <<Media(1, <<>>, BothImages)>>,
   <<Media(2, Videos(6), <<>>), Media(1, <<>>, BothImages)>>,
   <<Media(1, <<>>, BothImages), Media(1, <<>>, BothImages)>>,
   <<Media(1, <<>>, BothImages), Media(2, Videos(7), <<>>)>>,
   <<Media(1, <<>>, <<Image(1, Original), Image(1, Original)>>)>>,
   <<Media(1, <<>>, <<Image(1, Original),
                       Image(2, Url("public", <<"a.jpg">>))>>)>>,
   <<Media(1, Videos(1), <<>>)>>,
   <<Media(3, <<>>, <<>>)>>}
=============================================================================
