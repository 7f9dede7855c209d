---------------------- MODULE BlockContent_proofs ----------------------
(****************************************************************************)
(* No edit, save, load or copy loses or alters what a conversion component  *)
(* holds: ContentSurvives for every set of requests and older templates.    *)
(*                                                                          *)
(* The argument has three parts.                                            *)
(*  - A validator is applied again and again to what it once gave (a saved  *)
(*    component, an entry of a template, a component read for a visitor):   *)
(*    so its results are fixed points of it.  That is shown field by field, *)
(*    list by list, then for each of the twenty types (JsonIsSound).        *)
(*  - Reading a template adds its entries one by one, each at a free place: *)
(*    places stay apart (ParsedApart).  What a snapshot lists is read back  *)
(*    entry by entry as the components that were listed (SnapshotGivesBack).*)
(*    Both go by the first entry at which they would fail (LeastNumber).    *)
(*  - So the invariant IInv holds: the landing's components are sound, at   *)
(*    places of their own, and fit; every template can be read.             *)
(****************************************************************************)
EXTENDS BlockContent, FiniteSetTheorems, TLAPS

(* Reading what was stored gives what was stored.                           *)
LEMMA RequireStringSettles ==
  ASSUME NEW raw, NEW v \in RequireString(raw)
  PROVE  RequireString(v) = {v}
<1>1. PICK t \in Required(raw \ {"notText"}) : v = {t}
  BY DEF RequireString
<1>2. PICK u \in raw : u \notin {"notText", "blank", "long"} /\ t = Strip(u)
  BY <1>1 DEF Required
<1>3. t \notin {"notText", "blank", "long"} /\ Strip(t) = t
  BY <1>2 DEF Strip
<1>4. Required({t} \ {"notText"}) = {t}
  BY <1>3 DEF Required
<1> QED
  BY <1>1, <1>4 DEF RequireString

(* A mandatory text that was accepted is accepted as it is.                 *)
LEMMA RequireTextSettles ==
  ASSUME NEW object, NEW content, NEW field \in DOMAIN content,
         content[field] \in RequireText(object, field)
  PROVE  RequireText(content, field) = {content[field]}
BY RequireStringSettles DEF RequireText, Get

(* An optional text that was accepted is accepted as it is.                 *)
LEMMA OptionalTextSettles ==
  ASSUME NEW object, Object(object), NEW content, NEW field \in DOMAIN content,
         content[field] \in OptionalText(object, field)
  PROVE  OptionalText(content, field) = {content[field]}
<1> DEFINE raw == Get(object, field)
           v == content[field]
<1>1. \A x, y \in raw : x = y
  BY DEF Object, Get, Absent
<1>2. Get(content, field) = v
  BY DEF Get
<1>3. raw # {"notText"} /\ v \in Optional(raw)
  BY DEF OptionalText
<1>4. CASE raw \subseteq {"blank"}
  <2>1. v = {}
    BY <1>3, <1>4 DEF Optional, Absent
  <2> QED
    BY <1>2, <2>1 DEF OptionalText, Optional, Absent
<1>5. CASE ~(raw \subseteq {"blank"})
  <2>1. PICK t \in Required(raw) : v = {t}
    BY <1>3, <1>5 DEF Optional
  <2>2. PICK u \in raw : u \notin {"blank", "long"} /\ t = Strip(u)
    BY <2>1 DEF Required
  <2>3. u # "notText"
    BY <1>1, <1>3, <2>2
  <2>4. t \notin {"notText", "blank", "long"} /\ Strip(t) = t
    BY <2>2, <2>3 DEF Strip
  <2>5. Required({t}) = {t}
    BY <2>4 DEF Required
  <2>6. v # {"notText"} /\ ~(v \subseteq {"blank"})
    BY <2>1, <2>4
  <2>7. Optional(v) = {v}
    BY <2>1, <2>5, <2>6 DEF Optional
  <2> QED
    BY <1>2, <2>6, <2>7 DEF OptionalText
<1> QED
  BY <1>4, <1>5

(* The two fields every component has.                                      *)
LEMMA AccentSettles ==
  ASSUME NEW object, Object(object), NEW content, "accent_color" \in DOMAIN content,
         content["accent_color"] \in OptionalAccentColor(object)
  PROVE  /\ OptionalAccentColor(content) = {content["accent_color"]}
         /\ Get(content, "accent_color") \subseteq {""}
              <=> Get(object, "accent_color") \subseteq {""}
<1> DEFINE raw == Get(object, "accent_color")
           v == content["accent_color"]
<1>1. \A x, y \in raw : x = y
  BY DEF Object, Get, Absent
<1>2. Get(content, "accent_color") = v
  BY DEF Get
<1>3. CASE raw \subseteq {""}
  <2>1. v = {}
    BY <1>3 DEF OptionalAccentColor, Absent
  <2> QED
    BY <1>2, <1>3, <2>1 DEF OptionalAccentColor, Absent
<1>4. CASE ~(raw \subseteq {""})
  <2>1. PICK c \in UNION {NormalizeAccentColor(r) : r \in raw} : v = {c}
    BY <1>4 DEF OptionalAccentColor
  <2>2. PICK r \in raw : c \in NormalizeAccentColor(r)
    BY <2>1
  <2>3. r # ""
    BY <1>1, <1>4, <2>2
  <2>4. c \notin {"", "blank", "notHex", "short"}
    BY <2>2, <2>3 DEF NormalizeAccentColor
  <2>5. NormalizeAccentColor(c) = {c}
    BY <2>4 DEF NormalizeAccentColor
  <2>6. ~(v \subseteq {""})
    BY <2>1, <2>4
  <2>7. {{x} : x \in UNION {NormalizeAccentColor(y) : y \in v}} = {v}
    BY <2>1, <2>5
  <2>8. OptionalAccentColor(content) = {v}
    BY <1>2, <2>6, <2>7 DEF OptionalAccentColor
  <2> QED
    BY <1>2, <1>4, <2>6, <2>8
<1> QED
  BY <1>3, <1>4

(* The dark mode that was accepted is accepted as it is, and is left to the *)
(* landing if it was.                                                       *)
LEMMA DarkModeSettles ==
  ASSUME NEW object, NEW content, "dark_mode" \in DOMAIN content,
         content["dark_mode"] \in OptionalDarkMode(object)
  PROVE  /\ OptionalDarkMode(content) = {content["dark_mode"]}
         /\ Get(content, "dark_mode") \subseteq {""}
              <=> Get(object, "dark_mode") \subseteq {""}
<1> DEFINE raw == Get(object, "dark_mode")
           v == content["dark_mode"]
<1>1. Get(content, "dark_mode") = v
  BY DEF Get
<1>2. v \in DarkMode(raw, {})
  BY DEF OptionalDarkMode, Absent
<1>3. CASE raw \subseteq {""}
  <2>1. v = {}
    BY <1>2, <1>3 DEF DarkMode
  <2> QED
    BY <1>1, <1>3, <2>1 DEF OptionalDarkMode, DarkMode, Absent
<1>4. CASE ~(raw \subseteq {""})
  <2>1. v = {"True"} \/ v = {"False"}
    BY <1>2, <1>4 DEF DarkMode
  <2>2. ~(v \subseteq {""})
    BY <2>1
  <2>3. DarkMode(v, {}) = {v}
    BY <2>1 DEF DarkMode
  <2> QED
    BY <1>1, <1>4, <2>2, <2>3 DEF OptionalDarkMode, Absent
<1> QED
  BY <1>3, <1>4

(* Numbers.                                                                 *)
LEMMA WholeSettles ==
  ASSUME NEW raw \in SUBSET Int, NEW maximum \in Nat, NEW v \in Whole(raw, maximum)
  PROVE  Whole(v, maximum) = {v}
<1>1. CASE raw = {}
  BY <1>1 DEF Whole, Number, Absent
<1>2. CASE raw # {}
  <2>1. PICK n \in {10 * (m \div 10) : m \in raw} \cap 10 .. 10 * maximum : v = {n}
    BY <1>2 DEF Whole, Number, Absent
  <2>2. PICK m \in raw : n = 10 * (m \div 10)
    BY <2>1
  <2>3. m \div 10 \in Int
    BY <2>2
  <2>4. n \div 10 = m \div 10
    BY <2>2, <2>3
  <2>5. {10 * (x \div 10) : x \in v} \cap 10 .. 10 * maximum = {n}
    BY <2>1, <2>2, <2>4
  <2> QED
    BY <2>1, <2>5 DEF Whole, Number, Absent
<1> QED
  BY <1>1, <1>2

(* A price that was accepted is accepted as it is.                          *)
LEMMA PriceSettles ==
  ASSUME NEW raw, NEW v \in Number(raw, {n \in raw : n > 0})
  PROVE  Number(v, {n \in v : n > 0}) = {v}
<1>1. CASE raw = {}
  BY <1>1 DEF Number, Absent
<1>2. CASE raw # {}
  <2>1. PICK n \in raw : n > 0 /\ v = {n}
    BY <1>2 DEF Number, Absent
  <2>2. {x \in v : x > 0} = {n}
    BY <2>1
  <2> QED
    BY <2>1, <2>2 DEF Number, Absent
<1> QED
  BY <1>1, <1>2

----------------------------------------------------------------------------
(* Contents are accepted field by field.                                    *)

(* An accepted mapping has a value of each field.                           *)
LEMMA AcceptedFacts ==
  ASSUME NEW fields, NEW content \in Accepted(fields)
  PROVE  /\ content = [f \in DOMAIN fields |-> content[f]]
         /\ DOMAIN content = DOMAIN fields
         /\ \A f \in DOMAIN fields : content[f] \in fields[f]
<1>1. /\ \A f \in DOMAIN fields : fields[f] # {}
      /\ content = [f \in DOMAIN fields |-> CHOOSE v \in fields[f] : TRUE]
  BY DEF Accepted, If
<1> QED
  BY <1>1

(* Fields with one value each make one mapping.                             *)
LEMMA AcceptedAlone ==
  ASSUME NEW fields, NEW content,
         content = [f \in DOMAIN fields |-> content[f]],
         \A f \in DOMAIN fields : fields[f] = {content[f]}
  PROVE  Accepted(fields) = {content}
<1>1. \A f \in DOMAIN fields : fields[f] # {}
  OBVIOUS
<1>2. [f \in DOMAIN fields |-> CHOOSE v \in fields[f] : TRUE]
        = [f \in DOMAIN fields |-> content[f]]
  OBVIOUS
<1> QED
  BY <1>1, <1>2 DEF Accepted, If

(* The items of lists.                                                      *)
LEMMA StringItemSettles ==
  ASSUME NEW raw, NEW item \in StringItem(raw)
  PROVE  StringItem(item) = {item}
<1>1. item = Strip(raw) /\ raw \notin {"notText", "blank", "long"}
  BY DEF StringItem, Required
<1>2. item \notin {"notText", "blank", "long"} /\ Strip(item) = item
  BY <1>1 DEF Strip
<1> QED
  BY <1>2 DEF StringItem, Required

(* A card with a title and a text.                                          *)
LEMMA CardSettles ==
  ASSUME NEW raw, Object(raw), NEW item \in Card(raw)
  PROVE  Card(item) = {item}
<1> DEFINE Fields(o) == [title |-> RequireText(o, "title"),
                         text |-> RequireText(o, "text")]
<1>1. /\ item = [f \in DOMAIN Fields(raw) |-> item[f]]
      /\ DOMAIN item = DOMAIN Fields(raw)
      /\ \A f \in DOMAIN Fields(raw) : item[f] \in Fields(raw)[f]
  BY AcceptedFacts DEF Card
<1>2. \A f \in DOMAIN Fields(item) : Fields(item)[f] = {item[f]}
  BY <1>1, RequireTextSettles
<1>3. DOMAIN Fields(item) = DOMAIN Fields(raw)
  OBVIOUS
<1> HIDE DEF Fields
<1>4. Accepted(Fields(item)) = {item}
  BY <1>1, <1>2, <1>3, AcceptedAlone
<1> QED
  BY <1>4 DEF Card, Fields

(* A card with a line above its title.                                      *)
LEMMA KickerCardSettles ==
  ASSUME NEW raw, Object(raw), NEW item \in KickerCard(raw)
  PROVE  KickerCard(item) = {item}
<1> DEFINE Fields(o) == [title |-> RequireText(o, "title"),
                         text |-> RequireText(o, "text"),
                         kicker |-> OptionalText(o, "kicker")]
<1>1. /\ item = [f \in DOMAIN Fields(raw) |-> item[f]]
      /\ DOMAIN item = DOMAIN Fields(raw)
      /\ \A f \in DOMAIN Fields(raw) : item[f] \in Fields(raw)[f]
  BY AcceptedFacts DEF KickerCard
<1>2. \A f \in DOMAIN Fields(item) : Fields(item)[f] = {item[f]}
  BY <1>1, RequireTextSettles, OptionalTextSettles
<1>3. DOMAIN Fields(item) = DOMAIN Fields(raw)
  OBVIOUS
<1> HIDE DEF Fields
<1>4. Accepted(Fields(item)) = {item}
  BY <1>1, <1>2, <1>3, AcceptedAlone
<1> QED
  BY <1>4 DEF KickerCard, Fields

(* A card whose text is optional.                                           *)
LEMMA TitleCardSettles ==
  ASSUME NEW raw, Object(raw), NEW item \in TitleCard(raw)
  PROVE  TitleCard(item) = {item}
<1> DEFINE Fields(o) == [title |-> RequireText(o, "title"),
                         text |-> OptionalText(o, "text")]
<1>1. /\ item = [f \in DOMAIN Fields(raw) |-> item[f]]
      /\ DOMAIN item = DOMAIN Fields(raw)
      /\ \A f \in DOMAIN Fields(raw) : item[f] \in Fields(raw)[f]
  BY AcceptedFacts DEF TitleCard
<1>2. \A f \in DOMAIN Fields(item) : Fields(item)[f] = {item[f]}
  BY <1>1, RequireTextSettles, OptionalTextSettles
<1>3. DOMAIN Fields(item) = DOMAIN Fields(raw)
  OBVIOUS
<1> HIDE DEF Fields
<1>4. Accepted(Fields(item)) = {item}
  BY <1>1, <1>2, <1>3, AcceptedAlone
<1> QED
  BY <1>4 DEF TitleCard, Fields

(* A benefit with its icon.                                                 *)
LEMMA BenefitItemSettles ==
  ASSUME NEW raw, Object(raw), NEW item \in BenefitItem(raw)
  PROVE  BenefitItem(item) = {item}
<1> DEFINE Fields(o) == [name |-> RequireText(o, "name"),
                         value |-> OptionalText(o, "value"),
                         tag |-> OptionalText(o, "tag")]
<1>1. /\ item = [f \in DOMAIN Fields(raw) |-> item[f]]
      /\ DOMAIN item = DOMAIN Fields(raw)
      /\ \A f \in DOMAIN Fields(raw) : item[f] \in Fields(raw)[f]
  BY AcceptedFacts DEF BenefitItem
<1>2. \A f \in DOMAIN Fields(item) : Fields(item)[f] = {item[f]}
  BY <1>1, RequireTextSettles, OptionalTextSettles
<1>3. DOMAIN Fields(item) = DOMAIN Fields(raw)
  OBVIOUS
<1> HIDE DEF Fields
<1>4. Accepted(Fields(item)) = {item}
  BY <1>1, <1>2, <1>3, AcceptedAlone
<1> QED
  BY <1>4 DEF BenefitItem, Fields

(* A question and its answer.                                               *)
LEMMA QuestionSettles ==
  ASSUME NEW raw, Object(raw), NEW item \in Question(raw)
  PROVE  Question(item) = {item}
<1> DEFINE Fields(o) == [question |-> RequireText(o, "question"),
                         answer |-> RequireText(o, "answer")]
<1>1. /\ item = [f \in DOMAIN Fields(raw) |-> item[f]]
      /\ DOMAIN item = DOMAIN Fields(raw)
      /\ \A f \in DOMAIN Fields(raw) : item[f] \in Fields(raw)[f]
  BY AcceptedFacts DEF Question
<1>2. \A f \in DOMAIN Fields(item) : Fields(item)[f] = {item[f]}
  BY <1>1, RequireTextSettles
<1>3. DOMAIN Fields(item) = DOMAIN Fields(raw)
  OBVIOUS
<1> HIDE DEF Fields
<1>4. Accepted(Fields(item)) = {item}
  BY <1>1, <1>2, <1>3, AcceptedAlone
<1> QED
  BY <1>4 DEF Question, Fields

(* A review and its stars.                                                  *)
LEMMA ReviewSettles ==
  ASSUME NEW raw, Object(raw), Get(raw, "rating") \in SUBSET Int,
         NEW item \in Review(raw)
  PROVE  Review(item) = {item}
<1> DEFINE Fields(o) == [name |-> RequireText(o, "name"),
                         city |-> OptionalText(o, "city"),
                         text |-> RequireText(o, "text"),
                         rating |-> Whole(Get(o, "rating"), 5)]
<1>1. /\ item = [f \in DOMAIN Fields(raw) |-> item[f]]
      /\ DOMAIN item = DOMAIN Fields(raw)
      /\ \A f \in DOMAIN Fields(raw) : item[f] \in Fields(raw)[f]
  BY AcceptedFacts DEF Review
<1>2. Whole(Get(item, "rating"), 5) = {item["rating"]}
  BY <1>1, WholeSettles DEF Get
<1>3. \A f \in DOMAIN Fields(item) : Fields(item)[f] = {item[f]}
  BY <1>1, <1>2, RequireTextSettles, OptionalTextSettles
<1>4. DOMAIN Fields(item) = DOMAIN Fields(raw)
  OBVIOUS
<1> HIDE DEF Fields
<1>5. Accepted(Fields(item)) = {item}
  BY <1>1, <1>3, <1>4, AcceptedAlone
<1> QED
  BY <1>5 DEF Review, Fields

(* The lists: as long as the list that was given.                           *)
LEMMA AsLong ==
  ASSUME NEW list, Sequence(list), NEW out, out = [i \in DOMAIN list |-> out[i]]
  PROVE  DOMAIN out = DOMAIN list /\ Len(out) = Len(list) /\ Sequence(out)
<1>1. Len(list) \in Nat /\ DOMAIN out = 1 .. Len(list) /\ DOMAIN out = DOMAIN list
  BY DEF Sequence
<1>2. out \in [1 .. Len(list) -> {out[i] : i \in DOMAIN list}]
  BY <1>1
<1>3. out \in Seq({out[i] : i \in DOMAIN list})
  BY <1>1, <1>2
<1>4. Len(out) \in Nat /\ DOMAIN out = 1 .. Len(out)
  BY <1>3
<1> QED
  BY <1>1, <1>4 DEF Sequence

(* A list that was accepted item by item is accepted as it is.              *)
LEMMA StringItemListSettles ==
  ASSUME NEW raw, NEW minimum, NEW maximum,
         \A list \in raw :
           Sequence(list),
         NEW v \in RequireList(raw, minimum, maximum, StringItem)
  PROVE  RequireList(v, minimum, maximum, StringItem) = {v}
<1>1. PICK list \in raw :
        /\ Len(list) \in minimum .. maximum
        /\ \A i \in DOMAIN list : StringItem(list[i]) # {}
        /\ v = {[i \in DOMAIN list |-> CHOOSE item \in StringItem(list[i]) : TRUE]}
  BY DEF RequireList
<1>2. PICK out : /\ v = {out}
                 /\ out = [i \in DOMAIN list |->
                            CHOOSE item \in StringItem(list[i]) : TRUE]
  BY <1>1
<1>3. DOMAIN out = DOMAIN list /\ Len(out) = Len(list)
  BY <1>2, AsLong
<1>4. \A i \in DOMAIN out : StringItem(out[i]) = {out[i]}
  <2> TAKE i \in DOMAIN out
  <2>1. out[i] \in StringItem(list[i])
    BY <1>1, <1>2, <1>3
  <2> QED
    BY <2>1, StringItemSettles
<1>5. \A i \in DOMAIN out : (CHOOSE item \in StringItem(out[i]) : TRUE) = out[i]
  BY <1>4
<1>6. out = [i \in DOMAIN out |-> out[i]]
  BY <1>2
<1> DEFINE Read(l) == [i \in DOMAIN l |-> CHOOSE item \in StringItem(l[i]) : TRUE]
           Fits(l) == /\ Len(l) \in minimum .. maximum
                      /\ \A i \in DOMAIN l : StringItem(l[i]) # {}
<1>7. Read(out) = out
  BY <1>5, <1>6
<1>8. Fits(out)
  BY <1>1, <1>3, <1>4
<1>9. RequireList(v, minimum, maximum, StringItem)
        = {{Read(l)} : l \in {x \in v : Fits(x)}}
  BY DEF RequireList
<1> HIDE DEF Read, Fits
<1> QED
  BY <1>2, <1>7, <1>8, <1>9

(* A list of this kind of item, the same way.                               *)
LEMMA CardListSettles ==
  ASSUME NEW raw, NEW minimum, NEW maximum,
         \A list \in raw :
           Sequence(list) /\ \A i \in DOMAIN list : Object(list[i]),
         NEW v \in RequireList(raw, minimum, maximum, Card)
  PROVE  RequireList(v, minimum, maximum, Card) = {v}
<1>1. PICK list \in raw :
        /\ Len(list) \in minimum .. maximum
        /\ \A i \in DOMAIN list : Card(list[i]) # {}
        /\ v = {[i \in DOMAIN list |-> CHOOSE item \in Card(list[i]) : TRUE]}
  BY DEF RequireList
<1>2. PICK out : /\ v = {out}
                 /\ out = [i \in DOMAIN list |->
                            CHOOSE item \in Card(list[i]) : TRUE]
  BY <1>1
<1>3. DOMAIN out = DOMAIN list /\ Len(out) = Len(list)
  BY <1>2, AsLong
<1>4. \A i \in DOMAIN out : Card(out[i]) = {out[i]}
  <2> TAKE i \in DOMAIN out
  <2>1. Object(list[i])
    BY <1>3
  <2>2. out[i] \in Card(list[i])
    BY <1>1, <1>2, <1>3
  <2> QED
    BY <2>1, <2>2, CardSettles
<1>5. \A i \in DOMAIN out : (CHOOSE item \in Card(out[i]) : TRUE) = out[i]
  BY <1>4
<1>6. out = [i \in DOMAIN out |-> out[i]]
  BY <1>2
<1> DEFINE Read(l) == [i \in DOMAIN l |-> CHOOSE item \in Card(l[i]) : TRUE]
           Fits(l) == /\ Len(l) \in minimum .. maximum
                      /\ \A i \in DOMAIN l : Card(l[i]) # {}
<1>7. Read(out) = out
  BY <1>5, <1>6
<1>8. Fits(out)
  BY <1>1, <1>3, <1>4
<1>9. RequireList(v, minimum, maximum, Card)
        = {{Read(l)} : l \in {x \in v : Fits(x)}}
  BY DEF RequireList
<1> HIDE DEF Read, Fits
<1> QED
  BY <1>2, <1>7, <1>8, <1>9

(* A list of this kind of item, the same way.                               *)
LEMMA KickerCardListSettles ==
  ASSUME NEW raw, NEW minimum, NEW maximum,
         \A list \in raw :
           Sequence(list) /\ \A i \in DOMAIN list : Object(list[i]),
         NEW v \in RequireList(raw, minimum, maximum, KickerCard)
  PROVE  RequireList(v, minimum, maximum, KickerCard) = {v}
<1>1. PICK list \in raw :
        /\ Len(list) \in minimum .. maximum
        /\ \A i \in DOMAIN list : KickerCard(list[i]) # {}
        /\ v = {[i \in DOMAIN list |-> CHOOSE item \in KickerCard(list[i]) : TRUE]}
  BY DEF RequireList
<1>2. PICK out : /\ v = {out}
                 /\ out = [i \in DOMAIN list |->
                            CHOOSE item \in KickerCard(list[i]) : TRUE]
  BY <1>1
<1>3. DOMAIN out = DOMAIN list /\ Len(out) = Len(list)
  BY <1>2, AsLong
<1>4. \A i \in DOMAIN out : KickerCard(out[i]) = {out[i]}
  <2> TAKE i \in DOMAIN out
  <2>1. Object(list[i])
    BY <1>3
  <2>2. out[i] \in KickerCard(list[i])
    BY <1>1, <1>2, <1>3
  <2> QED
    BY <2>1, <2>2, KickerCardSettles
<1>5. \A i \in DOMAIN out : (CHOOSE item \in KickerCard(out[i]) : TRUE) = out[i]
  BY <1>4
<1>6. out = [i \in DOMAIN out |-> out[i]]
  BY <1>2
<1> DEFINE Read(l) == [i \in DOMAIN l |-> CHOOSE item \in KickerCard(l[i]) : TRUE]
           Fits(l) == /\ Len(l) \in minimum .. maximum
                      /\ \A i \in DOMAIN l : KickerCard(l[i]) # {}
<1>7. Read(out) = out
  BY <1>5, <1>6
<1>8. Fits(out)
  BY <1>1, <1>3, <1>4
<1>9. RequireList(v, minimum, maximum, KickerCard)
        = {{Read(l)} : l \in {x \in v : Fits(x)}}
  BY DEF RequireList
<1> HIDE DEF Read, Fits
<1> QED
  BY <1>2, <1>7, <1>8, <1>9

(* A list of this kind of item, the same way.                               *)
LEMMA TitleCardListSettles ==
  ASSUME NEW raw, NEW minimum, NEW maximum,
         \A list \in raw :
           Sequence(list) /\ \A i \in DOMAIN list : Object(list[i]),
         NEW v \in RequireList(raw, minimum, maximum, TitleCard)
  PROVE  RequireList(v, minimum, maximum, TitleCard) = {v}
<1>1. PICK list \in raw :
        /\ Len(list) \in minimum .. maximum
        /\ \A i \in DOMAIN list : TitleCard(list[i]) # {}
        /\ v = {[i \in DOMAIN list |-> CHOOSE item \in TitleCard(list[i]) : TRUE]}
  BY DEF RequireList
<1>2. PICK out : /\ v = {out}
                 /\ out = [i \in DOMAIN list |->
                            CHOOSE item \in TitleCard(list[i]) : TRUE]
  BY <1>1
<1>3. DOMAIN out = DOMAIN list /\ Len(out) = Len(list)
  BY <1>2, AsLong
<1>4. \A i \in DOMAIN out : TitleCard(out[i]) = {out[i]}
  <2> TAKE i \in DOMAIN out
  <2>1. Object(list[i])
    BY <1>3
  <2>2. out[i] \in TitleCard(list[i])
    BY <1>1, <1>2, <1>3
  <2> QED
    BY <2>1, <2>2, TitleCardSettles
<1>5. \A i \in DOMAIN out : (CHOOSE item \in TitleCard(out[i]) : TRUE) = out[i]
  BY <1>4
<1>6. out = [i \in DOMAIN out |-> out[i]]
  BY <1>2
<1> DEFINE Read(l) == [i \in DOMAIN l |-> CHOOSE item \in TitleCard(l[i]) : TRUE]
           Fits(l) == /\ Len(l) \in minimum .. maximum
                      /\ \A i \in DOMAIN l : TitleCard(l[i]) # {}
<1>7. Read(out) = out
  BY <1>5, <1>6
<1>8. Fits(out)
  BY <1>1, <1>3, <1>4
<1>9. RequireList(v, minimum, maximum, TitleCard)
        = {{Read(l)} : l \in {x \in v : Fits(x)}}
  BY DEF RequireList
<1> HIDE DEF Read, Fits
<1> QED
  BY <1>2, <1>7, <1>8, <1>9

(* A list of this kind of item, the same way.                               *)
LEMMA BenefitItemListSettles ==
  ASSUME NEW raw, NEW minimum, NEW maximum,
         \A list \in raw :
           Sequence(list) /\ \A i \in DOMAIN list : Object(list[i]),
         NEW v \in RequireList(raw, minimum, maximum, BenefitItem)
  PROVE  RequireList(v, minimum, maximum, BenefitItem) = {v}
<1>1. PICK list \in raw :
        /\ Len(list) \in minimum .. maximum
        /\ \A i \in DOMAIN list : BenefitItem(list[i]) # {}
        /\ v = {[i \in DOMAIN list |-> CHOOSE item \in BenefitItem(list[i]) : TRUE]}
  BY DEF RequireList
<1>2. PICK out : /\ v = {out}
                 /\ out = [i \in DOMAIN list |->
                            CHOOSE item \in BenefitItem(list[i]) : TRUE]
  BY <1>1
<1>3. DOMAIN out = DOMAIN list /\ Len(out) = Len(list)
  BY <1>2, AsLong
<1>4. \A i \in DOMAIN out : BenefitItem(out[i]) = {out[i]}
  <2> TAKE i \in DOMAIN out
  <2>1. Object(list[i])
    BY <1>3
  <2>2. out[i] \in BenefitItem(list[i])
    BY <1>1, <1>2, <1>3
  <2> QED
    BY <2>1, <2>2, BenefitItemSettles
<1>5. \A i \in DOMAIN out : (CHOOSE item \in BenefitItem(out[i]) : TRUE) = out[i]
  BY <1>4
<1>6. out = [i \in DOMAIN out |-> out[i]]
  BY <1>2
<1> DEFINE Read(l) == [i \in DOMAIN l |-> CHOOSE item \in BenefitItem(l[i]) : TRUE]
           Fits(l) == /\ Len(l) \in minimum .. maximum
                      /\ \A i \in DOMAIN l : BenefitItem(l[i]) # {}
<1>7. Read(out) = out
  BY <1>5, <1>6
<1>8. Fits(out)
  BY <1>1, <1>3, <1>4
<1>9. RequireList(v, minimum, maximum, BenefitItem)
        = {{Read(l)} : l \in {x \in v : Fits(x)}}
  BY DEF RequireList
<1> HIDE DEF Read, Fits
<1> QED
  BY <1>2, <1>7, <1>8, <1>9

(* A list of this kind of item, the same way.                               *)
LEMMA QuestionListSettles ==
  ASSUME NEW raw, NEW minimum, NEW maximum,
         \A list \in raw :
           Sequence(list) /\ \A i \in DOMAIN list : Object(list[i]),
         NEW v \in RequireList(raw, minimum, maximum, Question)
  PROVE  RequireList(v, minimum, maximum, Question) = {v}
<1>1. PICK list \in raw :
        /\ Len(list) \in minimum .. maximum
        /\ \A i \in DOMAIN list : Question(list[i]) # {}
        /\ v = {[i \in DOMAIN list |-> CHOOSE item \in Question(list[i]) : TRUE]}
  BY DEF RequireList
<1>2. PICK out : /\ v = {out}
                 /\ out = [i \in DOMAIN list |->
                            CHOOSE item \in Question(list[i]) : TRUE]
  BY <1>1
<1>3. DOMAIN out = DOMAIN list /\ Len(out) = Len(list)
  BY <1>2, AsLong
<1>4. \A i \in DOMAIN out : Question(out[i]) = {out[i]}
  <2> TAKE i \in DOMAIN out
  <2>1. Object(list[i])
    BY <1>3
  <2>2. out[i] \in Question(list[i])
    BY <1>1, <1>2, <1>3
  <2> QED
    BY <2>1, <2>2, QuestionSettles
<1>5. \A i \in DOMAIN out : (CHOOSE item \in Question(out[i]) : TRUE) = out[i]
  BY <1>4
<1>6. out = [i \in DOMAIN out |-> out[i]]
  BY <1>2
<1> DEFINE Read(l) == [i \in DOMAIN l |-> CHOOSE item \in Question(l[i]) : TRUE]
           Fits(l) == /\ Len(l) \in minimum .. maximum
                      /\ \A i \in DOMAIN l : Question(l[i]) # {}
<1>7. Read(out) = out
  BY <1>5, <1>6
<1>8. Fits(out)
  BY <1>1, <1>3, <1>4
<1>9. RequireList(v, minimum, maximum, Question)
        = {{Read(l)} : l \in {x \in v : Fits(x)}}
  BY DEF RequireList
<1> HIDE DEF Read, Fits
<1> QED
  BY <1>2, <1>7, <1>8, <1>9

(* A list of this kind of item, the same way.                               *)
LEMMA ReviewListSettles ==
  ASSUME NEW raw, NEW minimum, NEW maximum,
         \A list \in raw :
           /\ Sequence(list)
           /\ \A i \in DOMAIN list :
                Object(list[i]) /\ Get(list[i], "rating") \subseteq Int,
         NEW v \in RequireList(raw, minimum, maximum, Review)
  PROVE  RequireList(v, minimum, maximum, Review) = {v}
<1>1. PICK list \in raw :
        /\ Len(list) \in minimum .. maximum
        /\ \A i \in DOMAIN list : Review(list[i]) # {}
        /\ v = {[i \in DOMAIN list |-> CHOOSE item \in Review(list[i]) : TRUE]}
  BY DEF RequireList
<1>2. PICK out : /\ v = {out}
                 /\ out = [i \in DOMAIN list |->
                            CHOOSE item \in Review(list[i]) : TRUE]
  BY <1>1
<1>3. DOMAIN out = DOMAIN list /\ Len(out) = Len(list)
  BY <1>2, AsLong
<1>4. \A i \in DOMAIN out : Review(out[i]) = {out[i]}
  <2> TAKE i \in DOMAIN out
  <2>1. Object(list[i]) /\ Get(list[i], "rating") \in SUBSET Int
    BY <1>3
  <2>2. out[i] \in Review(list[i])
    BY <1>1, <1>2, <1>3
  <2> QED
    BY <2>1, <2>2, ReviewSettles
<1>5. \A i \in DOMAIN out : (CHOOSE item \in Review(out[i]) : TRUE) = out[i]
  BY <1>4
<1>6. out = [i \in DOMAIN out |-> out[i]]
  BY <1>2
<1> DEFINE Read(l) == [i \in DOMAIN l |-> CHOOSE item \in Review(l[i]) : TRUE]
           Fits(l) == /\ Len(l) \in minimum .. maximum
                      /\ \A i \in DOMAIN l : Review(l[i]) # {}
<1>7. Read(out) = out
  BY <1>5, <1>6
<1>8. Fits(out)
  BY <1>1, <1>3, <1>4
<1>9. RequireList(v, minimum, maximum, Review)
        = {{Read(l)} : l \in {x \in v : Fits(x)}}
  BY DEF RequireList
<1> HIDE DEF Read, Fits
<1> QED
  BY <1>2, <1>7, <1>8, <1>9

----------------------------------------------------------------------------
(* The components.                                                          *)

(* The fields every type shares.                                            *)
Shared == {"accent_color", "dark_mode"}

(* A mapping from field names.                                              *)
Mapping(content) == content = [f \in DOMAIN content |-> content[f]]

(* What Content gives: the type's own fields and the two that all share.    *)
LEMMA ContentFacts ==
  ASSUME NEW object, NEW own, Shared \cap DOMAIN own = {},
         NEW content \in Content(object, own)
  PROVE  /\ Mapping(content)
         /\ DOMAIN content = DOMAIN own \union Shared
         /\ \A f \in DOMAIN own : content[f] \in own[f]
         /\ content["accent_color"] \in OptionalAccentColor(object)
         /\ content["dark_mode"] \in OptionalDarkMode(object)
<1> DEFINE rest == [accent_color |-> OptionalAccentColor(object),
                    dark_mode |-> OptionalDarkMode(object)]
           fields == own ++ rest
<1>1. /\ DOMAIN fields = DOMAIN own \union Shared
      /\ \A f \in DOMAIN own : fields[f] = own[f]
      /\ fields["accent_color"] = OptionalAccentColor(object)
      /\ fields["dark_mode"] = OptionalDarkMode(object)
  BY DEF ++, Shared
<1>2. content \in Accepted(fields)
  BY DEF Content
<1> HIDE DEF fields
<1> QED
  BY <1>1, <1>2, AcceptedFacts DEF Shared, Mapping

(* Content whose own fields read as they are is accepted as it is.          *)
LEMMA ContentSettles ==
  ASSUME NEW object, Object(object), NEW own, Shared \cap DOMAIN own = {},
         NEW content \in Content(object, own),
         NEW again, DOMAIN again = DOMAIN own,
         \A f \in DOMAIN own : again[f] = {content[f]}
  PROVE  /\ Content(content, again) = {content}
         /\ LeftToLanding(content) = LeftToLanding(object)
<1> DEFINE rest == [accent_color |-> OptionalAccentColor(content),
                    dark_mode |-> OptionalDarkMode(content)]
           fields == again ++ rest
<1>1. /\ Mapping(content)
      /\ DOMAIN content = DOMAIN own \union Shared
      /\ content["accent_color"] \in OptionalAccentColor(object)
      /\ content["dark_mode"] \in OptionalDarkMode(object)
  BY ContentFacts
<1>2. /\ OptionalAccentColor(content) = {content["accent_color"]}
      /\ Get(content, "accent_color") \subseteq {""}
           <=> Get(object, "accent_color") \subseteq {""}
  BY <1>1, AccentSettles DEF Shared
<1>3. /\ OptionalDarkMode(content) = {content["dark_mode"]}
      /\ Get(content, "dark_mode") \subseteq {""}
           <=> Get(object, "dark_mode") \subseteq {""}
  BY <1>1, DarkModeSettles DEF Shared
<1>4. /\ DOMAIN fields = DOMAIN own \union Shared
      /\ \A f \in DOMAIN own : fields[f] = again[f]
      /\ fields["accent_color"] = OptionalAccentColor(content)
      /\ fields["dark_mode"] = OptionalDarkMode(content)
  BY DEF ++, Shared
<1>5. Content(content, again) = Accepted(fields)
  BY DEF Content
<1> HIDE DEF fields
<1>6. \A f \in DOMAIN fields : fields[f] = {content[f]}
  BY <1>2, <1>3, <1>4 DEF Shared
<1>7. Accepted(fields) = {content}
  BY <1>1, <1>4, <1>6, AcceptedAlone DEF Mapping
<1>8. LeftToLanding(content) = LeftToLanding(object)
  BY <1>2, <1>3 DEF LeftToLanding
<1> QED
  BY <1>5, <1>7, <1>8

(* The announcement bar component: what its validator gives, it accepts as  *)
(* it is.                                                                   *)
LEMMA AnnouncementBarSettles ==
  ASSUME NEW c, Json("announcement_bar", c), NEW content \in AnnouncementBar(c)
  PROVE  /\ AnnouncementBar(content) = {content}
         /\ LeftToLanding(content) = LeftToLanding(c)
<1> DEFINE Own(o) == [text |-> RequireText(o, "text")]
<1>1. /\ Object(c)
      /\ \A f \in ListFields : \A list \in Get(c, f) : Sequence(list)
  BY DEF Json
<1>2. /\ Shared \cap DOMAIN Own(c) = {}
      /\ DOMAIN Own(content) = DOMAIN Own(c)
  BY DEF Shared
<1>3. /\ content \in Content(c, Own(c))
      /\ AnnouncementBar(content) = Content(content, Own(content))
  BY DEF AnnouncementBar
<1>4. /\ DOMAIN content = DOMAIN Own(c) \union Shared
      /\ \A f \in DOMAIN Own(c) : content[f] \in Own(c)[f]
  <2> HIDE DEF Own
  <2> QED
    BY <1>2, <1>3, ContentFacts
<1>5. \A f \in DOMAIN Own(c) : Own(content)[f] = {content[f]}
  BY <1>1, <1>4, RequireTextSettles
<1> HIDE DEF Own
<1> QED
  BY <1>1, <1>2, <1>3, <1>5, ContentSettles

(* The cta component: what its validator gives, it accepts as it is.        *)
LEMMA CtaSettles ==
  ASSUME NEW c, Json("cta", c), NEW content \in Cta(c)
  PROVE  /\ Cta(content) = {content}
         /\ LeftToLanding(content) = LeftToLanding(c)
<1> DEFINE Own(o) == [text |-> OptionalText(o, "text")]
<1>1. /\ Object(c)
      /\ \A f \in ListFields : \A list \in Get(c, f) : Sequence(list)
  BY DEF Json
<1>2. /\ Shared \cap DOMAIN Own(c) = {}
      /\ DOMAIN Own(content) = DOMAIN Own(c)
  BY DEF Shared
<1>3. /\ content \in Content(c, Own(c))
      /\ Cta(content) = Content(content, Own(content))
  BY DEF Cta
<1>4. /\ DOMAIN content = DOMAIN Own(c) \union Shared
      /\ \A f \in DOMAIN Own(c) : content[f] \in Own(c)[f]
  <2> HIDE DEF Own
  <2> QED
    BY <1>2, <1>3, ContentFacts
<1>5. \A f \in DOMAIN Own(c) : Own(content)[f] = {content[f]}
  BY <1>1, <1>4, OptionalTextSettles
<1> HIDE DEF Own
<1> QED
  BY <1>1, <1>2, <1>3, <1>5, ContentSettles

(* The video carousel component: what its validator gives, it accepts as it *)
(* is.                                                                      *)
LEMMA VideoCarouselSettles ==
  ASSUME NEW c, Json("video_carousel", c), NEW content \in VideoCarousel(c)
  PROVE  /\ VideoCarousel(content) = {content}
         /\ LeftToLanding(content) = LeftToLanding(c)
<1> DEFINE Own(o) == [title |-> OptionalText(o, "title")]
<1>1. /\ Object(c)
      /\ \A f \in ListFields : \A list \in Get(c, f) : Sequence(list)
  BY DEF Json
<1>2. /\ Shared \cap DOMAIN Own(c) = {}
      /\ DOMAIN Own(content) = DOMAIN Own(c)
  BY DEF Shared
<1>3. /\ content \in Content(c, Own(c))
      /\ VideoCarousel(content) = Content(content, Own(content))
  BY DEF VideoCarousel
<1>4. /\ DOMAIN content = DOMAIN Own(c) \union Shared
      /\ \A f \in DOMAIN Own(c) : content[f] \in Own(c)[f]
  <2> HIDE DEF Own
  <2> QED
    BY <1>2, <1>3, ContentFacts
<1>5. \A f \in DOMAIN Own(c) : Own(content)[f] = {content[f]}
  BY <1>1, <1>4, OptionalTextSettles
<1> HIDE DEF Own
<1> QED
  BY <1>1, <1>2, <1>3, <1>5, ContentSettles

(* The cod assurance component: what its validator gives, it accepts as it  *)
(* is.                                                                      *)
LEMMA CodAssuranceSettles ==
  ASSUME NEW c, Json("cod_assurance", c), NEW content \in CodAssurance(c)
  PROVE  /\ CodAssurance(content) = {content}
         /\ LeftToLanding(content) = LeftToLanding(c)
<1> DEFINE Own(o) == [note |-> OptionalText(o, "note")]
<1>1. /\ Object(c)
      /\ \A f \in ListFields : \A list \in Get(c, f) : Sequence(list)
  BY DEF Json
<1>2. /\ Shared \cap DOMAIN Own(c) = {}
      /\ DOMAIN Own(content) = DOMAIN Own(c)
  BY DEF Shared
<1>3. /\ content \in Content(c, Own(c))
      /\ CodAssurance(content) = Content(content, Own(content))
  BY DEF CodAssurance
<1>4. /\ DOMAIN content = DOMAIN Own(c) \union Shared
      /\ \A f \in DOMAIN Own(c) : content[f] \in Own(c)[f]
  <2> HIDE DEF Own
  <2> QED
    BY <1>2, <1>3, ContentFacts
<1>5. \A f \in DOMAIN Own(c) : Own(content)[f] = {content[f]}
  BY <1>1, <1>4, OptionalTextSettles
<1> HIDE DEF Own
<1> QED
  BY <1>1, <1>2, <1>3, <1>5, ContentSettles

(* The offers price component: what its validator gives, it accepts as it   *)
(* is.                                                                      *)
LEMMA OffersPriceSettles ==
  ASSUME NEW c, Json("offers_price", c), NEW content \in OffersPrice(c)
  PROVE  /\ OffersPrice(content) = {content}
         /\ LeftToLanding(content) = LeftToLanding(c)
<1> DEFINE Own(o) == [title |-> OptionalText(o, "title")]
<1>1. /\ Object(c)
      /\ \A f \in ListFields : \A list \in Get(c, f) : Sequence(list)
  BY DEF Json
<1>2. /\ Shared \cap DOMAIN Own(c) = {}
      /\ DOMAIN Own(content) = DOMAIN Own(c)
  BY DEF Shared
<1>3. /\ content \in Content(c, Own(c))
      /\ OffersPrice(content) = Content(content, Own(content))
  BY DEF OffersPrice
<1>4. /\ DOMAIN content = DOMAIN Own(c) \union Shared
      /\ \A f \in DOMAIN Own(c) : content[f] \in Own(c)[f]
  <2> HIDE DEF Own
  <2> QED
    BY <1>2, <1>3, ContentFacts
<1>5. \A f \in DOMAIN Own(c) : Own(content)[f] = {content[f]}
  BY <1>1, <1>4, OptionalTextSettles
<1> HIDE DEF Own
<1> QED
  BY <1>1, <1>2, <1>3, <1>5, ContentSettles

(* The purchase benefits component: what its validator gives, it accepts as *)
(* it is.                                                                   *)
LEMMA PurchaseBenefitsSettles ==
  ASSUME NEW c, Json("purchase_benefits", c), NEW content \in PurchaseBenefits(c)
  PROVE  /\ PurchaseBenefits(content) = {content}
         /\ LeftToLanding(content) = LeftToLanding(c)
<1> DEFINE Own(o) == [note |-> OptionalText(o, "note")]
<1>1. /\ Object(c)
      /\ \A f \in ListFields : \A list \in Get(c, f) : Sequence(list)
  BY DEF Json
<1>2. /\ Shared \cap DOMAIN Own(c) = {}
      /\ DOMAIN Own(content) = DOMAIN Own(c)
  BY DEF Shared
<1>3. /\ content \in Content(c, Own(c))
      /\ PurchaseBenefits(content) = Content(content, Own(content))
  BY DEF PurchaseBenefits
<1>4. /\ DOMAIN content = DOMAIN Own(c) \union Shared
      /\ \A f \in DOMAIN Own(c) : content[f] \in Own(c)[f]
  <2> HIDE DEF Own
  <2> QED
    BY <1>2, <1>3, ContentFacts
<1>5. \A f \in DOMAIN Own(c) : Own(content)[f] = {content[f]}
  BY <1>1, <1>4, OptionalTextSettles
<1> HIDE DEF Own
<1> QED
  BY <1>1, <1>2, <1>3, <1>5, ContentSettles

(* The benefits component: what its validator gives, it accepts as it is.   *)
LEMMA BenefitsSettles ==
  ASSUME NEW c, Json("benefits", c), NEW content \in Benefits(c)
  PROVE  /\ Benefits(content) = {content}
         /\ LeftToLanding(content) = LeftToLanding(c)
<1> DEFINE Own(o) == [title |-> OptionalText(o, "title"),
                      items |-> RequireList(Get(o, "items"), 2, 5, StringItem)]
<1>1. /\ Object(c)
      /\ \A f \in ListFields : \A list \in Get(c, f) : Sequence(list)
  BY DEF Json
<1>2. /\ Shared \cap DOMAIN Own(c) = {}
      /\ DOMAIN Own(content) = DOMAIN Own(c)
  BY DEF Shared
<1>3. /\ content \in Content(c, Own(c))
      /\ Benefits(content) = Content(content, Own(content))
  BY DEF Benefits
<1>4. /\ DOMAIN content = DOMAIN Own(c) \union Shared
      /\ \A f \in DOMAIN Own(c) : content[f] \in Own(c)[f]
  <2> HIDE DEF Own
  <2> QED
    BY <1>2, <1>3, ContentFacts
<1>5. RequireList(Get(content, "items"), 2, 5, StringItem)
        = {content["items"]}
  BY <1>1, <1>4, StringItemListSettles DEF Get, Json, ListFields
<1>6. \A f \in DOMAIN Own(c) : Own(content)[f] = {content[f]}
  BY <1>1, <1>4, <1>5, OptionalTextSettles
<1> HIDE DEF Own
<1> QED
  BY <1>1, <1>2, <1>3, <1>6, ContentSettles

(* The included benefits component: what its validator gives, it accepts as *)
(* it is.                                                                   *)
LEMMA IncludedBenefitsSettles ==
  ASSUME NEW c, Json("included_benefits", c), NEW content \in IncludedBenefits(c)
  PROVE  /\ IncludedBenefits(content) = {content}
         /\ LeftToLanding(content) = LeftToLanding(c)
<1> DEFINE Own(o) == [title |-> OptionalText(o, "title"),
                      items |-> RequireList(Get(o, "items"), 2, 8, BenefitItem)]
<1>1. /\ Object(c)
      /\ \A f \in ListFields : \A list \in Get(c, f) : Sequence(list)
  BY DEF Json
<1>2. /\ Shared \cap DOMAIN Own(c) = {}
      /\ DOMAIN Own(content) = DOMAIN Own(c)
  BY DEF Shared
<1>3. /\ content \in Content(c, Own(c))
      /\ IncludedBenefits(content) = Content(content, Own(content))
  BY DEF IncludedBenefits
<1>4. /\ DOMAIN content = DOMAIN Own(c) \union Shared
      /\ \A f \in DOMAIN Own(c) : content[f] \in Own(c)[f]
  <2> HIDE DEF Own
  <2> QED
    BY <1>2, <1>3, ContentFacts
<1>5. RequireList(Get(content, "items"), 2, 8, BenefitItem)
        = {content["items"]}
  BY <1>1, <1>4, BenefitItemListSettles DEF Get, Json, ListFields, TextLists
<1>6. \A f \in DOMAIN Own(c) : Own(content)[f] = {content[f]}
  BY <1>1, <1>4, <1>5, OptionalTextSettles
<1> HIDE DEF Own
<1> QED
  BY <1>1, <1>2, <1>3, <1>6, ContentSettles

(* The reviews component: what its validator gives, it accepts as it is.    *)
LEMMA ReviewsSettles ==
  ASSUME NEW c, Json("reviews", c), NEW content \in Reviews(c)
  PROVE  /\ Reviews(content) = {content}
         /\ LeftToLanding(content) = LeftToLanding(c)
<1> DEFINE Own(o) == [title |-> OptionalText(o, "title"),
                      items |-> Cards(o, "items", 4, Review)]
<1>1. /\ Object(c)
      /\ \A f \in ListFields : \A list \in Get(c, f) : Sequence(list)
  BY DEF Json
<1>2. /\ Shared \cap DOMAIN Own(c) = {}
      /\ DOMAIN Own(content) = DOMAIN Own(c)
  BY DEF Shared
<1>3. /\ content \in Content(c, Own(c))
      /\ Reviews(content) = Content(content, Own(content))
  BY DEF Reviews
<1>4. /\ DOMAIN content = DOMAIN Own(c) \union Shared
      /\ \A f \in DOMAIN Own(c) : content[f] \in Own(c)[f]
  <2> HIDE DEF Own
  <2> QED
    BY <1>2, <1>3, ContentFacts
<1>5. Cards(content, "items", 4, Review)
        = {content["items"]}
  BY <1>1, <1>4, ReviewListSettles DEF Get, Json, ListFields, TextLists, Cards
<1>6. \A f \in DOMAIN Own(c) : Own(content)[f] = {content[f]}
  BY <1>1, <1>4, <1>5, OptionalTextSettles
<1> HIDE DEF Own
<1> QED
  BY <1>1, <1>2, <1>3, <1>6, ContentSettles

(* The faq component: what its validator gives, it accepts as it is.        *)
LEMMA FaqSettles ==
  ASSUME NEW c, Json("faq", c), NEW content \in Faq(c)
  PROVE  /\ Faq(content) = {content}
         /\ LeftToLanding(content) = LeftToLanding(c)
<1> DEFINE Own(o) == [title |-> OptionalText(o, "title"),
                      items |-> Cards(o, "items", 6, Question)]
<1>1. /\ Object(c)
      /\ \A f \in ListFields : \A list \in Get(c, f) : Sequence(list)
  BY DEF Json
<1>2. /\ Shared \cap DOMAIN Own(c) = {}
      /\ DOMAIN Own(content) = DOMAIN Own(c)
  BY DEF Shared
<1>3. /\ content \in Content(c, Own(c))
      /\ Faq(content) = Content(content, Own(content))
  BY DEF Faq
<1>4. /\ DOMAIN content = DOMAIN Own(c) \union Shared
      /\ \A f \in DOMAIN Own(c) : content[f] \in Own(c)[f]
  <2> HIDE DEF Own
  <2> QED
    BY <1>2, <1>3, ContentFacts
<1>5. Cards(content, "items", 6, Question)
        = {content["items"]}
  BY <1>1, <1>4, QuestionListSettles DEF Get, Json, ListFields, TextLists, Cards
<1>6. \A f \in DOMAIN Own(c) : Own(content)[f] = {content[f]}
  BY <1>1, <1>4, <1>5, OptionalTextSettles
<1> HIDE DEF Own
<1> QED
  BY <1>1, <1>2, <1>3, <1>6, ContentSettles

(* The main problem component: what its validator gives, it accepts as it   *)
(* is.                                                                      *)
LEMMA MainProblemSettles ==
  ASSUME NEW c, Json("main_problem", c), NEW content \in MainProblem(c)
  PROVE  /\ MainProblem(content) = {content}
         /\ LeftToLanding(content) = LeftToLanding(c)
<1> DEFINE Own(o) == [eyebrow |-> OptionalText(o, "eyebrow"),
                      title |-> RequireText(o, "title"),
                      highlight |-> OptionalText(o, "highlight"),
                      subtitle |-> OptionalText(o, "subtitle"),
                      items |-> Cards(o, "items", 6, Card)]
<1>1. /\ Object(c)
      /\ \A f \in ListFields : \A list \in Get(c, f) : Sequence(list)
  BY DEF Json
<1>2. /\ Shared \cap DOMAIN Own(c) = {}
      /\ DOMAIN Own(content) = DOMAIN Own(c)
  BY DEF Shared
<1>3. /\ content \in Content(c, Own(c))
      /\ MainProblem(content) = Content(content, Own(content))
  BY DEF MainProblem
<1>4. /\ DOMAIN content = DOMAIN Own(c) \union Shared
      /\ \A f \in DOMAIN Own(c) : content[f] \in Own(c)[f]
  <2> HIDE DEF Own
  <2> QED
    BY <1>2, <1>3, ContentFacts
<1>5. Cards(content, "items", 6, Card)
        = {content["items"]}
  BY <1>1, <1>4, CardListSettles DEF Get, Json, ListFields, TextLists, Cards
<1>6. \A f \in DOMAIN Own(c) : Own(content)[f] = {content[f]}
  BY <1>1, <1>4, <1>5, RequireTextSettles, OptionalTextSettles
<1> HIDE DEF Own
<1> QED
  BY <1>1, <1>2, <1>3, <1>6, ContentSettles

(* The how it works component: what its validator gives, it accepts as it   *)
(* is.                                                                      *)
LEMMA HowItWorksSettles ==
  ASSUME NEW c, Json("how_it_works", c), NEW content \in HowItWorks(c)
  PROVE  /\ HowItWorks(content) = {content}
         /\ LeftToLanding(content) = LeftToLanding(c)
<1> DEFINE Own(o) == [title |-> RequireText(o, "title"),
                      highlight |-> OptionalText(o, "highlight"),
                      subtitle |-> OptionalText(o, "subtitle"),
                      steps |-> Cards(o, "steps", 10, KickerCard)]
<1>1. /\ Object(c)
      /\ \A f \in ListFields : \A list \in Get(c, f) : Sequence(list)
  BY DEF Json
<1>2. /\ Shared \cap DOMAIN Own(c) = {}
      /\ DOMAIN Own(content) = DOMAIN Own(c)
  BY DEF Shared
<1>3. /\ content \in Content(c, Own(c))
      /\ HowItWorks(content) = Content(content, Own(content))
  BY DEF HowItWorks
<1>4. /\ DOMAIN content = DOMAIN Own(c) \union Shared
      /\ \A f \in DOMAIN Own(c) : content[f] \in Own(c)[f]
  <2> HIDE DEF Own
  <2> QED
    BY <1>2, <1>3, ContentFacts
<1>5. Cards(content, "steps", 10, KickerCard)
        = {content["steps"]}
  BY <1>1, <1>4, KickerCardListSettles DEF Get, Json, ListFields, TextLists,
     Cards
<1>6. \A f \in DOMAIN Own(c) : Own(content)[f] = {content[f]}
  BY <1>1, <1>4, <1>5, RequireTextSettles, OptionalTextSettles
<1> HIDE DEF Own
<1> QED
  BY <1>1, <1>2, <1>3, <1>6, ContentSettles

(* The store trust component: what its validator gives, it accepts as it    *)
(* is.                                                                      *)
LEMMA StoreTrustSettles ==
  ASSUME NEW c, Json("store_trust", c), NEW content \in StoreTrust(c)
  PROVE  /\ StoreTrust(content) = {content}
         /\ LeftToLanding(content) = LeftToLanding(c)
<1>1. Object(c)
  BY DEF Json
<1>2. DOMAIN <<>> = {}
  OBVIOUS
<1> QED
  BY <1>1, <1>2, ContentSettles DEF StoreTrust

(* The spacer component: what its validator gives, it accepts as it is.     *)
LEMMA SpacerSettles ==
  ASSUME NEW c, Json("spacer", c), NEW content \in Spacer(c)
  PROVE  /\ Spacer(content) = {content}
         /\ LeftToLanding(content) = LeftToLanding(c)
<1>1. Object(c)
  BY DEF Json
<1>2. DOMAIN <<>> = {}
  OBVIOUS
<1> QED
  BY <1>1, <1>2, ContentSettles DEF Spacer

(* The offer price component: what its validator gives, it accepts as it    *)
(* is.                                                                      *)
LEMMA OfferPriceSettles ==
  ASSUME NEW c, Json("offer_price", c), NEW content \in OfferPrice(c)
  PROVE  /\ OfferPrice(content) = {content}
         /\ LeftToLanding(content) = LeftToLanding(c)
<1> DEFINE Own(o) == [compare_at_price |-> Number(Get(o, "compare_at_price"),
                                          {n \in Get(o, "compare_at_price") : n > 0}),
                      note |-> OptionalText(o, "note")]
<1>1. /\ Object(c)
      /\ \A f \in ListFields : \A list \in Get(c, f) : Sequence(list)
  BY DEF Json
<1>2. /\ Shared \cap DOMAIN Own(c) = {}
      /\ DOMAIN Own(content) = DOMAIN Own(c)
  BY DEF Shared
<1>3. /\ content \in Content(c, Own(c))
      /\ OfferPrice(content) = Content(content, Own(content))
  BY DEF OfferPrice
<1>4. /\ DOMAIN content = DOMAIN Own(c) \union Shared
      /\ \A f \in DOMAIN Own(c) : content[f] \in Own(c)[f]
  <2> HIDE DEF Own
  <2> QED
    BY <1>2, <1>3, ContentFacts
<1>5. Own(content)["compare_at_price"] = {content["compare_at_price"]}
  BY <1>4, PriceSettles DEF Get
<1>6. OptionalText(content, "note") = {content["note"]}
  BY <1>1, <1>4, OptionalTextSettles
<1>7. \A f \in DOMAIN Own(c) : Own(content)[f] = {content[f]}
  BY <1>1, <1>4, <1>5, <1>6
<1> HIDE DEF Own
<1> QED
  BY <1>1, <1>2, <1>3, <1>7, ContentSettles

(* The guarantee component: what its validator gives, it accepts as it is.  *)
LEMMA GuaranteeSettles ==
  ASSUME NEW c, Json("guarantee", c), NEW content \in Guarantee(c)
  PROVE  /\ Guarantee(content) = {content}
         /\ LeftToLanding(content) = LeftToLanding(c)
<1> DEFINE Own(o) == [title |-> RequireText(o, "title"),
                      text |-> RequireText(o, "text"),
                      days |-> Whole(Get(o, "days"), 365),
                      eyebrow |-> OptionalText(o, "eyebrow"),
                      benefits |-> IF Get(o, "benefits") \subseteq {<<>>} THEN {{<<>>}}
                                  ELSE Cards(o, "benefits", 4, TitleCard)]
<1>1. /\ Object(c)
      /\ \A f \in ListFields : \A list \in Get(c, f) : Sequence(list)
  BY DEF Json
<1>2. /\ Shared \cap DOMAIN Own(c) = {}
      /\ DOMAIN Own(content) = DOMAIN Own(c)
  BY DEF Shared
<1>3. /\ content \in Content(c, Own(c))
      /\ Guarantee(content) = Content(content, Own(content))
  BY DEF Guarantee
<1>4. /\ DOMAIN content = DOMAIN Own(c) \union Shared
      /\ \A f \in DOMAIN Own(c) : content[f] \in Own(c)[f]
  <2> HIDE DEF Own
  <2> QED
    BY <1>2, <1>3, ContentFacts
<1>5. Whole(Get(content, "days"), 365) = {content["days"]}
  <2>1. content["days"] \in Whole(Get(c, "days"), 365)
    BY <1>4
  <2>2. Get(c, "days") \in SUBSET Int
    BY DEF Json
  <2>3. Whole(content["days"], 365) = {content["days"]}
    BY <2>1, <2>2, WholeSettles
  <2> QED
    BY <1>4, <2>3 DEF Get
<1>6. Own(content)["benefits"] = {content["benefits"]}
  <2>1. CASE Get(c, "benefits") \subseteq {<<>>}
    BY <1>4, <2>1 DEF Get
  <2>2. CASE ~(Get(c, "benefits") \subseteq {<<>>})
    <3>1. content["benefits"] \in Cards(c, "benefits", 4, TitleCard)
      BY <1>4, <2>2
    <3>2. Cards(content, "benefits", 4, TitleCard) = {content["benefits"]}
      BY <1>1, <1>4, <3>1, TitleCardListSettles DEF Cards, Get, Json,
         ListFields, TextLists
    <3>3. PICK list, kept : /\ list \in Get(c, "benefits") /\ Len(list) \in 1 .. 4
                            /\ content["benefits"] = {kept}
                            /\ kept = [i \in DOMAIN list |->
                                         CHOOSE item \in TitleCard(list[i]) : TRUE]
      BY <3>1 DEF Cards, RequireList
    <3>4. Len(kept) = Len(list)
      BY <1>1, <3>3, AsLong DEF ListFields
    <3>5. kept # <<>>
      <4>1. 1 \in DOMAIN list /\ DOMAIN kept = DOMAIN list
        BY <1>1, <3>3 DEF Sequence, ListFields
      <4> QED
        BY <4>1
    <3> QED
      BY <1>4, <3>2, <3>3, <3>5 DEF Get
  <2> QED
    BY <2>1, <2>2
<1>7. /\ \A f \in {"title", "text"} : RequireText(content, f) = {content[f]}
      /\ OptionalText(content, "eyebrow") = {content["eyebrow"]}
  <2>1. /\ \A f \in {"title", "text"} :
             f \in DOMAIN content /\ content[f] \in RequireText(c, f)
        /\ "eyebrow" \in DOMAIN content
        /\ content["eyebrow"] \in OptionalText(c, "eyebrow")
    BY <1>4
  <2> QED
    BY <1>1, <2>1, RequireTextSettles, OptionalTextSettles
<1>8. \A f \in DOMAIN Own(c) : Own(content)[f] = {content[f]}
  BY <1>1, <1>4, <1>5, <1>6, <1>7
<1> HIDE DEF Own
<1> QED
  BY <1>1, <1>2, <1>3, <1>8, ContentSettles

(* The solution presentation component: what its validator gives, it        *)
(* accepts as it is.                                                        *)
LEMMA SolutionPresentationSettles ==
  ASSUME NEW c, Json("solution_presentation", c), NEW content \in SolutionPresentation(c)
  PROVE  /\ SolutionPresentation(content) = {content}
         /\ LeftToLanding(content) = LeftToLanding(c)
<1> DEFINE Own(o) == [f \in {"bridge_text", "eyebrow", "highlight", "supporting_text",
                            "final_title", "final_highlight"} |-> OptionalText(o, f)]
                     ++ [title |-> RequireText(o, "title"),
                         text |-> RequireText(o, "text"),
                         items |-> Cards(o, "items", 6, KickerCard)]
<1>1. /\ Object(c)
      /\ \A f \in ListFields : \A list \in Get(c, f) : Sequence(list)
  BY DEF Json
<1>2. /\ Shared \cap DOMAIN Own(c) = {}
      /\ DOMAIN Own(content) = DOMAIN Own(c)
  BY DEF Shared, ++
<1>3. /\ content \in Content(c, Own(c))
      /\ SolutionPresentation(content) = Content(content, Own(content))
  BY DEF SolutionPresentation
<1>4. /\ DOMAIN content = DOMAIN Own(c) \union Shared
      /\ \A f \in DOMAIN Own(c) : content[f] \in Own(c)[f]
  <2> HIDE DEF Own
  <2> QED
    BY <1>2, <1>3, ContentFacts
<1>5. /\ \A f \in {"bridge_text", "eyebrow", "highlight", "supporting_text",
                "final_title", "final_highlight"} : content[f] \in OptionalText(c, f)
      /\ \A f \in {"title", "text"} : content[f] \in RequireText(c, f)
      /\ content["items"] \in Cards(c, "items", 6, KickerCard)
      /\ DOMAIN Own(c) \subseteq DOMAIN content
  <2>1. \A f \in {"bridge_text", "eyebrow", "highlight", "supporting_text",
                "final_title", "final_highlight"} :
          f \in DOMAIN Own(c) /\ Own(c)[f] = OptionalText(c, f)
    BY DEF ++
  <2>2. \A f \in {"title", "text"} :
          f \in DOMAIN Own(c) /\ Own(c)[f] = RequireText(c, f)
    BY DEF ++
  <2>3. "items" \in DOMAIN Own(c) /\ Own(c)["items"] = Cards(c, "items", 6, KickerCard)
    BY DEF ++
  <2> HIDE DEF Own
  <2> QED
    BY <1>4, <2>1, <2>2, <2>3
<1>6. /\ \A f \in {"bridge_text", "eyebrow", "highlight", "supporting_text",
                "final_title", "final_highlight"} :
           OptionalText(content, f) = {content[f]}
      /\ \A f \in {"title", "text"} : RequireText(content, f) = {content[f]}
  BY <1>1, <1>5, RequireTextSettles, OptionalTextSettles DEF ++
<1>7. Cards(content, "items", 6, KickerCard) = {content["items"]}
  BY <1>1, <1>5, KickerCardListSettles DEF Get, Json, ListFields, TextLists,
     Cards, ++
<1>8. \A f \in DOMAIN Own(c) : Own(content)[f] = {content[f]}
  BY <1>1, <1>4, <1>5, <1>6, <1>7 DEF ++
<1> HIDE DEF Own
<1> QED
  BY <1>1, <1>2, <1>3, <1>8, ContentSettles

(* The audience component: what its validator gives, it accepts as it is.   *)
LEMMA AudienceSettles ==
  ASSUME NEW c, Json("audience", c), NEW content \in Audience(c)
  PROVE  /\ Audience(content) = {content}
         /\ LeftToLanding(content) = LeftToLanding(c)
<1> DEFINE Own(o) == [f \in {"title", "positive_title", "negative_title"} |->
                       RequireText(o, f)]
                     ++ [f \in {"highlight", "positive_subtitle",
                                "negative_subtitle", "footer"} |-> OptionalText(o, f)]
                     ++ [f \in {"positive_items", "negative_items"} |-> Strings(o, f)]
<1>1. /\ Object(c)
      /\ \A f \in ListFields : \A list \in Get(c, f) : Sequence(list)
  BY DEF Json
<1>2. /\ Shared \cap DOMAIN Own(c) = {}
      /\ DOMAIN Own(content) = DOMAIN Own(c)
  BY DEF Shared, ++
<1>3. /\ content \in Content(c, Own(c))
      /\ Audience(content) = Content(content, Own(content))
  BY DEF Audience
<1>4. /\ DOMAIN content = DOMAIN Own(c) \union Shared
      /\ \A f \in DOMAIN Own(c) : content[f] \in Own(c)[f]
  <2> HIDE DEF Own
  <2> QED
    BY <1>2, <1>3, ContentFacts
<1>5. /\ \A f \in {"title", "positive_title", "negative_title"} :
           content[f] \in RequireText(c, f)
      /\ \A f \in {"highlight", "positive_subtitle", "negative_subtitle", "footer"} :
           content[f] \in OptionalText(c, f)
      /\ \A f \in {"positive_items", "negative_items"} : content[f] \in Strings(c, f)
      /\ DOMAIN Own(c) \subseteq DOMAIN content
  BY <1>4 DEF ++
<1>6. /\ \A f \in {"title", "positive_title", "negative_title"} :
           RequireText(content, f) = {content[f]}
      /\ \A f \in {"highlight", "positive_subtitle", "negative_subtitle", "footer"} :
           OptionalText(content, f) = {content[f]}
  BY <1>1, <1>5, RequireTextSettles, OptionalTextSettles DEF ++
<1>7. \A f \in {"positive_items", "negative_items"} : Strings(content, f) = {content[f]}
  BY <1>1, <1>5, StringItemListSettles DEF Strings, Get, ListFields, ++
<1>8. \A f \in DOMAIN Own(c) : Own(content)[f] = {content[f]}
  BY <1>1, <1>4, <1>5, <1>6, <1>7 DEF ++
<1> HIDE DEF Own
<1> QED
  BY <1>1, <1>2, <1>3, <1>8, ContentSettles

(* The moment component: what its validator gives, it accepts as it is.     *)
LEMMA MomentSettles ==
  ASSUME NEW c, Json("moment", c), NEW content \in Moment(c)
  PROVE  /\ Moment(content) = {content}
         /\ LeftToLanding(content) = LeftToLanding(c)
<1> DEFINE Own(o) == [f \in {"title", "highlight", "text"} |-> RequireText(o, f)]
                     ++ [f \in {"emphasis", "footer"} |-> OptionalText(o, f)]
<1>1. /\ Object(c)
      /\ \A f \in ListFields : \A list \in Get(c, f) : Sequence(list)
  BY DEF Json
<1>2. /\ Shared \cap DOMAIN Own(c) = {}
      /\ DOMAIN Own(content) = DOMAIN Own(c)
  BY DEF Shared, ++
<1>3. /\ content \in Content(c, Own(c))
      /\ Moment(content) = Content(content, Own(content))
  BY DEF Moment
<1>4. /\ DOMAIN content = DOMAIN Own(c) \union Shared
      /\ \A f \in DOMAIN Own(c) : content[f] \in Own(c)[f]
  <2> HIDE DEF Own
  <2> QED
    BY <1>2, <1>3, ContentFacts
<1>5. /\ \A f \in {"title", "highlight", "text"} : content[f] \in RequireText(c, f)
      /\ \A f \in {"emphasis", "footer"} : content[f] \in OptionalText(c, f)
      /\ DOMAIN Own(c) \subseteq DOMAIN content
  BY <1>4 DEF ++
<1>6. /\ \A f \in {"title", "highlight", "text"} : RequireText(content, f) = {content[f]}
      /\ \A f \in {"emphasis", "footer"} : OptionalText(content, f) = {content[f]}
  BY <1>1, <1>5, RequireTextSettles, OptionalTextSettles DEF ++
<1>7. \A f \in DOMAIN Own(c) : Own(content)[f] = {content[f]}
  BY <1>1, <1>4, <1>5, <1>6 DEF ++
<1> HIDE DEF Own
<1> QED
  BY <1>1, <1>2, <1>3, <1>7, ContentSettles

(* The note that a summary drops is no longer there to be checked.          *)
LEMMA PriceSummarySettles ==
  ASSUME NEW c, Json("price_summary", c), NEW content \in PriceSummary(c)
  PROVE  /\ PriceSummary(content) = {content}
         /\ LeftToLanding(content) = LeftToLanding(c)
<1> DEFINE Own(o) == [compare_at_price |-> Number(Get(o, "compare_at_price"),
                                          {n \in Get(o, "compare_at_price") : n > 0}),
                      note |-> OptionalText(o, "note")]
           All == {"compare_at_price", "note"} \union Shared
           Kept == {"compare_at_price"} \union Shared
<1>1. Object(c)
  BY DEF Json
<1>2. Shared \cap DOMAIN Own(c) = {}
  BY DEF Shared
<1>3. PICK full \in OfferPrice(c) : content = Restrict(full, DOMAIN full \ {"note"})
  BY DEF PriceSummary
<1>4. full \in Content(c, Own(c))
  BY DEF OfferPrice
<1>5. /\ DOMAIN full = All
      /\ full["compare_at_price"] \in Own(c)["compare_at_price"]
      /\ full["accent_color"] \in OptionalAccentColor(c)
      /\ full["dark_mode"] \in OptionalDarkMode(c)
  <2>1. DOMAIN Own(c) = {"compare_at_price", "note"}
    OBVIOUS
  <2> HIDE DEF Own
  <2> QED
    BY <1>2, <1>4, <2>1, ContentFacts
<1>6. /\ DOMAIN content = Kept
      /\ \A f \in Kept : content[f] = full[f]
      /\ content = [f \in Kept |-> content[f]]
  BY <1>3, <1>5 DEF Restrict, Shared
<1> DEFINE again == [f \in All |-> IF f = "note" THEN {} ELSE content[f]]
           rest == [accent_color |-> OptionalAccentColor(content),
                    dark_mode |-> OptionalDarkMode(content)]
           fields == Own(content) ++ rest
<1>7. /\ OptionalAccentColor(content) = {content["accent_color"]}
      /\ Get(content, "accent_color") \subseteq {""}
           <=> Get(c, "accent_color") \subseteq {""}
  BY <1>1, <1>5, <1>6, AccentSettles DEF Shared
<1>8. /\ OptionalDarkMode(content) = {content["dark_mode"]}
      /\ Get(content, "dark_mode") \subseteq {""}
           <=> Get(c, "dark_mode") \subseteq {""}
  BY <1>5, <1>6, DarkModeSettles DEF Shared
<1>9. Own(content)["compare_at_price"] = {content["compare_at_price"]}
  BY <1>5, <1>6, PriceSettles DEF Get
<1>10. Own(content)["note"] = {{}}
  BY <1>6 DEF OptionalText, Optional, Get, Absent, Shared
<1>11. /\ DOMAIN fields = All
       /\ \A f \in All : fields[f] = {again[f]}
  <2>1. DOMAIN Own(content) = {"compare_at_price", "note"}
    OBVIOUS
  <2>2. /\ DOMAIN rest = Shared
        /\ \A f \in Shared : rest[f] = {content[f]}
    <3>1. /\ rest["accent_color"] = OptionalAccentColor(content)
          /\ rest["dark_mode"] = OptionalDarkMode(content)
          /\ DOMAIN rest = {"accent_color", "dark_mode"}
      OBVIOUS
    <3> HIDE DEF rest
    <3> QED
      BY <1>7, <1>8, <3>1 DEF Shared
  <2>3. /\ \A f \in Kept : again[f] = content[f]
        /\ again["note"] = {} /\ All = Kept \union {"note"}
        /\ Kept = {"compare_at_price"} \union Shared
        /\ "note" \notin Shared /\ "compare_at_price" \notin Shared
    BY DEF Shared
  <2> HIDE DEF Own, rest, again, All, Kept
  <2>4. /\ DOMAIN fields = {"compare_at_price", "note"} \union Shared
        /\ \A f \in Shared : fields[f] = rest[f]
        /\ \A f \in {"compare_at_price", "note"} : fields[f] = Own(content)[f]
    BY <2>1, <2>2, <2>3 DEF ++
  <2> QED
    BY <1>9, <1>10, <2>2, <2>3, <2>4
<1>12. OfferPrice(content) = Accepted(fields)
  BY DEF OfferPrice, Content
<1>13. again = [f \in All |-> again[f]] /\ DOMAIN again = All
  OBVIOUS
<1>14. Restrict(again, DOMAIN again \ {"note"}) = content
  BY <1>6 DEF Restrict, Shared
<1> HIDE DEF fields, again
<1>15. Accepted(fields) = {again}
  BY <1>11, <1>13, AcceptedAlone
<1>16. PriceSummary(content) = {content}
  BY <1>12, <1>14, <1>15 DEF PriceSummary
<1>17. LeftToLanding(content) = LeftToLanding(c)
  BY <1>7, <1>8 DEF LeftToLanding
<1> QED
  BY <1>16, <1>17

(* What a validator gives for a raw content is a fixed point of it.         *)
Sound(type, raw) ==
  \A content \in ValidateBlockConfig(type, raw) :
    /\ ValidateBlockConfig(type, content) = {content}
    /\ LeftToLanding(content) = LeftToLanding(raw)

(* Every JSON content is sound, for each of the types there are.            *)
LEMMA JsonIsSound ==
  ASSUME NEW type, NEW raw, Json(type, raw)
  PROVE  Sound(type, raw)
<1>1. CASE type = "announcement_bar"
  <2>1. \A c : ValidateBlockConfig("announcement_bar", c) = AnnouncementBar(c)
    BY DEF ValidateBlockConfig
  <2> QED
    BY <1>1, <2>1, AnnouncementBarSettles DEF Sound
<1>2. CASE type = "cta"
  <2>1. \A c : ValidateBlockConfig("cta", c) = Cta(c)
    BY DEF ValidateBlockConfig
  <2> QED
    BY <1>2, <2>1, CtaSettles DEF Sound
<1>3. CASE type = "video_carousel"
  <2>1. \A c : ValidateBlockConfig("video_carousel", c) = VideoCarousel(c)
    BY DEF ValidateBlockConfig
  <2> QED
    BY <1>3, <2>1, VideoCarouselSettles DEF Sound
<1>4. CASE type = "cod_assurance"
  <2>1. \A c : ValidateBlockConfig("cod_assurance", c) = CodAssurance(c)
    BY DEF ValidateBlockConfig
  <2> QED
    BY <1>4, <2>1, CodAssuranceSettles DEF Sound
<1>5. CASE type = "offers_price"
  <2>1. \A c : ValidateBlockConfig("offers_price", c) = OffersPrice(c)
    BY DEF ValidateBlockConfig
  <2> QED
    BY <1>5, <2>1, OffersPriceSettles DEF Sound
<1>6. CASE type = "store_trust"
  <2>1. \A c : ValidateBlockConfig("store_trust", c) = StoreTrust(c)
    BY DEF ValidateBlockConfig
  <2> QED
    BY <1>6, <2>1, StoreTrustSettles DEF Sound
<1>7. CASE type = "purchase_benefits"
  <2>1. \A c : ValidateBlockConfig("purchase_benefits", c) = PurchaseBenefits(c)
    BY DEF ValidateBlockConfig
  <2> QED
    BY <1>7, <2>1, PurchaseBenefitsSettles DEF Sound
<1>8. CASE type = "spacer"
  <2>1. \A c : ValidateBlockConfig("spacer", c) = Spacer(c)
    BY DEF ValidateBlockConfig
  <2> QED
    BY <1>8, <2>1, SpacerSettles DEF Sound
<1>9. CASE type = "benefits"
  <2>1. \A c : ValidateBlockConfig("benefits", c) = Benefits(c)
    BY DEF ValidateBlockConfig
  <2> QED
    BY <1>9, <2>1, BenefitsSettles DEF Sound
<1>10. CASE type = "offer_price"
  <2>1. \A c : ValidateBlockConfig("offer_price", c) = OfferPrice(c)
    BY DEF ValidateBlockConfig
  <2> QED
    BY <1>10, <2>1, OfferPriceSettles DEF Sound
<1>11. CASE type = "price_summary"
  <2>1. \A c : ValidateBlockConfig("price_summary", c) = PriceSummary(c)
    BY DEF ValidateBlockConfig
  <2> QED
    BY <1>11, <2>1, PriceSummarySettles DEF Sound
<1>12. CASE type = "included_benefits"
  <2>1. \A c : ValidateBlockConfig("included_benefits", c) = IncludedBenefits(c)
    BY DEF ValidateBlockConfig
  <2> QED
    BY <1>12, <2>1, IncludedBenefitsSettles DEF Sound
<1>13. CASE type = "reviews"
  <2>1. \A c : ValidateBlockConfig("reviews", c) = Reviews(c)
    BY DEF ValidateBlockConfig
  <2> QED
    BY <1>13, <2>1, ReviewsSettles DEF Sound
<1>14. CASE type = "faq"
  <2>1. \A c : ValidateBlockConfig("faq", c) = Faq(c)
    BY DEF ValidateBlockConfig
  <2> QED
    BY <1>14, <2>1, FaqSettles DEF Sound
<1>15. CASE type = "guarantee"
  <2>1. \A c : ValidateBlockConfig("guarantee", c) = Guarantee(c)
    BY DEF ValidateBlockConfig
  <2> QED
    BY <1>15, <2>1, GuaranteeSettles DEF Sound
<1>16. CASE type = "main_problem"
  <2>1. \A c : ValidateBlockConfig("main_problem", c) = MainProblem(c)
    BY DEF ValidateBlockConfig
  <2> QED
    BY <1>16, <2>1, MainProblemSettles DEF Sound
<1>17. CASE type = "solution_presentation"
  <2>1. \A c : ValidateBlockConfig("solution_presentation", c) = SolutionPresentation(c)
    BY DEF ValidateBlockConfig
  <2> QED
    BY <1>17, <2>1, SolutionPresentationSettles DEF Sound
<1>18. CASE type = "how_it_works"
  <2>1. \A c : ValidateBlockConfig("how_it_works", c) = HowItWorks(c)
    BY DEF ValidateBlockConfig
  <2> QED
    BY <1>18, <2>1, HowItWorksSettles DEF Sound
<1>19. CASE type = "audience"
  <2>1. \A c : ValidateBlockConfig("audience", c) = Audience(c)
    BY DEF ValidateBlockConfig
  <2> QED
    BY <1>19, <2>1, AudienceSettles DEF Sound
<1>20. CASE type = "moment"
  <2>1. \A c : ValidateBlockConfig("moment", c) = Moment(c)
    BY DEF ValidateBlockConfig
  <2> QED
    BY <1>20, <2>1, MomentSettles DEF Sound
<1>21. CASE type \notin {"announcement_bar", "cta", "video_carousel",
                         "cod_assurance", "offers_price", "store_trust",
                         "purchase_benefits", "spacer", "benefits",
                         "offer_price", "price_summary", "included_benefits",
                         "reviews", "faq", "guarantee", "main_problem",
                         "solution_presentation", "how_it_works", "audience",
                         "moment"}
  <2>1. ValidateBlockConfig(type, raw) = {}
    BY <1>21 DEF ValidateBlockConfig
  <2> QED
    BY <2>1 DEF Sound
<1> QED
  BY <1>1, <1>2, <1>3, <1>4, <1>5, <1>6, <1>7, <1>8, <1>9, <1>10, <1>11,
     <1>12, <1>13, <1>14, <1>15, <1>16, <1>17, <1>18, <1>19, <1>20, <1>21

----------------------------------------------------------------------------
(* Numbers and sequences.                                                   *)

(* Every nonempty set of numbers has a least element.                       *)
Less == {p \in Nat \X Nat : p[1] < p[2]}
LEMMA LeastNumber ==
  ASSUME NEW T \in SUBSET Nat, T # {}
  PROVE  \E d \in T : \A e \in T : d <= e
<1>1. IsWellFoundedOn(Less, Nat)
  BY NatLessThanWellFounded DEF OpToRel, Less
<1>2. PICK d \in T : \A e \in T : <<e, d>> \notin Less
  BY <1>1, WFMin
<1>3. ASSUME NEW e \in T PROVE d <= e
  <2>1. d \in Nat /\ e \in Nat
    OBVIOUS
  <2>2. <<e, d>> \in Nat \X Nat /\ <<e, d>>[1] = e /\ <<e, d>>[2] = d
    BY <2>1
  <2>3. ~(e < d)
    BY <1>2, <2>2 DEF Less
  <2> QED
    BY <2>1, <2>3
<1> QED
  BY <1>3

(* Min is a member below the others.                                        *)
LEMMA MinFacts ==
  ASSUME NEW T \in SUBSET Nat, T # {}
  PROVE  Min(T) \in T /\ \A e \in T : Min(T) <= e
BY LeastNumber DEF Min

(* Append as a function.                                                    *)
LEMMA AppendFacts ==
  ASSUME NEW n \in Nat, NEW rows, rows = [i \in 1 .. n |-> rows[i]], NEW x
  PROVE  Append(rows, x) = [i \in 1 .. n + 1 |-> IF i = n + 1 THEN x ELSE rows[i]]
<1> DEFINE T == {rows[i] : i \in 1 .. n} \union {x}
<1>1. rows \in [1 .. n -> T] /\ x \in T
  OBVIOUS
<1>2. DOMAIN rows = 1 .. n
  OBVIOUS
<1> HIDE DEF T
<1>3. rows \in Seq(T) /\ Len(rows) = n
  BY <1>1, <1>2
<1>4. /\ Append(rows, x) \in Seq(T)
      /\ Len(Append(rows, x)) = n + 1
      /\ Append(rows, x)[n + 1] = x
      /\ \A i \in 1 .. n : Append(rows, x)[i] = rows[i]
  BY <1>1, <1>3
<1>5. DOMAIN Append(rows, x) = 1 .. n + 1
  BY <1>4
<1>6. Append(rows, x) = [i \in 1 .. n + 1 |-> Append(rows, x)[i]]
  BY <1>4, <1>5
<1>7. \A i \in 1 .. n + 1 :
        Append(rows, x)[i] = IF i = n + 1 THEN x ELSE rows[i]
  BY <1>4
<1> QED
  BY <1>6, <1>7

----------------------------------------------------------------------------
(* Reading a template, entry by entry.                                      *)

(* One step of the recursion of ParseTemplateBlocks, and the function it    *)
(* defines up to n.                                                         *)
Step(parsed, entry) == UNION {ParseEntry(rows, entry) : rows \in parsed}
Parses(p, entries, n) ==
  p = [m \in 0 .. n |-> IF m = 0 THEN {<<>>} ELSE Step(p[m - 1], entries[m])]

(* The recursive function of ParseTemplateBlocks exists: at the least       *)
(* length without one, the one for the length before it extends.            *)
LEMMA ParseExists ==
  ASSUME NEW entries, NEW n \in Nat
  PROVE  \E p : Parses(p, entries, n)
<1> DEFINE T == {m \in Nat : ~ \E p : Parses(p, entries, m)}
<1> SUFFICES ASSUME T # {} PROVE FALSE
  OBVIOUS
<1>1. PICK d \in T : \A e \in T : d <= e
  BY LeastNumber
<1>2. d # 0
  <2>1. Parses([m \in 0 .. 0 |-> {<<>>}], entries, 0)
    BY DEF Parses
  <2> QED
    BY <2>1
<1>3. d - 1 \in Nat /\ d - 1 \notin T /\ d \in Nat
  BY <1>1, <1>2
<1>4. PICK p : Parses(p, entries, d - 1)
  BY <1>3
<1> DEFINE q == [m \in 0 .. d |-> IF m = d THEN Step(p[d - 1], entries[d]) ELSE p[m]]
<1>5. \A m \in 0 .. d - 1 :
        p[m] = IF m = 0 THEN {<<>>} ELSE Step(p[m - 1], entries[m])
  BY <1>4 DEF Parses
<1>6. \A m \in 0 .. d :
        q[m] = IF m = 0 THEN {<<>>} ELSE Step(q[m - 1], entries[m])
  <2> SUFFICES ASSUME NEW m \in 0 .. d
               PROVE  q[m] = IF m = 0 THEN {<<>>} ELSE Step(q[m - 1], entries[m])
    OBVIOUS
  <2>1. CASE m = d
    <3>1. d - 1 \in 0 .. d /\ d - 1 # d
      BY <1>3
    <3>2. q[d - 1] = p[d - 1]
      BY <3>1
    <3> QED
      BY <1>2, <2>1, <3>2
  <2>2. CASE m # d
    <3>1. m \in 0 .. d - 1 /\ (m # 0 => m - 1 \in 0 .. d /\ m - 1 # d)
      BY <1>3, <2>2
    <3>2. q[m] = p[m] /\ (m # 0 => q[m - 1] = p[m - 1])
      BY <2>2, <3>1
    <3> HIDE DEF q
    <3> QED
      BY <1>5, <3>1, <3>2
  <2> QED
    BY <2>1, <2>2
<1>7. q = [m \in 0 .. d |-> q[m]]
  OBVIOUS
<1> HIDE DEF q
<1>8. Parses(q, entries, d)
  BY <1>6, <1>7 DEF Parses
<1> QED
  BY <1>8

(* So reading a template satisfies its recursion.                           *)
LEMMA ParseFacts ==
  ASSUME NEW entries, Sequence(entries)
  PROVE  \E p : /\ p[0] = {<<>>}
                /\ \A m \in 1 .. Len(entries) : p[m] = Step(p[m - 1], entries[m])
                /\ ParseTemplateBlocks(entries)
                     = IF Len(entries) > MaxBlocksPerLanding THEN {}
                       ELSE p[Len(entries)]
<1> DEFINE n == Len(entries)
           p == CHOOSE x : Parses(x, entries, n)
<1>1. n \in Nat
  BY DEF Sequence
<1>2. Parses(p, entries, n)
  <2> HIDE DEF n
  <2> QED
    BY <1>1, ParseExists
<1>3. ParseTemplateBlocks(entries)
        = IF n > MaxBlocksPerLanding THEN {} ELSE p[n]
  BY DEF ParseTemplateBlocks, Parses, Step
<1> HIDE DEF p
<1>4. \A m \in 0 .. n : p[m] = IF m = 0 THEN {<<>>} ELSE Step(p[m - 1], entries[m])
  BY <1>2 DEF Parses
<1>5. p[0] = {<<>>} /\ \A m \in 1 .. n : p[m] = Step(p[m - 1], entries[m])
  BY <1>1, <1>4
<1> QED
  BY <1>3, <1>5

(* What every stored component is, and every entry of a template.           *)
Shape(row) ==
  row = [type |-> row.type, slot |-> row.slot, order |-> row.order,
         config |-> row.config, enabled |-> row.enabled, left |-> row.left]
Stored(row) ==
  /\ Shape(row)
  /\ row.slot \in 0 .. MaxSlotIndex
  /\ row.order \in 0 .. MaxOrderIndex
  /\ Settled(row)
Readable(entry) == entry.order \in Int /\ Sound(entry.type, entry.config)
Legible(entries) ==
  Sequence(entries) /\ \A i \in 1 .. Len(entries) : Readable(entries[i])

(* So many components, each at a place of its own.                          *)
Apart(rows, n) ==
  /\ rows = [i \in 1 .. n |-> rows[i]]
  /\ \A i \in 1 .. n : Stored(rows[i])
  /\ \A i, j \in 1 .. n :
       rows[i].slot = rows[j].slot /\ rows[i].order = rows[j].order => i = j

(* ParseEntry in parts: the order an entry asks for, the free orders from   *)
(* there, and the component made of it.                                     *)
Wanted(entry) ==
  IF entry.order < 0 THEN 0
  ELSE IF entry.order > MaxOrderIndex THEN MaxOrderIndex ELSE entry.order
Room(rows, slot, entry) ==
  FreeOrders(ToSet(rows), slot) \cap Wanted(entry) .. MaxOrderIndex
Row(entry, slot, order, config) ==
  [type |-> entry.type, slot |-> slot, config |-> config, order |-> order,
   enabled |-> entry.enabled, left |-> LeftToLanding(entry.config)]

(* The slot an entry names if it has room, and what reading it there gives. *)
RoomySlots(rows, entry) ==
  {slot \in ValidateSlotIndex(entry.slot) : Room(rows, slot, entry) # {}}
Extended(rows, entry, configs, slots) ==
  {Append(rows, Row(entry, slot, Min(Room(rows, slot, entry)), config)) :
     config \in configs, slot \in slots}

(* Reading an entry: a sound content, at the first place that has room.     *)
LEMMA ParseEntryIs ==
  ASSUME NEW rows, NEW entry
  PROVE  ParseEntry(rows, entry) =
           Extended(rows, entry, ValidateBlockConfig(entry.type, entry.config),
                    RoomySlots(rows, entry))
BY DEF ParseEntry, Extended, RoomySlots, Row, Room, Wanted

(* The fields of the component that an entry gives.                         *)
LEMMA RowFacts ==
  ASSUME NEW entry, NEW slot, NEW order, NEW config
  PROVE  /\ Shape(Row(entry, slot, order, config))
         /\ Row(entry, slot, order, config).type = entry.type
         /\ Row(entry, slot, order, config).slot = slot
         /\ Row(entry, slot, order, config).order = order
         /\ Row(entry, slot, order, config).config = config
         /\ Row(entry, slot, order, config).left = LeftToLanding(entry.config)
BY DEF Row, Shape

(* An entry that is read takes a place of its own.                          *)
LEMMA ParseEntryApart ==
  ASSUME NEW n \in Nat, NEW rows, Apart(rows, n), NEW entry, Readable(entry),
         NEW new \in ParseEntry(rows, entry)
  PROVE  Apart(new, n + 1)
<1>1. PICK config \in ValidateBlockConfig(entry.type, entry.config),
           slot \in ValidateSlotIndex(entry.slot) :
        /\ Room(rows, slot, entry) # {}
        /\ new = Append(rows, Row(entry, slot, Min(Room(rows, slot, entry)), config))
  BY ParseEntryIs DEF Extended, RoomySlots
<1> DEFINE order == Min(Room(rows, slot, entry))
           row == Row(entry, slot, order, config)
<1>2. order \in Room(rows, slot, entry)
  <2>1. Room(rows, slot, entry) \in SUBSET Nat
    BY DEF Room, FreeOrders, MaxOrderIndex
  <2> QED
    BY <1>1, <2>1, MinFacts
<1>3. slot \in 0 .. MaxSlotIndex
  BY DEF ValidateSlotIndex
<1>4. /\ order \in 0 .. MaxOrderIndex
      /\ \A i \in 1 .. n : ~(rows[i].slot = slot /\ rows[i].order = order)
  <2>1. DOMAIN rows = 1 .. n
    BY DEF Apart
  <2> HIDE DEF order
  <2>2. order \in FreeOrders(ToSet(rows), slot)
    BY <1>2 DEF Room
  <2>3. \A i \in 1 .. n : rows[i] \in ToSet(rows)
    BY <2>1 DEF ToSet
  <2> QED
    BY <2>2, <2>3 DEF FreeOrders
<1> HIDE DEF order
<1>5. /\ Shape(row) /\ row.type = entry.type /\ row.slot = slot
      /\ row.order = order /\ row.config = config
      /\ row.left = LeftToLanding(entry.config)
  BY RowFacts
<1> HIDE DEF row
<1>6. Stored(row)
  BY <1>3, <1>4, <1>5 DEF Stored, Settled, Readable, Sound
<1>7. new = [i \in 1 .. n + 1 |-> IF i = n + 1 THEN row ELSE rows[i]]
  <2>1. new = Append(rows, row)
    BY <1>1 DEF row, order
  <2> QED
    BY <2>1, AppendFacts DEF Apart
<1>8. /\ new[n + 1] = row
      /\ \A i \in 1 .. n : new[i] = rows[i]
      /\ new = [i \in 1 .. n + 1 |-> new[i]]
  BY <1>7
<1>9. \A i \in 1 .. n + 1 : i = n + 1 \/ i \in 1 .. n
  OBVIOUS
<1>10. \A i \in 1 .. n + 1 : Stored(new[i])
  BY <1>6, <1>8, <1>9 DEF Apart
<1>11. ASSUME NEW i \in 1 .. n + 1, NEW j \in 1 .. n + 1,
              new[i].slot = new[j].slot, new[i].order = new[j].order
       PROVE  i = j
  BY ZenonT(60), <1>4, <1>5, <1>8, <1>9, <1>11 DEF Apart
<1> QED
  BY <1>8, <1>10, <1>11 DEF Apart

(* All that is read from a template, however old, is sound and apart.       *)
LEMMA ParsedApart ==
  ASSUME NEW entries, Legible(entries), NEW rows \in ParseTemplateBlocks(entries)
  PROVE  /\ Apart(rows, Len(entries))
         /\ Len(entries) \in Nat /\ Len(entries) <= MaxBlocksPerLanding
<1> DEFINE n == Len(entries)
<1>1. n \in Nat
  BY DEF Legible, Sequence
<1>2. PICK p : /\ p[0] = {<<>>}
               /\ \A m \in 1 .. n : p[m] = Step(p[m - 1], entries[m])
               /\ ParseTemplateBlocks(entries)
                    = IF n > MaxBlocksPerLanding THEN {} ELSE p[n]
  BY ParseFacts DEF Legible
<1>3. n <= MaxBlocksPerLanding /\ rows \in p[n]
  BY <1>1, <1>2 DEF MaxBlocksPerLanding
<1>4. \A i \in 1 .. n : Readable(entries[i])
  BY DEF Legible
<1> HIDE DEF n
<1> DEFINE Bad == {m \in 0 .. n : ~ \A r \in p[m] : Apart(r, m)}
<1>5. Bad = {}
  <2> SUFFICES ASSUME Bad # {} PROVE FALSE
    OBVIOUS
  <2>1. Bad \in SUBSET Nat
    BY <1>1
  <2>2. PICK d \in Bad : \A e \in Bad : d <= e
    BY <2>1, LeastNumber
  <2>3. d # 0
    <3>1. Apart(<<>>, 0)
      BY DEF Apart
    <3> QED
      BY <1>2, <3>1
  <2>4. /\ d \in 1 .. n /\ d - 1 \in Nat /\ d - 1 \in 0 .. n
        /\ d - 1 \notin Bad /\ d - 1 + 1 = d
    BY <1>1, <2>2, <2>3
  <2>5. \A r \in p[d - 1] : Apart(r, d - 1)
    BY <2>4
  <2>6. ASSUME NEW r \in p[d] PROVE Apart(r, d)
    <3>1. PICK before \in p[d - 1] : r \in ParseEntry(before, entries[d])
      BY <1>2, <2>4 DEF Step
    <3>2. Apart(r, d - 1 + 1)
      BY <1>4, <2>4, <2>5, <3>1, ParseEntryApart
    <3> QED
      BY <2>4, <3>2
  <2> QED
    BY <2>6
<1>6. n \in 0 .. n
  BY <1>1
<1> QED
  BY <1>1, <1>3, <1>5, <1>6 DEF n

----------------------------------------------------------------------------
(* Saving a template.                                                       *)

(* A finite set of integers, sorted, has each element once.                 *)
LEMMA SortedFacts ==
  ASSUME NEW S \in SUBSET Int, IsFiniteSet(S)
  PROVE  /\ Sorted(S) \in Seq(S)
         /\ IsInjective(Sorted(S))
         /\ ToSet(Sorted(S)) = S
         /\ Sorted(S) = <<>> => S = {}
<1> DEFINE n == Cardinality(S)
           UpTo(x) == {y \in S : y <= x}
           r == [x \in S |-> Cardinality(UpTo(x))]
           At(i) == CHOOSE x \in S : Cardinality({y \in S : y <= x}) = i
<1>1. n \in Nat
  BY FS_CardinalityType
<1>2. ASSUME NEW x \in S
      PROVE  /\ IsFiniteSet(UpTo(x)) /\ Cardinality(UpTo(x)) \in Nat
             /\ Cardinality(UpTo(x)) <= n /\ Cardinality(UpTo(x)) # 0
  <2>1. UpTo(x) \in SUBSET S /\ x \in UpTo(x)
    OBVIOUS
  <2> HIDE DEF UpTo
  <2>2. IsFiniteSet(UpTo(x)) /\ Cardinality(UpTo(x)) <= Cardinality(S)
    BY <2>1, FS_Subset
  <2>3. Cardinality(UpTo(x)) \in Nat
    BY <2>2, FS_CardinalityType
  <2>4. Cardinality(UpTo(x)) # 0
    BY <2>1, <2>2, FS_EmptySet
  <2> QED
    BY <2>2, <2>3, <2>4
<1>3. ASSUME NEW x \in S, NEW y \in S, x < y
      PROVE  Cardinality(UpTo(x)) < Cardinality(UpTo(y))
  <2>0. x \in Int /\ y \in Int /\ \A z \in S : z \in Int
    OBVIOUS
  <2>1. /\ \A z \in S : z <= x => z <= y
        /\ y <= y /\ ~(y <= x)
    BY <1>3, <2>0
  <2>2. UpTo(x) \in SUBSET UpTo(y) /\ y \in UpTo(y) /\ y \notin UpTo(x)
    BY <2>1
  <2> HIDE DEF UpTo
  <2>3. /\ Cardinality(UpTo(x)) <= Cardinality(UpTo(y))
        /\ Cardinality(UpTo(y)) # Cardinality(UpTo(x))
    BY <1>2, <2>2, FS_Subset
  <2> QED
    BY <1>2, <2>3
<1>4. r \in [S -> 1 .. n]
  <2> SUFFICES ASSUME NEW x \in S PROVE Cardinality(UpTo(x)) \in 1 .. n
    OBVIOUS
  <2> HIDE DEF UpTo, n
  <2> QED
    BY <1>1, <1>2
<1>5. \A x, y \in S : r[x] = r[y] => x = y
  <2> SUFFICES ASSUME NEW x \in S, NEW y \in S, r[x] = r[y], x # y PROVE FALSE
    OBVIOUS
  <2>1. x < y \/ y < x
    OBVIOUS
  <2> HIDE DEF UpTo
  <2>2. r[x] = Cardinality(UpTo(x)) /\ r[y] = Cardinality(UpTo(y))
    OBVIOUS
  <2>3. r[x] \in Int /\ r[y] \in Int
    BY <1>2, <2>2
  <2> HIDE DEF r
  <2>4. r[x] < r[y] \/ r[y] < r[x]
    BY <1>3, <2>1, <2>2
  <2> QED
    BY <2>3, <2>4
<1>6. IsFiniteSet(1 .. n) /\ Cardinality(1 .. n) = n
  <2> HIDE DEF n
  <2> QED
    BY <1>1, FS_Interval
<1>7. r \in Surjection(S, 1 .. n)
  <2>1. r \in Injection(S, 1 .. n)
    <3> HIDE DEF r
    <3> QED
      BY <1>4, <1>5 DEF Injection, IsInjective
  <2> HIDE DEF r
  <2> QED
    BY <1>6, <2>1, FS_Injection
<1>8. ASSUME NEW i \in 1 .. n
      PROVE  At(i) \in S /\ r[At(i)] = i
  <2>1. \E x \in S : r[x] = i
    <3> HIDE DEF r
    <3> QED
      BY <1>7 DEF Surjection
  <2>2. \E x \in S : Cardinality({y \in S : y <= x}) = i
    BY <2>1
  <2>3. At(i) \in S /\ Cardinality({y \in S : y <= At(i)}) = i
    BY <2>2
  <2> HIDE DEF At
  <2> QED
    BY <2>3
<1>9. /\ DOMAIN Sorted(S) = 1 .. n
      /\ \A i \in 1 .. n : Sorted(S)[i] = At(i)
  BY DEF Sorted
<1>10. \A x \in S : x = At(r[x])
  <2> HIDE DEF r, At
  <2> QED
    BY <1>4, <1>5, <1>8
<1>11. Sorted(S) \in [1 .. n -> S]
  <2>1. \A i \in 1 .. n : At(i) \in S
    <3> HIDE DEF At
    <3> QED
      BY <1>8
  <2> QED
    BY <2>1 DEF Sorted
<1> HIDE DEF At, r, n
<1>12. Sorted(S) \in Seq(S)
  BY <1>1, <1>11
<1>13. IsInjective(Sorted(S))
  BY <1>8, <1>9 DEF IsInjective
<1>14. ToSet(Sorted(S)) = S
  <2>1. ASSUME NEW x \in S PROVE \E i \in DOMAIN Sorted(S) : Sorted(S)[i] = x
    <3>1. r[x] \in 1 .. n /\ x = At(r[x])
      BY <1>4, <1>10
    <3> QED
      BY <1>9, <3>1
  <2>2. \A i \in DOMAIN Sorted(S) : Sorted(S)[i] \in S
    BY <1>8, <1>9
  <2> QED
    BY <2>1, <2>2 DEF ToSet
<1>15. Sorted(S) = <<>> => S = {}
  BY <1>14 DEF ToSet
<1> QED
  BY <1>12, <1>13, <1>14, <1>15

(* A landing: components with places of their own, no more than fit.        *)
Kept(rows) ==
  /\ IsFiniteSet(rows) /\ Cardinality(rows) <= MaxBlocksPerLanding
  /\ \A row \in rows : Stored(row)
  /\ \A r, s \in rows : r.slot = s.slot /\ r.order = s.order => r = s

(* The fields of a template's entry.                                        *)
EntryFields == {"type", "slot", "order", "config", "enabled"}

(* Ranks order places: equal ranks are equal places.                        *)
LEMMA RanksApart ==
  ASSUME NEW r, NEW s, Stored(r), Stored(s), Rank(r) = Rank(s)
  PROVE  r.slot = s.slot /\ r.order = s.order
<1>1. r.slot \in Int /\ s.slot \in Int /\ r.order \in 0 .. 9 /\ s.order \in 0 .. 9
  BY DEF Stored, MaxOrderIndex, MaxSlotIndex
<1>2. 10 * r.slot + r.order = 10 * s.slot + s.order
  BY DEF Rank, MaxOrderIndex
<1>3. PICK a \in Int, c \in Int, b \in 0 .. 9, d \in 0 .. 9 :
        a = r.slot /\ c = s.slot /\ b = r.order /\ d = s.order
  BY <1>1
<1>4. 10 * a + b = 10 * c + d
  BY <1>2, <1>3
<1>5. a = c /\ b = d
  BY <1>4
<1> QED
  BY <1>3, <1>5

(* A snapshot lists every component once.                                   *)
Lists(row, rows) ==
  LET entries == SnapshotBlocks(rows)
      n == Len(entries)
  IN /\ Sequence(entries) /\ n <= MaxBlocksPerLanding
     /\ rows = {row[i] : i \in 1 .. n}
     /\ \A i, j \in 1 .. n : row[i] = row[j] => i = j
     /\ \A i \in 1 .. n : entries[i] = Restrict(row[i], EntryFields)

(* The components of a landing, in the order of their ranks, are such a     *)
(* list.                                                                    *)
LEMMA SnapshotLists ==
  ASSUME NEW rows, Kept(rows)
  PROVE  \E row : Lists(row, rows)
<1> DEFINE S == {Rank(r) : r \in rows}
           ranks == Sorted(S)
           n == Len(ranks)
           row == [i \in 1 .. n |-> CHOOSE r \in rows : Rank(r) = ranks[i]]
           entries == SnapshotBlocks(rows)
<1>1. S \in SUBSET Int
  BY DEF Kept, Stored, Rank, MaxOrderIndex, MaxSlotIndex
<1>2. IsFiniteSet(S) /\ Cardinality(S) = Cardinality(rows)
  <2> DEFINE rank == [r \in rows |-> Rank(r)]
  <2>1. \A r, s \in rows : Rank(r) = Rank(s) => r = s
    BY RanksApart DEF Kept
  <2>2. rank \in Bijection(rows, S)
    BY <2>1 DEF Bijection, Injection, Surjection, IsInjective
  <2> HIDE DEF rank, S
  <2>3. ExistsBijection(rows, S)
    BY <2>2 DEF ExistsBijection
  <2> QED
    BY <2>3, FS_Bijection DEF Kept
<1> HIDE DEF S
<1>3. /\ ranks \in Seq(S) /\ IsInjective(ranks) /\ ToSet(ranks) = S
  BY <1>1, <1>2, SortedFacts
<1> HIDE DEF ranks
<1>4. n \in Nat /\ DOMAIN ranks = 1 .. n
  BY <1>3
<1>5. n = Cardinality(S)
  <2>1. ranks \in Bijection(1 .. n, S)
    BY <1>3, <1>4 DEF Bijection, Injection, Surjection, IsInjective, ToSet
  <2>2. ExistsBijection(1 .. n, S)
    BY <2>1 DEF ExistsBijection
  <2> QED
    BY <1>4, <2>2, FS_CountingElements
<1>6. \A i \in 1 .. n : row[i] \in rows /\ Rank(row[i]) = ranks[i]
  <2> SUFFICES ASSUME NEW i \in 1 .. n
               PROVE  row[i] \in rows /\ Rank(row[i]) = ranks[i]
    OBVIOUS
  <2>1. ranks[i] \in S
    BY <1>3, <1>4 DEF ToSet
  <2>2. \E r \in rows : Rank(r) = ranks[i]
    BY <2>1 DEF S
  <2> QED
    BY <2>2
<1>7. entries = [i \in 1 .. n |-> Restrict(row[i], EntryFields)]
  BY <1>4 DEF SnapshotBlocks, EntryFields, ranks, S
<1> HIDE DEF entries, row
<1>8. \A i, j \in 1 .. n : row[i] = row[j] => i = j
  BY <1>3, <1>4, <1>6 DEF IsInjective
<1>9. rows = {row[i] : i \in 1 .. n}
  <2> SUFFICES ASSUME NEW r \in rows PROVE \E i \in 1 .. n : r = row[i]
    BY <1>6
  <2>1. PICK i \in 1 .. n : ranks[i] = Rank(r)
    BY <1>3, <1>4 DEF S, ToSet
  <2> QED
    BY <1>6, <2>1, RanksApart DEF Kept
<1>10. Sequence(entries) /\ Len(entries) = n
  <2>1. DOMAIN entries = 1 .. n /\ entries \in [1 .. n -> {entries[i] : i \in 1 .. n}]
    BY <1>7
  <2>2. entries \in Seq({entries[i] : i \in 1 .. n})
    BY <1>4, <2>1
  <2> QED
    BY <1>4, <2>1, <2>2 DEF Sequence
<1>11. n <= MaxBlocksPerLanding
  BY <1>2, <1>5 DEF Kept
<1>12. \A i \in 1 .. n : entries[i] = Restrict(row[i], EntryFields)
  BY <1>7
<1>13. Lists(row, rows)
  BY <1>8, <1>9, <1>10, <1>11, <1>12 DEF Lists, entries
<1> QED
  BY <1>13

(* An entry saved from a component gives that component again.              *)
LEMMA EntryGivesRow ==
  ASSUME NEW m \in Nat, NEW before, before = [i \in 1 .. m |-> before[i]],
         NEW row, Stored(row),
         \A i \in 1 .. m :
           ~(before[i].slot = row.slot /\ before[i].order = row.order)
  PROVE  ParseEntry(before, Restrict(row, EntryFields)) = {Append(before, row)}
<1> DEFINE entry == Restrict(row, EntryFields)
           room == Room(before, row.slot, entry)
<1>1. /\ entry.type = row.type /\ entry.slot = row.slot
      /\ entry.order = row.order /\ entry.config = row.config
      /\ entry.enabled = row.enabled
  BY DEF Restrict, EntryFields
<1> HIDE DEF entry
<1>2. /\ ValidateBlockConfig(entry.type, entry.config) = {row.config}
      /\ LeftToLanding(entry.config) = row.left
  BY <1>1 DEF Stored, Settled
<1>3. ValidateSlotIndex(entry.slot) = {row.slot}
  BY <1>1 DEF Stored, ValidateSlotIndex
<1>4. Wanted(entry) = row.order
  BY <1>1 DEF Stored, Wanted, MaxOrderIndex
<1>5. room \in SUBSET Nat /\ row.order \in room /\ \A o \in room : row.order <= o
  <2>1. DOMAIN before = 1 .. m
    OBVIOUS
  <2>2. \A r \in ToSet(before) : ~(r.slot = row.slot /\ r.order = row.order)
    BY <2>1 DEF ToSet
  <2>3. row.order \in FreeOrders(ToSet(before), row.slot)
    BY <2>2 DEF FreeOrders, Stored
  <2>4. row.order \in row.order .. MaxOrderIndex
    BY DEF Stored, MaxOrderIndex
  <2>5. room = FreeOrders(ToSet(before), row.slot) \cap row.order .. MaxOrderIndex
    BY <1>4 DEF Room
  <2>6. \A o \in room : o \in Nat /\ row.order <= o
    BY <2>5 DEF FreeOrders, MaxOrderIndex, Stored
  <2> QED
    BY <2>3, <2>4, <2>5, <2>6
<1> HIDE DEF room
<1>6. Min(room) = row.order
  <2>1. Min(room) \in room /\ Min(room) <= row.order
    BY <1>5, MinFacts
  <2> QED
    BY <1>5, <2>1
<1>7. Row(entry, row.slot, row.order, row.config) = row
  BY <1>1, <1>2 DEF Row, Stored, Shape
<1>8. RoomySlots(before, entry) = {row.slot}
  BY <1>3, <1>5 DEF RoomySlots, room
<1>9. ParseEntry(before, entry)
        = Extended(before, entry, {row.config}, {row.slot})
  BY <1>2, <1>8, ParseEntryIs
<1>10. Extended(before, entry, {row.config}, {row.slot}) = {Append(before, row)}
  <2>1. Row(entry, row.slot, Min(Room(before, row.slot, entry)), row.config) = row
    BY <1>6, <1>7 DEF room
  <2>2. ASSUME NEW new \in Extended(before, entry, {row.config}, {row.slot})
        PROVE  new = Append(before, row)
    <3>1. PICK config \in {row.config}, slot \in {row.slot} :
            new = Append(before, Row(entry, slot, Min(Room(before, slot, entry)), config))
      BY DEF Extended
    <3> QED
      BY <2>1, <3>1
  <2>3. Append(before, row) \in Extended(before, entry, {row.config}, {row.slot})
    BY <2>1 DEF Extended
  <2> QED
    BY <2>2, <2>3
<1> QED
  BY <1>9, <1>10 DEF entry

(* Reading a snapshot back gives the landing it was taken from, and nothing *)
(* else; and the snapshot can be read.                                      *)
LEMMA SnapshotGivesBack ==
  ASSUME NEW rows, Kept(rows)
  PROVE  /\ Legible(SnapshotBlocks(rows))
         /\ {ToSet(r) : r \in ParseTemplateBlocks(SnapshotBlocks(rows))} = {rows}
<1> DEFINE entries == SnapshotBlocks(rows)
           n == Len(entries)
<1>1. PICK row : Lists(row, rows)
  BY SnapshotLists
<1>2. /\ Sequence(entries) /\ n <= MaxBlocksPerLanding
      /\ rows = {row[i] : i \in 1 .. n}
      /\ \A i, j \in 1 .. n : row[i] = row[j] => i = j
      /\ \A i \in 1 .. n : entries[i] = Restrict(row[i], EntryFields)
  BY <1>1 DEF Lists
<1> HIDE DEF entries
<1>3. n \in Nat
  BY <1>2 DEF Sequence
<1>4. \A i \in 1 .. n : Stored(row[i])
  BY <1>2 DEF Kept
<1>5. \A i, j \in 1 .. n :
        row[i].slot = row[j].slot /\ row[i].order = row[j].order => i = j
  BY <1>2 DEF Kept
<1>6. Legible(entries)
  <2>1. ASSUME NEW i \in 1 .. n PROVE Readable(entries[i])
    <3>0. entries[i] = Restrict(row[i], EntryFields)
      BY <1>2
    <3>1. /\ entries[i].type = row[i].type /\ entries[i].order = row[i].order
          /\ entries[i].config = row[i].config
      BY <3>0 DEF Restrict, EntryFields
    <3>2. Stored(row[i])
      BY <1>4
    <3> QED
      BY <3>1, <3>2 DEF Readable, Sound, Stored, Settled
  <2> QED
    BY <1>2, <2>1 DEF Legible
<1>7. PICK p : /\ p[0] = {<<>>}
               /\ \A m \in 1 .. n : p[m] = Step(p[m - 1], entries[m])
               /\ ParseTemplateBlocks(entries)
                    = IF n > MaxBlocksPerLanding THEN {} ELSE p[n]
  BY <1>2, ParseFacts
<1> HIDE DEF n
<1> DEFINE Upto(m) == [i \in 1 .. m |-> row[i]]
           Bad == {m \in 0 .. n : p[m] # {Upto(m)}}
<1>8. Bad = {}
  <2> SUFFICES ASSUME Bad # {} PROVE FALSE
    OBVIOUS
  <2>1. Bad \in SUBSET Nat
    BY <1>3
  <2>2. PICK d \in Bad : \A e \in Bad : d <= e
    BY <2>1, LeastNumber
  <2>3. d # 0
    <3>1. Upto(0) = <<>>
      OBVIOUS
    <3> QED
      BY <1>7, <3>1
  <2>4. /\ d \in 1 .. n /\ d - 1 \in Nat /\ d - 1 \in 0 .. n /\ d - 1 \notin Bad
        /\ d - 1 + 1 = d /\ d \in Nat
    BY <1>3, <2>2, <2>3
  <2>5. p[d - 1] = {Upto(d - 1)}
    BY <2>4
  <2>6. ParseEntry(Upto(d - 1), entries[d]) = {Append(Upto(d - 1), row[d])}
    <3>1. \A i \in 1 .. d - 1 : i \in 1 .. n /\ i # d
      BY <1>3, <2>4
    <3>2. \A i \in 1 .. d - 1 : Upto(d - 1)[i] = row[i]
      OBVIOUS
    <3>3. Upto(d - 1) = [i \in 1 .. d - 1 |-> Upto(d - 1)[i]]
      OBVIOUS
    <3> HIDE DEF Upto
    <3>4. \A i \in 1 .. d - 1 : ~(/\ Upto(d - 1)[i].slot = row[d].slot
                                  /\ Upto(d - 1)[i].order = row[d].order)
      BY <1>5, <2>4, <3>1, <3>2
    <3>5. Stored(row[d]) /\ entries[d] = Restrict(row[d], EntryFields)
      BY <1>2, <1>4, <2>4 DEF n
    <3> QED
      BY SMTT(30), <2>4, <3>3, <3>4, <3>5, EntryGivesRow
  <2>7. Append(Upto(d - 1), row[d]) = Upto(d)
    <3>1. Upto(d - 1) = [i \in 1 .. d - 1 |-> Upto(d - 1)[i]]
      OBVIOUS
    <3>2. \A i \in 1 .. d : (IF i = d THEN row[d] ELSE Upto(d - 1)[i]) = row[i]
      BY <2>4
    <3>3. Append(Upto(d - 1), row[d]) =
            [i \in 1 .. d - 1 + 1 |-> IF i = d - 1 + 1 THEN row[d] ELSE Upto(d - 1)[i]]
      <4> HIDE DEF Upto
      <4> QED
        BY <2>4, <3>1, AppendFacts
    <3> QED
      BY <2>4, <3>2, <3>3
  <2> HIDE DEF Upto
  <2>8. p[d] = {Upto(d)}
    <3>1. p[d] = Step({Upto(d - 1)}, entries[d])
      BY <1>7, <2>4, <2>5
    <3>2. Step({Upto(d - 1)}, entries[d]) = ParseEntry(Upto(d - 1), entries[d])
      BY DEF Step
    <3> QED
      BY <2>6, <2>7, <3>1, <3>2
  <2> QED
    BY <2>8
<1>9. p[n] = {Upto(n)}
  <2> HIDE DEF Upto
  <2> QED
    BY <1>3, <1>8
<1>10. ToSet(Upto(n)) = rows
  BY <1>2 DEF ToSet, n
<1> HIDE DEF Upto
<1>11. ParseTemplateBlocks(entries) = {Upto(n)}
  BY <1>2, <1>3, <1>7, <1>9 DEF n, MaxBlocksPerLanding
<1> QED
  BY <1>6, <1>10, <1>11 DEF entries

----------------------------------------------------------------------------
(* The landing, the template and the page.                                  *)

(* The inductive invariant.                                                 *)
IInv ==
  /\ Kept(landing)
  /\ \A entries \in template : Legible(entries)
  /\ \A i \in DOMAIN page : Settled(page[i])

(* The order given to a new component is free in its slot.                  *)
LEMMA FreeOrder ==
  ASSUME NEW rows, NEW slot, FreeOrders(rows, slot) # {}
  PROVE  /\ Min(FreeOrders(rows, slot)) \in 0 .. MaxOrderIndex
         /\ \A r \in rows :
              ~(r.slot = slot /\ r.order = Min(FreeOrders(rows, slot)))
<1>1. FreeOrders(rows, slot) \in SUBSET Nat
  BY DEF FreeOrders, MaxOrderIndex
<1>2. Min(FreeOrders(rows, slot)) \in FreeOrders(rows, slot)
  BY <1>1, MinFacts
<1> DEFINE order == Min(FreeOrders(rows, slot))
<1> HIDE DEF order
<1>3. order \in FreeOrders(rows, slot)
  BY <1>2 DEF order
<1>4. order \in 0 .. MaxOrderIndex /\ \A r \in rows : ~(r.slot = slot /\ r.order = order)
  BY <1>3 DEF FreeOrders
<1> QED
  BY <1>4 DEF order

(* A sound component at a free place can be added while there is room.      *)
LEMMA KeptAdd ==
  ASSUME NEW rows, Kept(rows), Cardinality(rows) < MaxBlocksPerLanding,
         NEW row, Stored(row),
         \A r \in rows : ~(r.slot = row.slot /\ r.order = row.order)
  PROVE  Kept(rows \union {row})
<1>1. /\ IsFiniteSet(rows \union {row})
      /\ Cardinality(rows \union {row}) <= Cardinality(rows) + 1
      /\ Cardinality(rows) \in Nat /\ Cardinality(rows \union {row}) \in Nat
  BY FS_AddElement, FS_CardinalityType DEF Kept
<1>2. Cardinality(rows \union {row}) <= MaxBlocksPerLanding
  BY <1>1 DEF MaxBlocksPerLanding
<1> QED
  BY <1>1, <1>2 DEF Kept

(* A component can be removed, which leaves room.                           *)
LEMMA KeptRemove ==
  ASSUME NEW rows, Kept(rows), NEW row \in rows
  PROVE  /\ Kept(rows \ {row})
         /\ Cardinality(rows \ {row}) < MaxBlocksPerLanding
<1>1. /\ IsFiniteSet(rows \ {row})
      /\ Cardinality(rows \ {row}) = Cardinality(rows) - 1
      /\ Cardinality(rows) \in Nat
  BY FS_RemoveElement, FS_CardinalityType DEF Kept
<1> QED
  BY <1>1 DEF Kept, MaxBlocksPerLanding

(* What was read from a template is a landing.                              *)
LEMMA ApartIsKept ==
  ASSUME NEW n \in Nat, n <= MaxBlocksPerLanding, NEW rows, Apart(rows, n)
  PROVE  Kept(ToSet(rows))
<1>1. DOMAIN rows = 1 .. n
  BY DEF Apart
<1>2. rows \in Surjection(1 .. n, ToSet(rows))
  BY <1>1 DEF Surjection, ToSet, Apart
<1>3. ExistsSurjection(1 .. n, ToSet(rows))
  BY <1>2 DEF ExistsSurjection
<1>4. IsFiniteSet(ToSet(rows)) /\ Cardinality(ToSet(rows)) <= n
  BY <1>3, FS_NatSurjection, FS_SurjCardinalityBound
<1>5. Cardinality(ToSet(rows)) \in Nat
  BY <1>4, FS_CardinalityType
<1>6. Cardinality(ToSet(rows)) <= MaxBlocksPerLanding
  BY <1>4, <1>5 DEF MaxBlocksPerLanding
<1>7. \A row \in ToSet(rows) : Stored(row)
  BY <1>1 DEF Apart, ToSet
<1>8. \A r, s \in ToSet(rows) : r.slot = s.slot /\ r.order = s.order => r = s
  BY <1>1 DEF Apart, ToSet
<1> QED
  BY <1>4, <1>6, <1>7, <1>8 DEF Kept

(* An empty landing; a template written by an earlier version or none.      *)
LEMMA Initially == Init => IInv
<1> SUFFICES ASSUME Init PROVE IInv
  OBVIOUS
<1>1. Kept(landing)
  BY FS_EmptySet DEF Init, Kept, MaxBlocksPerLanding
<1>2. ASSUME NEW entries \in template PROVE Legible(entries)
  <2>1. entries \in Older
    BY <1>2 DEF Init, Absent
  <2>2. /\ Sequence(entries)
        /\ \A i \in DOMAIN entries : /\ entries[i].order \in Int
                                     /\ Json(entries[i].type, entries[i].config)
    BY <2>1, ContentAssumption
  <2> QED
    BY <2>2, JsonIsSound DEF Legible, Readable, Sequence
<1>3. \A i \in DOMAIN page : Settled(page[i])
  BY DEF Init
<1> QED
  BY <1>1, <1>2, <1>3 DEF IInv

(* Creating a component: the validated content at a free order.             *)
LEMMA CreateKeeps ==
  ASSUME IInv, NEW content \in Contents, NEW slot \in Slots, NEW enabled \in BOOLEAN,
         CreateBlock(content.type, content.config, slot, enabled)
  PROVE  Kept(landing')
<1>1. PICK s \in ValidateSlotIndex(slot),
           config \in ValidateBlockConfig(content.type, content.config) :
        /\ FreeOrders(landing, s) # {}
        /\ landing' = landing \union
             {[type |-> content.type, slot |-> s,
               order |-> Min(FreeOrders(landing, s)), config |-> config,
               enabled |-> enabled, left |-> LeftToLanding(content.config)]}
  BY DEF CreateBlock
<1> DEFINE order == Min(FreeOrders(landing, s))
           row == [type |-> content.type, slot |-> s, order |-> order,
                   config |-> config, enabled |-> enabled,
                   left |-> LeftToLanding(content.config)]
<1>2. /\ order \in 0 .. MaxOrderIndex
      /\ \A r \in landing : ~(r.slot = s /\ r.order = order)
  BY <1>1, FreeOrder
<1>3. landing' = landing \union {row}
  BY <1>1
<1> HIDE DEF order
<1>4. /\ Shape(row) /\ row.type = content.type /\ row.slot = s /\ row.order = order
      /\ row.config = config /\ row.left = LeftToLanding(content.config)
  BY DEF Shape
<1> HIDE DEF row
<1>5. Sound(content.type, content.config)
  BY ContentAssumption, JsonIsSound
<1>6. Settled(row)
  BY <1>4, <1>5 DEF Settled, Sound
<1>7. s \in 0 .. MaxSlotIndex
  BY DEF ValidateSlotIndex
<1>8. Stored(row)
  BY <1>2, <1>4, <1>6, <1>7 DEF Stored
<1>9. Cardinality(landing) < MaxBlocksPerLanding
  BY DEF CreateBlock
<1> QED
  BY <1>2, <1>3, <1>4, <1>8, <1>9, KeptAdd DEF IInv

(* The content an update may be given for a component.                      *)
GivenFor(row) ==
  {Absent} \union {{c.config} : c \in {d \in Contents : d.type = row.type}}

(* New content is validated; otherwise the component has its own.           *)
LEMMA EditedIsSettled ==
  ASSUME NEW row, Stored(row), NEW given \in GivenFor(row),
         NEW edited \in Edited(row, given)
  PROVE  /\ Shape(edited) /\ Settled(edited)
         /\ edited.type = row.type /\ edited.order = row.order
<1>1. CASE edited = row
  BY <1>1 DEF Stored
<1>2. CASE edited # row
  <2>1. PICK raw \in given : edited \in
          {[row EXCEPT !.config = config, !.left = LeftToLanding(raw)] :
             config \in ValidateBlockConfig(row.type, raw)}
    BY <1>2 DEF Edited
  <2>2. PICK config \in ValidateBlockConfig(row.type, raw) :
          edited = [row EXCEPT !.config = config, !.left = LeftToLanding(raw)]
    BY <2>1
  <2>3. PICK content \in Contents : content.type = row.type /\ raw = content.config
    BY <2>1 DEF GivenFor, Absent
  <2>4. DOMAIN row = {"type", "slot", "order", "config", "enabled", "left"}
    BY DEF Stored, Shape
  <2>5. /\ DOMAIN edited = DOMAIN row
        /\ edited.type = row.type /\ edited.order = row.order
        /\ edited.config = config /\ edited.left = LeftToLanding(raw)
    BY <2>2, <2>4
  <2>6. Shape(edited)
    <3>1. edited = [f \in DOMAIN edited |-> edited[f]]
      BY <2>2
    <3> QED
      BY <2>4, <2>5, <3>1 DEF Shape
  <2>7. Sound(row.type, raw)
    BY <2>3, ContentAssumption, JsonIsSound
  <2>8. Settled(edited)
    BY <2>5, <2>7 DEF Settled, Sound
  <2> QED
    BY <2>5, <2>6, <2>8
<1> QED
  BY <1>1, <1>2

(* Updating a component: it keeps its place, or takes a free one in its new *)
(* slot.                                                                    *)
LEMMA UpdateKeeps ==
  ASSUME IInv, NEW row \in landing, NEW slot, NEW enabled \in BOOLEAN,
         NEW given \in GivenFor(row), UpdateBlock(row, given, slot, enabled)
  PROVE  Kept(landing')
<1> DEFINE others == landing \ {row}
<1>1. PICK s \in ValidateSlotIndex(slot), edited \in Edited(row, given) :
        /\ s = row.slot \/ FreeOrders(others, s) # {}
        /\ landing' = others \union
             {[edited EXCEPT !.slot = s, !.enabled = enabled,
                             !.order = IF s = row.slot THEN @
                                       ELSE Min(FreeOrders(others, s))]}
  BY DEF UpdateBlock
<1>3. Stored(row) /\ Kept(others) /\ Cardinality(others) < MaxBlocksPerLanding
  BY KeptRemove DEF IInv, Kept
<1>6. /\ Shape(edited) /\ Settled(edited)
      /\ edited.type = row.type /\ edited.order = row.order
  BY <1>3, EditedIsSettled
<1> DEFINE order == IF s = row.slot THEN row.order ELSE Min(FreeOrders(others, s))
           new == [edited EXCEPT !.slot = s, !.enabled = enabled, !.order = order]
<1>2. landing' = others \union {new}
  BY <1>1, <1>6
<1>4. /\ order \in 0 .. MaxOrderIndex
      /\ \A r \in others : ~(r.slot = s /\ r.order = order)
  <2>1. CASE s = row.slot
    BY <1>3, <2>1 DEF Stored, IInv, Kept
  <2>2. CASE s # row.slot
    <3>1. FreeOrders(others, s) # {} /\ order = Min(FreeOrders(others, s))
      BY <1>1, <2>2
    <3> HIDE DEF order, others
    <3> QED
      BY <3>1, FreeOrder
  <2> QED
    BY <2>1, <2>2
<1> HIDE DEF order, others
<1>5. /\ Shape(new) /\ new.type = row.type /\ new.slot = s /\ new.order = order
      /\ new.config = edited.config /\ new.left = edited.left
  <2>1. DOMAIN edited = {"type", "slot", "order", "config", "enabled", "left"}
    BY <1>6 DEF Shape
  <2>2. /\ DOMAIN new = DOMAIN edited
        /\ new.type = row.type /\ new.slot = s /\ new.order = order
        /\ new.config = edited.config /\ new.left = edited.left
    BY <1>6, <2>1
  <2>3. new = [f \in DOMAIN new |-> new[f]]
    OBVIOUS
  <2> HIDE DEF new
  <2>4. Shape(new)
    BY <2>1, <2>2, <2>3 DEF Shape
  <2> QED
    BY <2>2, <2>4
<1> HIDE DEF new
<1>7. Settled(new)
  BY <1>5, <1>6 DEF Settled
<1>8. s \in 0 .. MaxSlotIndex
  BY DEF ValidateSlotIndex
<1>9. Stored(new)
  BY <1>4, <1>5, <1>7, <1>8 DEF Stored
<1> QED
  BY <1>2, <1>3, <1>4, <1>5, <1>9, KeptAdd

(* The visitor is given what is stored.                                     *)
LEMMA LoadKeeps ==
  ASSUME IInv, LoadTemplate
  PROVE  Kept(landing')
<1>1. PICK entries \in template : \E rows \in ParseTemplateBlocks(entries) :
        landing' = ToSet(rows)
  BY DEF LoadTemplate
<1>2. PICK rows \in ParseTemplateBlocks(entries) : landing' = ToSet(rows)
  BY <1>1
<1>3. Legible(entries)
  BY DEF IInv
<1> QED
  BY <1>2, <1>3, ParsedApart, ApartIsKept

(* Copying a template keeps only assigned slots, at the orders it gives.    *)
LEMMA InstantiateKeeps ==
  ASSUME IInv, NEW assignments, Instantiate(assignments)
  PROVE  \A i \in DOMAIN page' : Settled(page'[i])
<1>1. PICK entries \in template : \E rows \in ParseTemplateBlocks(entries) :
        page' = [i \in DOMAIN rows |-> rows[i] ++ MediaFor(assignments, i)]
  BY DEF Instantiate
<1>2. PICK rows \in ParseTemplateBlocks(entries) :
        page' = [i \in DOMAIN rows |-> rows[i] ++ MediaFor(assignments, i)]
  BY <1>1
<1>3. Legible(entries)
  BY DEF IInv
<1>4. Apart(rows, Len(entries))
  BY <1>2, <1>3, ParsedApart
<1>5. ASSUME NEW i \in DOMAIN page' PROVE Settled(page'[i])
  <2>1. i \in DOMAIN rows /\ page'[i] = rows[i] ++ MediaFor(assignments, i)
    BY <1>2
  <2>2. Stored(rows[i])
    BY <1>4, <2>1 DEF Apart
  <2>3. {"type", "config", "left"} \subseteq DOMAIN rows[i]
    <3>1. \A row : Shape(row) => {"type", "config", "left"} \subseteq DOMAIN row
      BY DEF Shape
    <3> QED
      BY <2>2, <3>1 DEF Stored
  <2>4. /\ page'[i].type = rows[i].type /\ page'[i].config = rows[i].config
        /\ page'[i].left = rows[i].left
    BY <2>1, <2>3 DEF ++
  <2> QED
    BY <2>2, <2>4 DEF Stored, Settled
<1> QED
  BY <1>5

(* No step breaks the invariant.                                            *)
LEMMA InvariantStep ==
  ASSUME IInv, [Next]_vars
  PROVE  IInv'
<1>1. ASSUME NEW content \in Contents, NEW slot \in Slots, NEW enabled \in BOOLEAN,
             CreateBlock(content.type, content.config, slot, enabled)
      PROVE  IInv'
  BY <1>1, CreateKeeps DEF CreateBlock, IInv
<1>2. ASSUME NEW row \in landing, NEW slot \in Slots \union {row.slot},
             NEW enabled \in BOOLEAN, NEW given \in GivenFor(row),
             UpdateBlock(row, given, slot, enabled)
      PROVE  IInv'
  BY <1>2, UpdateKeeps DEF UpdateBlock, IInv
<1>3. ASSUME NEW row \in landing, DeleteBlock(row) PROVE IInv'
  BY <1>3, KeptRemove DEF DeleteBlock, IInv
<1>4. CASE SaveTemplate
  BY <1>4, SnapshotGivesBack DEF SaveTemplate, IInv
<1>5. CASE LoadTemplate
  BY <1>5, LoadKeeps DEF LoadTemplate, IInv
<1>6. ASSUME NEW assignments \in Assignments, Instantiate(assignments) PROVE IInv'
  BY <1>6, InstantiateKeeps DEF Instantiate, IInv
<1>7. CASE UNCHANGED vars
  BY <1>7 DEF vars, IInv
<1>8. ASSUME NEW row \in landing, NEW slot \in Slots \union {row.slot},
             NEW enabled \in BOOLEAN,
             \/ UpdateBlock(row, Absent, slot, enabled)
             \/ \E content \in Contents :
                  /\ content.type = row.type
                  /\ UpdateBlock(row, {content.config}, slot, enabled)
      PROVE  IInv'
  BY <1>2, <1>8 DEF GivenFor
<1> QED
  BY <1>1, <1>3, <1>4, <1>5, <1>6, <1>7, <1>8 DEF Next

(* The invariant gives each part of ContentSurvives.                        *)
LEMMA InvariantShows ==
  ASSUME IInv
  PROVE  ContentSurvives
<1>1. \A row \in landing \union ToSet(page) : Settled(row)
  BY DEF IInv, Kept, Stored, ToSet
<1>2. {ToSet(rows) : rows \in ParseTemplateBlocks(SnapshotBlocks(landing))} = {landing}
  BY SnapshotGivesBack DEF IInv
<1>3. ASSUME NEW entries \in template, NEW rows \in ParseTemplateBlocks(entries)
      PROVE  IsInjective([i \in DOMAIN rows |-> Place(rows[i])])
  <2>1. Apart(rows, Len(entries))
    BY ParsedApart DEF IInv
  <2>2. DOMAIN rows = 1 .. Len(entries)
    BY <2>1 DEF Apart
  <2>3. \A r, s : Place(r) = Place(s) => r.slot = s.slot /\ r.order = s.order
    BY DEF Place
  <2> QED
    BY <2>1, <2>2, <2>3 DEF Apart, IsInjective
<1> QED
  BY <1>1, <1>2, <1>3 DEF ContentSurvives

(* Landings hold sound components at places of their own, no more than fit, *)
(* and templates can be read: the invariant behind ContentSurvives.         *)
THEOREM AlwaysKept == Spec => []IInv
<1> QED
  BY Initially, InvariantStep, PTL DEF Spec

(* No edit, save, load or copy loses or alters the content of a component,  *)
(* for every type, whatever the requests and the older templates hold.      *)
THEOREM ContentAlwaysSurvives == Spec => []ContentSurvives
<1> QED
  BY AlwaysKept, InvariantShows, PTL

=============================================================================
