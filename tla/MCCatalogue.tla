---------------------------- MODULE MCCatalogue ----------------------------
(***************************************************************************)
(* Two seeds and a department.  The calendar is in the menus of a seed and *)
(* of the department, which labels it as a contact page; the news is       *)
(* listed by the guide, is in the second seed's menu as well and lists the *)
(* archive.                                                                *)
(***************************************************************************)
EXTENDS Catalogue

CONSTANTS www, enter, dept, guide, calendar, news, archive, pdf

Sites == {www, enter, dept}
Urls == {guide, calendar, news, archive}
SeedSites == <<www, enter>>
DepartmentLinks == www :> <<dept, www, dept>> @@ enter :> <<>> @@ dept :> <<>>
Entry(url, label) == [url |-> url, label |-> label]
Menus == www :> <<Entry(guide, "guide"), Entry(calendar, "year")>>
         @@ dept :> <<Entry(calendar, "telephone")>>
         @@ enter :> <<Entry(news, "entry")>>
PostLists == guide :> <<Entry(news, "news")>> @@ calendar :> <<>>
             @@ news :> <<Entry(archive, "news")>> @@ archive :> <<>>
PdfList == <<pdf>>
ScopeOfSeed == www :> "general_academic" @@ enter :> "admission"
SeedOf == guide :> www @@ calendar :> www @@ news :> enter @@ archive :> enter
ScopeOfHost == [u \in Urls |-> IF u \in {news, archive} THEN "admission" ELSE "general_academic"]
               @@ pdf :> "general_academic"
PostPages == {news, archive}
Words == guide :> {} @@ calendar :> {} @@ news :> {} @@ pdf :> {} @@ archive :> {}
         @@ "guide" :> {"certificate", "license"} @@ "year" :> {"calendar"}
         @@ "telephone" :> {"contact"} @@ "entry" :> {"admission"} @@ "news" :> {}
=============================================================================
