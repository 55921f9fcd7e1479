----------------------------- MODULE MasterData -----------------------------
(***************************************************************************)
(* The retail tables of schema.prisma with their foreign keys, and the     *)
(* management API's creates and deletes.  A table is abstracted to whether *)
(* it has rows: a row needs its parents, and a table is emptied only when  *)
(* nothing refers to it.                                                   *)
(***************************************************************************)
EXTENDS FiniteSets

CONSTANT ApiTables  \* bound: the tables the API changes

VARIABLE rows  \* the tables with rows

Region      == {}
City        == {"region"}
Branch      == {"city"}
Category    == {}
Subcategory == {"category"}
Brand       == {"category"}
Product     == {"brand", "subcategory"}
Price       == {"product"}
Cost        == {"product", "region"}
Customer    == {}
Cashier     == {"branch"}
Receipt     == {"branch", "cashier", "customer"}
Item        == {"receipt", "product"}  \* price and cost are ON DELETE SET NULL
ForecastRun == {}

Tables == {"region", "city", "branch", "category", "subcategory", "brand", "product",
           "price", "cost", "customer", "cashier", "receipt", "item", "forecastRun"}

Parents == [t \in Tables |->
  CASE t = "region" -> Region     [] t = "city" -> City   [] t = "branch" -> Branch
    [] t = "category" -> Category [] t = "subcategory" -> Subcategory
    [] t = "brand" -> Brand       [] t = "product" -> Product
    [] t = "price" -> Price       [] t = "cost" -> Cost   [] t = "customer" -> Customer
    [] t = "cashier" -> Cashier   [] t = "receipt" -> Receipt
    [] t = "item" -> Item         [] t = "forecastRun" -> ForecastRun]

\* The resources of CatalogController, GeoController and PeopleController.
Managed == {"category", "subcategory", "brand", "product",
            "region", "city", "branch", "customer", "cashier"}

ASSUME ApiAssumption == ApiTables \subseteq Managed

\* ON DELETE RESTRICT.  Mutant: cities lack the key.
RefersTo_NoCityKey(t) == {c \in Tables \ {"city"} : t \in Parents[c]}
RefersTo(t) == {c \in Tables : t \in Parents[c]}

Whole == \A t \in rows : Parents[t] \subseteq rows

CanInsert(t) == Parents[t] \subseteq rows
CanEmpty(t)  == RefersTo(t) \cap rows = {}

\* P2003 becomes 409 when a parent is missing or a child remains.
ApiCreate(t) ==
  /\ t \in ApiTables /\ CanInsert(t)
  /\ rows' = rows \cup {t}

\* The last row of t goes; another delete leaves the table as it is.
ApiEmpty(t) ==
  /\ t \in ApiTables \cap rows /\ CanEmpty(t)
  /\ rows' = rows \ {t}

=============================================================================
