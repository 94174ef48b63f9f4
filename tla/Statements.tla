----------------------------- MODULE Statements -----------------------------
(***************************************************************************)
(* The figures of the account-information apps.  Masroofi (households) and *)
(* Hisab (merchants), each as a web site and as a phone app, fetch the     *)
(* transactions of a connected customer and derive everything they show in *)
(* the client: categories, merchants, months, days, running balances.      *)
(*                                                                         *)
(* The bank books transactions and answers with the newest rows of each    *)
(* account; an app holds the answer until it fetches again.  Formatting,   *)
(* charts' geometry and the currency are left out; a description is the    *)
(* set of categories its patterns match.                                   *)
(*                                                                         *)
(* What a filter keeps of a list is the set of its positions; a grouping   *)
(* labels positions, and a group has the place of its first row.           *)
(***************************************************************************)
EXTENDS Integers, Sequences, SequencesExt, FiniteSets

CONSTANTS
    StatementApps,  \* subset of StatementClients
    Bookings,       \* what the bank may book: account, at, dir, amount, text, merchant
    Matching,       \* the categories whose patterns match a text
    Booked,         \* bound: transactions booked
    RowLimit,       \* rows the bank answers per account (the code's 50)
    Today,          \* the day the screens are looked at
    DaysPerMonth,   \* bound: days of a month
    Months,         \* bound: the months of a trend (six)
    Days,           \* bound: the days of a chart (seven, thirty)
    Top             \* bound: rows of a ranking (five, eight, ten)

StatementClients == {"masroofi", "masroofiPhone", "hisab", "hisabPhone"}

VARIABLES
    app,        \* the app that is used
    connected,  \* the app has a consent id or a token
    books,      \* the bookings of each account, oldest first
    scope,      \* all accounts, or the account whose page is open
    phase,      \* "loading", "ready", "failed" or "unconnected"
    list        \* the transactions the app holds

statementVars == <<app, connected, books, scope, phase, list>>

(* A customer has finitely many accounts.                                  *)
ASSUME StatementsAssumption ==
    /\ StatementApps \subseteq StatementClients
    /\ Booked \in Nat /\ RowLimit \in Nat /\ Today \in Nat /\ Top \in Nat
    /\ DaysPerMonth \in Nat \ {0} /\ Months \in Nat \ {0} /\ Days \in Nat \ {0}
    /\ IsFiniteSet({b.account : b \in Bookings})
    /\ \A b \in Bookings : /\ b.at \in 0..(Today * 4 + 1) /\ b.amount \in Nat \ {0} /\ b.dir \in {"Credit", "Debit"}
                           /\ b.text \in DOMAIN Matching

-----------------------------------------------------------------------------
(* Time.  A day has four instants: its start, its middle, the start of its *)
(* last second and the rest of that second.                                *)

Slots == 4

Now == Today * Slots + 1
DayOf(t) == t.at \div Slots
Midnight(day) == day * Slots
WebDayEnd(day) == Midnight(day) + 2
EndOfDay(day) == Midnight(day) + 3
DaysAgo(n) == Today - n

(* The dates start at the epoch: there is no month before the first.       *)
FirstOf(back) == (Today \div DaysPerMonth - back) * DaysPerMonth
LastOf(back) == FirstOf(back) + DaysPerMonth - 1

Accounts == {b.account : b \in Bookings}
Texts == DOMAIN Matching

-----------------------------------------------------------------------------
(* Sums.  A loop that adds up is a recursive function of the position.     *)

Sums(f) == LET sum[k \in 0..Len(f)] == IF k = 0 THEN 0 ELSE sum[k - 1] + f[k] IN sum
SumOver(f) == Sums(f)[Len(f)]

Total(S, I) == SumOver([k \in DOMAIN S |-> IF k \in I THEN S[k].amount ELSE 0])
Credits(S, I) == {i \in I : S[i].dir = "Credit"}
Debits(S, I) == {i \in I : S[i].dir = "Debit"}
SumCredits(S, I) == Total(S, Credits(S, I))
SumDebits(S, I) == Total(S, Debits(S, I))
Percent(part, whole) == IF whole > 0 THEN (part * 100) \div whole ELSE 0

PercentageChange(current, previous) ==
    IF previous = 0 THEN IF current > 0 THEN 100 ELSE 0
    ELSE ((current - previous) * 100) \div previous

TransactionsInRange(S, first, last) ==
    {i \in DOMAIN S : first <= S[i].at /\ S[i].at <= last}

(* The positions of the keys, the greatest key first.  Like the stable     *)
(* Array.prototype.sort it leaves equal keys in the order they have.       *)
Sorted(key) ==
    LET before(i, j) == key[i] > key[j] \/ (key[i] = key[j] /\ i < j)
    IN [k \in 1..Cardinality(DOMAIN key) |->
           CHOOSE i \in DOMAIN key : Cardinality({j \in DOMAIN key : before(j, i)}) = k - 1]
Arranged(f, key) == LET order == Sorted(key) IN [k \in DOMAIN order |-> f[order[k]]]
NewestFirst(S, I) == Arranged(S, [i \in I |-> S[i].at])
FirstFew(S, n) == SubSeq(S, 1, IF Len(S) < n THEN Len(S) ELSE n)

(* A Map filled in one pass keeps its keys in order of first appearance.   *)
Labelled(label, name) == {i \in DOMAIN label : label[i] = name}
GroupBy(label) ==
    [i \in {i \in DOMAIN label : \A j \in DOMAIN label : j < i => label[j] # label[i]} |->
        [name |-> label[i], rows |-> Labelled(label, label[i])]]
InOrder(groups) == Arranged(groups, [i \in DOMAIN groups |-> 0])

Ranking(S, groups) ==
    Arranged([g \in DOMAIN groups |-> [name |-> groups[g].name,
                                       total |-> Total(S, groups[g].rows),
                                       count |-> Cardinality(groups[g].rows)]],
             [g \in DOMAIN groups |-> Total(S, groups[g].rows)])
Totals(ranking) == SumOver([k \in DOMAIN ranking |-> ranking[k].total])
Counts(ranking) == SumOver([k \in DOMAIN ranking |-> ranking[k].count])
Shares(ranking) ==
    [k \in DOMAIN ranking |-> Percent(ranking[k].total, Totals(ranking))]

-----------------------------------------------------------------------------
(* The bank.                                                               *)

BalanceOf(account) ==
    IF books[account] = <<>> THEN 0 ELSE Last(books[account]).after

InTime(b) ==
    /\ Cardinality(UNION {{a} \X DOMAIN books[a] : a \in Accounts}) < Booked
    /\ \A a \in Accounts : \A t \in ToSet(books[a]) : t.at <= b.at

(* Mutant of Book: a debit is booked whether or not it is covered.          *)
BookUncovered(b) ==
    /\ InTime(b)
    /\ books' = [books EXCEPT ![b.account] = Append(@,
           [account |-> b.account, at |-> b.at, dir |-> b.dir, amount |-> b.amount,
            text |-> b.text, merchant |-> b.merchant,
            after |-> BalanceOf(b.account) + (IF b.dir = "Credit" THEN b.amount ELSE -b.amount)])]
    /\ UNCHANGED <<app, connected, scope, phase, list>>

(* A booking moves the balance; a debit needs cover.                       *)
Book(b) ==
    /\ InTime(b)
    /\ b.dir = "Debit" => b.amount <= BalanceOf(b.account)
    /\ books' = [books EXCEPT ![b.account] = Append(@,
           [account |-> b.account, at |-> b.at, dir |-> b.dir, amount |-> b.amount,
            text |-> b.text, merchant |-> b.merchant,
            after |-> IF b.dir = "Credit" THEN BalanceOf(b.account) + b.amount
                      ELSE BalanceOf(b.account) - b.amount])]
    /\ UNCHANGED <<app, connected, scope, phase, list>>

(* The rows of an account, newest first, at most RowLimit of them.         *)
Rows(account) == FirstFew(Reverse(books[account]), RowLimit)

(* All accounts: one request each; an account that fails is left out.      *)
Answer(reached) ==
    LET order == SetToSeq(reached) IN FlattenSeq([k \in DOMAIN order |-> Rows(order[k])])

-----------------------------------------------------------------------------
(* The apps fetch.                                                         *)

Web == app \in {"masroofi", "hisab"}

(* react-query keeps the last answer when a fetch fails.                   *)
WebFetch ==
    /\ Web /\ connected
    /\ \/ /\ scope = "all"
          /\ \E reached \in SUBSET Accounts : list' = Answer(reached)
          /\ phase' = "ready"
       \/ scope # "all" /\ list' = Rows(scope) /\ phase' = "ready"
       \/ phase' = "failed" /\ UNCHANGED list
    /\ UNCHANGED <<app, connected, books, scope>>

(* Both phone apps turn a failed request into an empty list.               *)
MasroofiPhoneFetch ==
    /\ app = "masroofiPhone"
    /\ IF connected
       THEN /\ phase' = "ready"
            /\ \/ \E reached \in SUBSET Accounts : list' = Answer(reached)
               \/ list' = <<>>
       ELSE phase' = "unconnected" /\ list' = <<>>
    /\ UNCHANGED <<app, connected, books, scope>>

HisabPhoneFetch ==
    /\ app = "hisabPhone"
    /\ IF connected
       THEN /\ phase' = "ready"
            /\ \/ \E reached \in SUBSET Accounts : list' = Answer(reached)
               \/ list' = <<>>
       ELSE phase' = "unconnected" /\ UNCHANGED list
    /\ UNCHANGED <<app, connected, books, scope>>

(* Masroofi's account cards open one account; Back shows the cards again.  *)
(* Each page has its own query.                                            *)
OpenAccount(account) ==
    /\ app = "masroofi" /\ connected /\ scope = "all"
    /\ scope' = account /\ phase' = "loading" /\ list' = <<>>
    /\ UNCHANGED <<app, connected, books>>

BackToAccounts ==
    /\ scope # "all"
    /\ scope' = "all" /\ phase' = "loading" /\ list' = <<>>
    /\ UNCHANGED <<app, connected, books>>

(* The customer disconnects: see Aggregators.                              *)
LoseConnection ==
    /\ connected /\ connected' = FALSE
    /\ phase' = IF Web THEN "unconnected" ELSE phase
    /\ UNCHANGED <<app, books, scope, list>>

StatementsInit ==
    /\ app \in StatementApps
    /\ connected = TRUE /\ books = [a \in Accounts |-> <<>>] /\ scope = "all"
    /\ phase = "loading" /\ list = <<>>

StatementsNext ==
    \/ \E b \in Bookings : Book(b)
    \/ WebFetch \/ MasroofiPhoneFetch \/ HisabPhoneFetch
    \/ \E a \in Accounts : OpenAccount(a)
    \/ BackToAccounts \/ LoseConnection

StatementsSpec == StatementsInit /\ [][StatementsNext]_statementVars

-----------------------------------------------------------------------------
(* Masroofi: categories, merchants, months.                                *)

(* In the order in which they are tried; "other" matches nothing.          *)
Categories == <<"salary", "groceries", "shopping", "other">>

CategorizeTransaction(text) ==
    LET k == SelectInSeq(Categories, LAMBDA c : c \in Matching[text])
    IN IF k = 0 THEN "other" ELSE Categories[k]

(* The categories that a label uses, in their own order, not in that of    *)
(* the rows.                                                               *)
Summary(S, label) ==
    LET used == {c \in DOMAIN Categories : Total(S, Labelled(label, Categories[c])) > 0}
    IN Ranking(S, [c \in used |-> [name |-> Categories[c],
                                   rows |-> Labelled(label, Categories[c])]])

(* Mutant of BuildSpendingSummary: credits count as spending.              *)
SummaryWithCredits(S, I) == Summary(S, [i \in I |-> CategorizeTransaction(S[i].text)])

BuildSpendingSummary(S, I) ==
    Summary(S, [i \in Debits(S, I) |-> CategorizeTransaction(S[i].text)])

(* The name shown for a payment: the merchant's, else the description.     *)
Payee(t) == IF t.merchant # "none" THEN t.merchant ELSE t.text

BuildMerchantSummary(S, I, limit) ==
    FirstFew(Ranking(S, GroupBy([i \in Debits(S, I) |-> Payee(S[i])])), limit)

GetMonthTransactions(S, back) ==
    IF back > Today \div DaysPerMonth THEN {}
    ELSE TransactionsInRange(S, Midnight(FirstOf(back)), WebDayEnd(LastOf(back)))

(* The Spending page.                                                      *)
SpendingMonth(S, back) ==
    LET tx == GetMonthTransactions(S, back)
        summary == BuildSpendingSummary(S, tx)
    IN [tx |-> tx, summary |-> summary, spending |-> Totals(summary), income |-> SumCredits(S, tx)]

ChangePercent(now, before) ==
    IF before > 0 THEN ((now - before) * 100) \div before ELSE 0
SavingsRate(month) ==
    IF month.income > 0 THEN ((month.income - month.spending) * 100) \div month.income ELSE 0

StatsRow(S) ==
    [spent |-> SpendingMonth(S, 0).spending, before |-> SpendingMonth(S, 1).spending,
     count |-> Cardinality(Debits(S, SpendingMonth(S, 0).tx)),
     change |-> ChangePercent(SpendingMonth(S, 0).spending, SpendingMonth(S, 1).spending),
     saved |-> SavingsRate(SpendingMonth(S, 0))]
Breakdown(S) ==
    LET summary == SpendingMonth(S, 0).summary IN
    [cards |-> summary, shares |-> Shares(summary), count |-> Counts(summary)]
MonthlyBars(S) == [m \in 0..2 |-> SpendingMonth(S, m).spending]
TopMerchants(S) == BuildMerchantSummary(S, SpendingMonth(S, 0).tx, Top)
Clamp(x) == IF x < 0 THEN 0 ELSE IF x > 100 THEN 100 ELSE x
SavingsInsight(S) == Clamp(SavingsRate(SpendingMonth(S, 0)))
(* Each section of the bar falls back to a half of its own.                *)
IncomeBar(month) ==
    [income |-> IF month.income > 0 THEN Percent(month.income, month.income + month.spending)
                ELSE 50,
     spending |-> IF month.spending > 0
                  THEN Percent(month.spending, month.income + month.spending) ELSE 50]

(* Masroofi's dashboard and the chart it shares with no other page.        *)
SpendingChart(summary) ==
    [total |-> Totals(summary), ring |-> FirstFew(summary, 8), top |-> FirstFew(summary, 3)]
DashboardMonth(S, back) == GetMonthTransactions(S, back)
MasroofiDashboard(S) ==
    LET month == DashboardMonth(S, 0)
        spent == Totals(BuildSpendingSummary(S, month))
        income == SumCredits(S, month)
    IN [spending |-> spent, income |-> income, net |-> income - spent,
        change |-> ChangePercent(spent, Totals(BuildSpendingSummary(S, DashboardMonth(S, 1))))]
IncomeVsSpending(S) ==
    [income |-> MasroofiDashboard(S).income, spending |-> MasroofiDashboard(S).spending,
     net |-> MasroofiDashboard(S).net]
SpendingMini(S) == SpendingChart(BuildSpendingSummary(S, DashboardMonth(S, 0)))
GetRecentTransactions(S) == FirstFew(NewestFirst(S, DOMAIN S), Top)
RecentRows(S) ==
    [k \in DOMAIN GetRecentTransactions(S) |->
        [row |-> GetRecentTransactions(S)[k],
         badge |-> CategorizeTransaction(GetRecentTransactions(S)[k].text)]]

-----------------------------------------------------------------------------
(* The transaction pages.                                                  *)

Filters == {"all", "credit", "debit"}
Ranges == {"any", "1d", "2d"}   \* bound: 7, 30 and 90 days

Passes(t, filter) ==
    filter = "all" \/ t.dir = (IF filter = "credit" THEN "Credit" ELSE "Debit")
Since(range) ==
    CASE range = "any" -> 0 [] range = "1d" -> Now - Slots [] range = "2d" -> Now - 2 * Slots

(* The rows of the web pages: direction, text, date range, newest first.   *)
FilteredRows(S, filter, query, range) ==
    NewestFirst(S, {i \in DOMAIN S : /\ Passes(S[i], filter)
                                     /\ query = "" \/ S[i].text = query
                                     /\ S[i].at >= Since(range)})

DaysOf(rows) == InOrder(GroupBy([k \in DOMAIN rows |-> DayOf(rows[k])]))
DateGroups(rows) ==
    LET days == DaysOf(rows)
    IN [k \in DOMAIN days |-> [day |-> days[k].name, rows |-> days[k].rows,
                               credit |-> SumCredits(rows, days[k].rows),
                               debit |-> SumDebits(rows, days[k].rows)]]

Signed(t) == IF t.dir = "Credit" THEN t.amount ELSE - t.amount

(* Mutant of RunningBalances: a row's own amount is taken off, not the one *)
(* of the row above.                                                       *)
ShiftedBalances(rows) ==
    LET balance[k \in DOMAIN rows] ==
            IF k = 1 THEN rows[1].after ELSE balance[k - 1] - Signed(rows[k])
    IN balance

(* From the newest row's balance, taking off each row above.               *)
RunningBalances(rows) ==
    LET balance[k \in DOMAIN rows] ==
            IF k = 1 THEN rows[1].after ELSE balance[k - 1] - Signed(rows[k - 1])
    IN balance

SummaryRow(rows) ==
    LET income == SumCredits(rows, DOMAIN rows)
        expenses == SumDebits(rows, DOMAIN rows)
    IN [income |-> income, expenses |-> expenses, net |-> income - expenses, count |-> Len(rows)]

(* Hisab's copies of the filter, the groups and the balances.              *)
HisabFilteredRows(S, filter, query, range) == FilteredRows(S, filter, query, range)
HisabDateGroups(rows) == DateGroups(rows)
HisabRunningBalances(rows) == RunningBalances(rows)
HisabSummaryRow(rows) == SummaryRow(rows)

(* Hisab's phone app: groups with one signed total.  Nothing is Pending:   *)
(* the bank books every transaction.                                       *)
HisabPhoneRows(S, filter, query) ==
    {i \in DOMAIN S : /\ filter # "pending" /\ Passes(S[i], filter)
                      /\ query = "" \/ Payee(S[i]) = query}
GroupByDay(S, I) ==
    LET sorted == NewestFirst(S, I)
        days == DaysOf(sorted)
    IN [k \in DOMAIN days |->
           [day |-> days[k].name, rows |-> days[k].rows,
            total |-> SumCredits(sorted, days[k].rows) - SumDebits(sorted, days[k].rows)]]
HisabPhoneItems(S, filter, query) == GroupByDay(S, HisabPhoneRows(S, filter, query))

-----------------------------------------------------------------------------
(* Masroofi's phone app.                                                   *)

PhoneCategories == Categories
PhoneCategorize(text) ==
    LET k == SelectInSeq(PhoneCategories, LAMBDA c : c \in Matching[text])
    IN IF k = 0 THEN "other" ELSE PhoneCategories[k]
PhoneSpendingSummary(S, I) ==
    Summary(S, [i \in Debits(S, I) |-> PhoneCategorize(S[i].text)])
PhoneMerchantSummary(S, I, limit) ==
    FirstFew(Ranking(S, GroupBy([i \in Debits(S, I) |-> Payee(S[i])])), limit)
PhoneMonth(S) == TransactionsInRange(S, Midnight(FirstOf(0)), WebDayEnd(LastOf(0)))

(* Masroofi's phone app: newest first, one category and a text.            *)
PhoneFilteredRows(S, I, category, query) ==
    NewestFirst(S, {i \in I : /\ category = "any" \/ PhoneCategorize(S[i].text) = category
                              /\ query = "" \/ query \in {S[i].text, S[i].merchant}})

(* One bucket per 24 hours before now, the newest last.                    *)
BuildCategorySparkline(S, I, category) ==
    [k \in 1..Days |->
        Total(S, {i \in Debits(S, I) : /\ PhoneCategorize(S[i].text) = category
                                       /\ (Now - S[i].at) \div Slots = Days - k})]
BuildMonthlyTrend(S) ==
    [k \in 1..Months |-> SumDebits(S, GetMonthTransactions(S, Months - k))]

PhoneDashboard(S) ==
    LET month == PhoneMonth(S)
        income == SumCredits(S, month)
        spending == SumDebits(S, month)
    IN [income |-> income, spending |-> spending,
        rate |-> Clamp(Percent(income - spending, income)),
        top |-> FirstFew(PhoneSpendingSummary(S, month), 4)]
CategorySparkRow(S, category) == BuildCategorySparkline(S, PhoneMonth(S), category)
TopCategories(S) ==
    LET top == PhoneDashboard(S).top
    IN [k \in DOMAIN top |-> [name |-> top[k].name, total |-> top[k].total,
                              spark |-> CategorySparkRow(S, top[k].name)]]
RecentActivity(S) == FirstFew(NewestFirst(S, DOMAIN S), Top)
PhoneSpending(S) ==
    [summary |-> PhoneSpendingSummary(S, PhoneMonth(S)),
     merchants |-> PhoneMerchantSummary(S, PhoneMonth(S), Top), trend |-> BuildMonthlyTrend(S)]
SpendingDonut(summary) == Shares(summary)

-----------------------------------------------------------------------------
(* Hisab: revenue.                                                         *)

ThisMonth(S) == GetMonthTransactions(S, 0)
LastMonth(S) == GetMonthTransactions(S, 1)
TodayTransactions(S) == {i \in DOMAIN S : DayOf(S[i]) = Today}
AverageTransactionValue(S, I) == IF I = {} THEN 0 ELSE Total(S, I) \div Cardinality(I)
WebDay(S, day) == TransactionsInRange(S, Midnight(day), WebDayEnd(day))

DailyRevenue(S) == [k \in 1..Days |-> SumCredits(S, WebDay(S, DaysAgo(Days - k)))]
MonthlyRevenue(S) ==
    [k \in 1..Months |-> [revenue |-> SumCredits(S, GetMonthTransactions(S, Months - k)),
                          expenses |-> SumDebits(S, GetMonthTransactions(S, Months - k))]]
TopCustomers(S, limit) ==
    FirstFew(Ranking(S, GroupBy([i \in Credits(S, DOMAIN S) |-> S[i].text])), limit)
HourlyVolume(S) ==
    [slot \in 1..Slots |-> Cardinality({i \in DOMAIN S : S[i].at % Slots = slot - 1})]
RevenueByDayOfWeek(S) ==
    [k \in 1..(Today + 1) |-> SumCredits(S, {i \in DOMAIN S : DayOf(S[i]) = k - 1})]
DailyVolume(S) == [k \in 1..Days |-> Cardinality(WebDay(S, DaysAgo(Days - k)))]

HisabDashboard(S) ==
    LET month == ThisMonth(S)
        revenue == SumCredits(S, month)
    IN [revenue |-> revenue, change |-> PercentageChange(revenue, SumCredits(S, LastMonth(S))),
        today |-> SumCredits(S, TodayTransactions(S)), count |-> Cardinality(month),
        average |-> AverageTransactionValue(S, month)]
CashFlow(S) ==
    LET incoming == SumCredits(S, ThisMonth(S))
        flow == incoming + SumDebits(S, ThisMonth(S))
    IN IF flow > 0 THEN Percent(incoming, flow) ELSE 50
RevenueChart(S) == DailyRevenue(S)
DashboardCustomers(S) == TopCustomers(S, Top)
HisabAnalytics(S) ==
    [change |-> PercentageChange(AverageTransactionValue(S, ThisMonth(S)),
                                 AverageTransactionValue(S, LastMonth(S))),
     months |-> MonthlyRevenue(S)]
VolumeChart(S) == DailyVolume(S)
PeakHours(S) == HourlyVolume(S)
WeekdayChart(S) == RevenueByDayOfWeek(S)

(* Hisab's phone app ends its days at the last millisecond.                *)
PhoneDays(S, first, last) == TransactionsInRange(S, Midnight(first), EndOfDay(last))
PhoneThisMonth(S) == PhoneDays(S, FirstOf(0), LastOf(0))
PhoneDailyRevenue(S) ==
    [k \in 1..Days |-> SumCredits(S, PhoneDays(S, DaysAgo(Days - k), DaysAgo(Days - k)))]
PhoneTopCustomers(S, limit) ==
    FirstFew(Ranking(S, GroupBy([i \in Credits(S, DOMAIN S) |-> Payee(S[i])])), limit)
CategoryBreakdown(S, I) == Ranking(S, GroupBy([i \in I |-> S[i].merchant]))
ComputeInsights(S) ==
    [revenue |-> SumCredits(S, PhoneThisMonth(S)), count |-> Cardinality(PhoneThisMonth(S)),
     today |-> SumCredits(S, TodayTransactions(S)), sparkline |-> PhoneDailyRevenue(S)]
PhoneWindow(S) == PhoneDays(S, DaysAgo(Days - 1), Today)
PhoneAnalytics(S) ==
    [series |-> PhoneDailyRevenue(S), revenue |-> SumCredits(S, PhoneWindow(S)),
     spend |-> SumDebits(S, PhoneWindow(S)),
     slices |-> CategoryBreakdown(S, Debits(S, PhoneWindow(S)))]
CustomersScreen(S) == Shares(PhoneTopCustomers(S, Len(S)))

-----------------------------------------------------------------------------
(* Properties.                                                             *)

StatementsTypeOK ==
    /\ app \in StatementApps /\ connected \in BOOLEAN
    /\ scope \in Accounts \cup {"all"}
    /\ phase \in {"loading", "ready", "failed", "unconnected"}
    /\ \A a \in Accounts : \A t \in ToSet(books[a]) : t.account = a /\ t.after \in Nat
    /\ \A t \in ToSet(list) : t.account \in Accounts /\ t \in ToSet(books[t.account])

IsRanking(r) == \A j, k \in DOMAIN r : j < k => r[j].total >= r[k].total /\ r[j].name # r[k].name

(* Masroofi: the categories of a month add up to its debits, the ranking   *)
(* descends and names nothing twice, and the pages agree with each other.  *)
SpendingAddsUp ==
    LET month == SpendingMonth(list, 0) IN
    /\ Totals(month.summary) = SumDebits(list, month.tx)
    /\ Counts(month.summary) = Cardinality(Debits(list, month.tx))
    /\ IsRanking(month.summary) /\ SumOver(Shares(month.summary)) <= 100
    /\ IsRanking(TopMerchants(list)) /\ Totals(TopMerchants(list)) <= month.spending
    /\ MasroofiDashboard(list).spending = StatsRow(list).spent
    /\ MonthlyBars(list)[1] = StatsRow(list).before
    /\ IncomeVsSpending(list).net + StatsRow(list).spent = month.income
    /\ SpendingMini(list).total = StatsRow(list).spent
    /\ Breakdown(list).count = StatsRow(list).count

PhoneSpendingAddsUp ==
    LET dash == PhoneDashboard(list)
        page == PhoneSpending(list)
    IN /\ dash.spending = Totals(page.summary)
       /\ page.trend[Months] = dash.spending
       /\ IsRanking(page.merchants) /\ IsRanking(page.summary)
       /\ \A k \in DOMAIN page.summary :
             SumOver(CategorySparkRow(list, page.summary[k].name)) <= page.summary[k].total
       /\ \A k \in DOMAIN page.summary :
             LET rows == PhoneFilteredRows(list, PhoneMonth(list), page.summary[k].name, "")
             IN page.summary[k].total = SumDebits(rows, DOMAIN rows)
       /\ \A k \in DOMAIN TopCategories(list) : TopCategories(list)[k].total <= dash.spending

(* Hisab: charts and rankings add up to the credits they are made of.      *)
RevenueAddsUp ==
    /\ SumOver(WeekdayChart(list)) = SumCredits(list, DOMAIN list)
    /\ SumOver(PeakHours(list)) = Len(list)
    /\ SumOver([k \in DOMAIN MonthlyRevenue(list) |-> MonthlyRevenue(list)[k].revenue])
          <= SumCredits(list, DOMAIN list)
    /\ Totals(TopCustomers(list, Len(list))) = SumCredits(list, DOMAIN list)
    /\ IsRanking(DashboardCustomers(list))
    /\ CashFlow(list) \in 0..100
    /\ RevenueChart(list)[Days] <= HisabDashboard(list).today

PhoneRevenueAddsUp ==
    LET page == PhoneAnalytics(list) IN
    /\ SumOver(page.series) = page.revenue
    /\ page.series[Days] = ComputeInsights(list).today
    /\ Totals(page.slices) = page.spend
    /\ Totals(PhoneTopCustomers(list, Len(list))) = SumCredits(list, DOMAIN list)
    /\ SumOver(CustomersScreen(list)) <= 100

(* The groups are the matching rows, newest first, each in the one group   *)
(* of its day, and the days' totals are the totals of the summary.         *)
GroupsAreTheRows(groups, rows) ==
    /\ UNION {groups[k].rows : k \in DOMAIN groups} = DOMAIN rows
    /\ \A j, k \in DOMAIN groups : j < k =>
          /\ groups[j].day > groups[k].day
          /\ \A x \in groups[j].rows, y \in groups[k].rows : x < y
    /\ \A k \in DOMAIN groups : \A x \in groups[k].rows : DayOf(rows[x]) = groups[k].day
RowsAddUp ==
    \A filter \in Filters, query \in Texts \cup {""}, range \in Ranges :
        LET rows == FilteredRows(list, filter, query, range)
            groups == DateGroups(rows)
        IN /\ GroupsAreTheRows(groups, rows)
           /\ SumOver([k \in DOMAIN groups |-> groups[k].credit - groups[k].debit])
                 = SummaryRow(rows).net
PhoneRowsAddUp ==
    \A filter \in Filters \cup {"pending"}, query \in Texts \cup {""} :
        GroupsAreTheRows(HisabPhoneItems(list, filter, query),
                         NewestFirst(list, HisabPhoneRows(list, filter, query)))

(* Once an app has asked for its statement, what it shows adds up,         *)
(* whatever subset of the accounts answered and however the rows fall on   *)
(* the edges of days and months.                                           *)
ReportsAddUp == phase # "loading" =>
    /\ app = "masroofi" => SpendingAddsUp /\ RowsAddUp
    /\ app = "masroofiPhone" => PhoneSpendingAddsUp
    /\ app = "hisab" => RevenueAddsUp /\ RowsAddUp
    /\ app = "hisabPhone" => PhoneRevenueAddsUp /\ PhoneRowsAddUp

(* On the page of one account, with no filter, the balance computed beside *)
(* each row is the balance the bank had after that booking, also when the  *)
(* answer was cut at the row limit.                                        *)
AccountBalancesAreTheBanks ==
    app = "masroofi" /\ scope # "all" =>
        LET rows == FilteredRows(list, "all", "", "any")
        IN \A k \in DOMAIN rows : RunningBalances(rows)[k] = rows[k].after
=============================================================================
