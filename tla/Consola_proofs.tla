--------------------------- MODULE Consola_proofs ---------------------------
(***************************************************************************)
(* Proofs about Consola, for any number of people, categories, terminals   *)
(* and decisions.                                                          *)
(***************************************************************************)
EXTENDS Consola, TLAPS

(* What _apply leaves.                                                     *)
LEMMA AplicarBien ==
  ASSUME TypeOKAcceso, NEW u \in Usuarios, NEW t \in Tramites, Aplicar(u, t)
  PROVE  /\ titular' \in [Categorias -> Usuarios \cup {Nadie}]
         /\ cuenta' \in [Usuarios -> Cuentas]
         /\ \A x \in Usuarios : x # u => cuenta'[x] = cuenta[x]
         /\ t.tipo = "categoria" => cuenta'[u] = cuenta[u]
  <1>1. cuenta \in [Usuarios -> Cuentas] /\ titular \in [Categorias -> Usuarios \cup {Nadie}]
    BY DEF TypeOKAcceso
  <1>2. t.a \in Usuarios \cup {Nadie} /\ t.tipo \in Tipos
    BY DEF Tramites
  <1>3. titular' \in [Categorias -> Usuarios \cup {Nadie}]
    BY <1>1, <1>2 DEF Aplicar
  <1> DEFINE act == cuenta[u].activo /\ t.tipo # "desactivar"
             adm == cuenta[u].admin /\ t.tipo # "cambiar_rol"
             nueva == [cuenta[u] EXCEPT !.activo = act, !.admin = adm]
  <1>4. act \in BOOLEAN /\ adm \in BOOLEAN
    OBVIOUS
  <1>5. cuenta[u] \in Cuentas
    BY <1>1
  <1>6. t.tipo = "categoria" => act = cuenta[u].activo /\ adm = cuenta[u].admin
    BY <1>5 DEF Cuentas
  <1>7. cuenta' = [cuenta EXCEPT ![u] = nueva]
    BY <1>1, <1>5 DEF Aplicar, Cuentas
  <1> HIDE DEF act, adm
  <1>8. nueva \in Cuentas
    BY <1>4, <1>5 DEF Cuentas
  <1>9. t.tipo = "categoria" => nueva = cuenta[u]
    BY <1>5, <1>6 DEF Cuentas
  <1> QED BY <1>1, <1>3, <1>7, <1>8, <1>9

LEMMA PropuestosBien ==
  ASSUME NEW u, NEW tipo \in Tipos \ {"nada"}, NEW de
  PROVE  Propuestos(u, tipo, de) \subseteq Categorias
  BY DEF Propuestos, Tipos, Alcance, Propias

(* A request keeps the types, whether it is applied at once or waits.      *)
LEMMA SolicitarTipos ==
  ASSUME TypeOKAcceso, NEW u \in Usuarios, NEW t \in Tramites, t.tipo # "nada", Solicitar(u, t)
  PROVE  TypeOKAcceso'
  <1>1. tramite \in [Usuarios -> Tramites]
    BY DEF TypeOKAcceso
  <1>2. CASE Aplicar(u, t) /\ UNCHANGED tramite
    BY <1>1, <1>2, AplicarBien DEF TypeOKAcceso
  <1>3. CASE /\ tramite' = [tramite EXCEPT ![u] = [t EXCEPT !.propuestos = Propuestos(u, t.tipo, t.de)]]
             /\ UNCHANGED <<titular, cuenta>>
    <2>1. t.tipo \in Tipos \ {"nada"}
      BY DEF Tramites
    <2>2. Propuestos(u, t.tipo, t.de) \in SUBSET Categorias
      BY <2>1, PropuestosBien
    <2>3. [t EXCEPT !.propuestos = Propuestos(u, t.tipo, t.de)] \in Tramites
      BY <2>2 DEF Tramites
    <2> QED BY <1>1, <1>3, <2>3 DEF TypeOKAcceso
  <1> QED BY <1>2, <1>3 DEF Solicitar

(* A request leaves an administrator who can act.                          *)
LEMMA SolicitarDejaAdmin ==
  ASSUME TypeOKAcceso, UltimoAdmin, NEW u \in Usuarios, NEW t \in Tramites, t.tipo # "nada", Solicitar(u, t)
  PROVE  UltimoAdmin'
  <1>1. /\ cuenta \in [Usuarios -> Cuentas] /\ tramite \in [Usuarios -> Tramites]
        /\ t.tipo \in {"categoria", "desactivar", "cambiar_rol"}
    BY DEF TypeOKAcceso, Tramites, Tipos
  <1>2. \/ Aplicar(u, t) /\ UNCHANGED tramite
        \/ /\ tramite' = [tramite EXCEPT ![u] = [t EXCEPT !.propuestos = Propuestos(u, t.tipo, t.de)]]
           /\ UNCHANGED cuenta
    BY DEF Solicitar
  <1>3. \A x \in Usuarios : x # u => cuenta'[x] = cuenta[x] /\ tramite'[x] = tramite[x]
    BY <1>1, <1>2, AplicarBien
  <1>4. t.tipo = "categoria" => cuenta'[u] = cuenta[u] /\ tramite'[u].tipo \in {tramite[u].tipo, "categoria"}
    BY <1>1, <1>2, AplicarBien DEF Tramites
  <1>5. PICK x \in Usuarios : cuenta[x].activo /\ cuenta[x].admin /\ tramite[x].tipo \in {"nada", "categoria"}
    BY DEF UltimoAdmin
  <1>6. CASE x # u
    BY <1>3, <1>5, <1>6 DEF UltimoAdmin
  <1>7. CASE x = u /\ t.tipo = "categoria"
    BY <1>4, <1>5, <1>7 DEF UltimoAdmin
  <1>8. CASE x = u /\ t.tipo # "categoria"
    <2>1. u \in Admins
      BY <1>5, <1>8 DEF Admins
    <2>2. QuedaOtro(u, t.tipo)
      BY DEF Solicitar, Admisible
    <2>3. PICK y \in AdminsDisponibles \ {u} : TRUE
      BY <1>1, <1>8, <2>1, <2>2 DEF QuedaOtro
    <2> QED BY <1>3, <2>3 DEF UltimoAdmin, AdminsDisponibles, Admins, Operativa
  <1> QED BY <1>6, <1>7, <1>8

(* The completion of a procedure keeps both: it stopped the account, if it *)
(* is about it, since it was asked for.                                    *)
LEMMA ConfirmarBien ==
  ASSUME TypeOKAcceso, UltimoAdmin, NEW u \in Usuarios, Confirmar(u)
  PROVE  TypeOKAcceso' /\ UltimoAdmin'
  <1>1. cuenta \in [Usuarios -> Cuentas] /\ tramite \in [Usuarios -> Tramites] /\ SinTramite \in Tramites
    BY DEF TypeOKAcceso, Tramites, SinTramite, Tipos
  <1>2. tramite[u] \in Tramites /\ Aplicar(u, tramite[u]) /\ tramite' = [tramite EXCEPT ![u] = SinTramite]
    BY <1>1 DEF Confirmar
  <1>3. TypeOKAcceso'
    BY <1>1, <1>2, AplicarBien DEF TypeOKAcceso
  <1>4. PICK x \in Usuarios : cuenta[x].activo /\ cuenta[x].admin /\ tramite[x].tipo \in {"nada", "categoria"}
    BY DEF UltimoAdmin
  <1>5. CASE x # u
    BY <1>1, <1>2, <1>3, <1>4, <1>5, AplicarBien DEF UltimoAdmin
  <1>6. CASE x = u
    <2>1. tramite[u].tipo = "categoria"
      BY <1>4, <1>6 DEF Confirmar, Confirmable, Abierto
    <2>2. cuenta'[u] = cuenta[u] /\ tramite'[u].tipo = "nada"
      BY <1>1, <1>2, <2>1, AplicarBien DEF SinTramite
    <2> QED BY <1>3, <1>4, <1>6, <2>2 DEF UltimoAdmin
  <1> QED BY <1>3, <1>5, <1>6

(* The decisions of the administration keep both.                          *)
LEMMA AdministrarBien ==
  ASSUME TypeOKAcceso, UltimoAdmin, Administrar
  PROVE  TypeOKAcceso' /\ UltimoAdmin'
  <1>1. cuenta \in [Usuarios -> Cuentas] /\ titular \in [Categorias -> Usuarios \cup {Nadie}]
        /\ tramite \in [Usuarios -> Tramites]
    BY DEF TypeOKAcceso
  <1>2. ASSUME NEW c \in Categorias, NEW v \in Usuarios \cup {Nadie}, Reasignar(c, v)
        PROVE  TypeOKAcceso' /\ UltimoAdmin'
    <2> DEFINE t == [SinTramite EXCEPT !.tipo = "categoria", !.de = {c}, !.a = v]
    <2>1. titular[c] \in Usuarios /\ Solicitar(titular[c], t)
      BY <1>1, <1>2 DEF Reasignar
    <2>2. t \in Tramites /\ t.tipo # "nada"
      BY DEF SinTramite, Tramites, Tipos
    <2> HIDE DEF t
    <2> QED BY <2>1, <2>2, SolicitarTipos, SolicitarDejaAdmin
  <1>3. ASSUME NEW u \in Usuarios, Desactivar(u) \/ Degradar(u)
        PROVE  TypeOKAcceso' /\ UltimoAdmin'
    <2>1. ASSUME NEW tipo \in {"desactivar", "cambiar_rol"}, Solicitar(u, [SinTramite EXCEPT !.tipo = tipo])
          PROVE  TypeOKAcceso' /\ UltimoAdmin'
      <3> DEFINE t == [SinTramite EXCEPT !.tipo = tipo]
      <3>1. t \in Tramites /\ t.tipo # "nada"
        BY DEF SinTramite, Tramites, Tipos
      <3>2. Solicitar(u, t)
        BY <2>1
      <3> HIDE DEF t
      <3> QED BY <3>1, <3>2, SolicitarTipos, SolicitarDejaAdmin
    <2> QED BY <1>3, <2>1 DEF Desactivar, Degradar
  <1>4. ASSUME NEW c \in Categorias, NEW v \in Usuarios, Asignar(c, v)
        PROVE  TypeOKAcceso' /\ UltimoAdmin'
    BY <1>1, <1>4 DEF Asignar, TypeOKAcceso, UltimoAdmin
  <1>5. ASSUME NEW u \in Usuarios, Conceder(u)
        PROVE  TypeOKAcceso' /\ UltimoAdmin'
    <2>1. /\ [cuenta EXCEPT ![u].activo = TRUE] \in [Usuarios -> Cuentas]
          /\ [cuenta EXCEPT ![u].admin = TRUE] \in [Usuarios -> Cuentas]
      BY <1>1 DEF Cuentas
    <2>2. \A x \in Usuarios : cuenta[x].activo /\ cuenta[x].admin => cuenta'[x].activo /\ cuenta'[x].admin
      BY <1>1, <1>5 DEF Conceder, Cuentas
    <2>3. cuenta' \in [Usuarios -> Cuentas] /\ UNCHANGED <<titular, tramite>>
      BY <1>5, <2>1 DEF Conceder
    <2> QED BY <1>1, <2>2, <2>3 DEF TypeOKAcceso, UltimoAdmin
  <1> QED BY <1>2, <1>3, <1>4, <1>5 DEF Administrar

(* What holds between the steps of one execution of the job, whatever the  *)
(* others do: the account in hand, what it loses and, as long as no other  *)
(* call has given it anything, what Proxmox already lets it do.            *)
Cortado(p) == pasada[p].fase \in {"probar", "guardar", "inventario", "completar"}
SinConsola(u, q) ==
  \A t \in Terminales :
    terminales[t].etapa = "conectada" /\ terminales[t].u = u => terminales[t].c \cap q = {}

EnMano(p) ==
  /\ pasada[p].fase # "elegir" => pasada[p].u \in Usuarios
  /\ pasada[p].quitados \cap pasada[p].deseados = {}
  /\ Otorgado(p) /\ ~pasada[p].ajena => pve[pasada[p].u] \subseteq pasada[p].deseados
  /\ Cortado(p) /\ ~pasada[p].ajena => SinConsola(pasada[p].u, pasada[p].quitados)

IInv == TypeOK /\ UltimoAdmin /\ \A p \in Trabajos : EnMano(p)

LEMMA ReposoBien ==
  Reposo \in Pasadas /\ Reposo.quitados = {} /\ Reposo.fase = "elegir"
  BY DEF Reposo, Pasadas

LEMMA PasaBien ==
  ASSUME NEW s \in Pasadas,
         NEW f \in {"cortar", "terminar", "probar", "guardar", "inventario", "completar"}
  PROVE  LET r == [s EXCEPT !.fase = f]
         IN /\ r \in Pasadas /\ r.fase = f /\ r.u = s.u /\ r.deseados = s.deseados
            /\ r.quitados = s.quitados /\ r.ajena = s.ajena
  BY DEF Pasadas

LEMMA InicioBien == Init => IInv
  <1> SUFFICES ASSUME Init PROVE IInv
    OBVIOUS
  <1>1. cuenta \in [Usuarios -> Cuentas]
    BY DEF Init, InitAcceso, Cuentas
  <1>2. tramite \in [Usuarios -> Tramites] /\ \A u \in Usuarios : tramite[u].tipo = "nada"
    BY DEF Init, InitAcceso, Tramites, SinTramite, Tipos
  <1>3. TypeOKAcceso
    BY <1>1, <1>2 DEF Init, InitAcceso, TypeOKAcceso
  <1>4. \A u \in Usuarios : Alcance(u) \in SUBSET Categorias
    BY DEF Alcance, Propias
  <1>5. pve \in [Usuarios -> SUBSET Categorias]
    BY <1>4 DEF Init
  <1>6. identidad \in [Usuarios -> Filas] /\ tardias \subseteq Llamadas
        /\ terminales \in [Terminales -> Sesiones]
    BY <1>5 DEF Init, Filas, Sesiones, Fuera
  <1>7. UltimoAdmin
    BY <1>2 DEF Init, InitAcceso, UltimoAdmin, Admins
  <1>8. \A p \in Trabajos : EnMano(p)
    BY ReposoBien DEF Init, EnMano, Otorgado, Cortado
  <1>9. pasada \in [Trabajos -> Pasadas]
    BY ReposoBien DEF Init
  <1> QED BY <1>3, <1>5, <1>6, <1>7, <1>8, <1>9 DEF IInv, TypeOK

(* What leaves accounts and procedures alone leaves the administrator.     *)
LEMMA AccesoIgual ==
  ASSUME IInv, UNCHANGED varsAcceso
  PROVE  TypeOKAcceso' /\ UltimoAdmin'
  BY DEF IInv, TypeOK, TypeOKAcceso, UltimoAdmin, varsAcceso

LEMMA ConsolaIgual ==
  ASSUME IInv, UNCHANGED varsConsola, TypeOKAcceso', UltimoAdmin'
  PROVE  IInv'
  BY DEF IInv, TypeOK, varsConsola, EnMano, Otorgado, Cortado, SinConsola

(* No console is opened.                                                   *)
SoloCierra ==
  \A t \in Terminales : terminales'[t].etapa = "conectada" =>
    /\ terminales[t].etapa = "conectada" /\ terminales'[t].u = terminales[t].u
    /\ terminales'[t].c = terminales[t].c

(* An execution that does not move, while permissions stay as they are and *)
(* consoles are at most closed.                                            *)
LEMMA QuietaBien ==
  ASSUME NEW q \in Trabajos, EnMano(q), pasada'[q] = pasada[q], pve' = pve, SoloCierra
  PROVE  EnMano(q)'
  BY DEF EnMano, Otorgado, Cortado, SinConsola, SoloCierra

(* One that does not move while the permissions of an account change.      *)
LEMMA CruzadaBien ==
  ASSUME IInv, NEW u \in Usuarios, NEW n \in SUBSET Categorias, NEW q \in Trabajos,
         pve' = [pve EXCEPT ![u] = n], pasada'[q] = Cruzadas(u, n)[q], UNCHANGED terminales
  PROVE  pasada'[q] \in Pasadas /\ EnMano(q)'
  <1>1. pasada[q] \in Pasadas /\ pve \in [Usuarios -> SUBSET Categorias] /\ EnMano(q)
    BY DEF IInv, TypeOK
  <1>2. CASE Otorgado(q) /\ pasada[q].u = u /\ ~(n \subseteq pve[u])
    <2> DEFINE r == [pasada[q] EXCEPT !.ajena = TRUE]
    <2>1. r \in Pasadas /\ r.ajena /\ r.u = pasada[q].u /\ r.quitados = pasada[q].quitados
          /\ r.deseados = pasada[q].deseados /\ r.fase = pasada[q].fase
      BY <1>1 DEF Pasadas
    <2>2. pasada'[q] = r
      BY <1>2 DEF Cruzadas
    <2> HIDE DEF r
    <2> QED BY <1>1, <2>1, <2>2 DEF EnMano
  <1>3. CASE ~(Otorgado(q) /\ pasada[q].u = u /\ ~(n \subseteq pve[u]))
    <2>1. pasada'[q] = pasada[q]
      BY <1>3 DEF Cruzadas
    <2>2. Otorgado(q) => pve'[pasada[q].u] \subseteq pve[pasada[q].u]
      BY <1>1, <1>3
    <2> QED BY <1>1, <2>1, <2>2 DEF EnMano, Otorgado, Cortado, SinConsola
  <1> QED BY <1>2, <1>3

(* A step of one execution to another of its phases, or its end.           *)
LEMMA PasoBien ==
  ASSUME IInv, NEW p \in Trabajos, NEW r \in Pasadas, pasada' = [pasada EXCEPT ![p] = r],
         pve' = pve, SoloCierra, EnMano(p)'
  PROVE  pasada' \in [Trabajos -> Pasadas] /\ \A q \in Trabajos : EnMano(q)'
  <1>1. pasada \in [Trabajos -> Pasadas]
    BY DEF IInv, TypeOK
  <1>2. ASSUME NEW q \in Trabajos, q # p PROVE EnMano(q)'
    BY <1>1, <1>2, QuietaBien DEF IInv
  <1> QED BY <1>1, <1>2

LEMMA PrepararBien ==
  ASSUME IInv, NEW p \in Trabajos, NEW u \in Usuarios, Preparar(p, u)
  PROVE  IInv'
  <1> DEFINE d == Deseados(u)
             lista == identidad[u].estado = "lista"
             r == [fase |-> "otorgar", u |-> u, deseados |-> d, quitados |-> identidad[u].aplicados \ d,
                   lista |-> lista, ajena |-> FALSE]
  <1>1. identidad \in [Usuarios -> Filas] /\ pasada \in [Trabajos -> Pasadas]
    BY DEF IInv, TypeOK
  <1>2. d \in SUBSET Categorias /\ identidad[u].aplicados \in SUBSET Categorias /\ lista \in BOOLEAN
    BY <1>1 DEF Deseados, Alcance, Propias, Filas
  <1>3. identidad' = [identidad EXCEPT ![u].estado = "en_preparacion"] \/ identidad' = identidad
    BY DEF Preparar
  <1>4. identidad' \in [Usuarios -> Filas]
    BY <1>1, <1>3 DEF Filas
  <1>5. pasada' = [pasada EXCEPT ![p] = r]
    BY DEF Preparar
  <1>6. UNCHANGED <<varsAcceso, pve, tardias, terminales>>
    BY DEF Preparar
  <1> HIDE DEF d, lista
  <1>7. r \in Pasadas /\ r.fase = "otorgar" /\ r.u = u /\ r.quitados \cap r.deseados = {}
    BY <1>2 DEF Pasadas
  <1> HIDE DEF r
  <1>8. EnMano(p)'
    BY <1>1, <1>5, <1>7 DEF EnMano, Otorgado, Cortado
  <1>9. SoloCierra
    BY <1>6 DEF SoloCierra
  <1>10. pasada' \in [Trabajos -> Pasadas] /\ \A q \in Trabajos : EnMano(q)'
    BY <1>5, <1>6, <1>7, <1>8, <1>9, PasoBien
  <1>11. TypeOKAcceso' /\ UltimoAdmin'
    BY <1>6, AccesoIgual
  <1> QED BY <1>4, <1>6, <1>10, <1>11 DEF IInv, TypeOK

LEMMA ParcialesBien ==
  ASSUME pve \in [Usuarios -> SUBSET Categorias], NEW u \in Usuarios, NEW c \in SUBSET Categorias,
         NEW n \in Parciales(u, c)
  PROVE  n \in SUBSET Categorias
  BY DEF Parciales

LEMMA OtorgarBien ==
  ASSUME IInv, NEW p \in Trabajos, Otorgar(p)
  PROVE  IInv'
  <1> DEFINE s == pasada[p]
             r == [s EXCEPT !.fase = "cortar"]
  <1>1. /\ pasada \in [Trabajos -> Pasadas] /\ pve \in [Usuarios -> SUBSET Categorias]
        /\ s \in Pasadas /\ EnMano(p)
    BY DEF IInv, TypeOK
  <1>2. s.u \in Usuarios /\ s.deseados \in SUBSET Categorias /\ s.quitados \cap s.deseados = {}
    BY <1>1 DEF EnMano, Otorgar, En, Pasadas
  <1>3. /\ pve' = [pve EXCEPT ![s.u] = s.deseados]
        /\ pasada' = [Cruzadas(s.u, s.deseados) EXCEPT ![p] = r]
        /\ UNCHANGED <<varsAcceso, identidad, tardias, terminales>>
    BY DEF Otorgar
  <1>4. r \in Pasadas /\ r.fase = "cortar" /\ r.u = s.u /\ r.deseados = s.deseados
        /\ r.quitados = s.quitados
    BY <1>1, PasaBien
  <1>5. pasada'[p] = r /\ pasada' = [q \in Trabajos |-> pasada'[q]]
        /\ \A q \in Trabajos \ {p} : pasada'[q] = Cruzadas(s.u, s.deseados)[q]
    BY <1>3 DEF Cruzadas
  <1> HIDE DEF r, s
  <1>6. EnMano(p)'
    BY <1>1, <1>2, <1>3, <1>4, <1>5 DEF EnMano, Otorgado, Cortado
  <1>7. \A q \in Trabajos \ {p} : pasada'[q] \in Pasadas /\ EnMano(q)'
    BY <1>2, <1>3, <1>5, CruzadaBien
  <1>8. TypeOKAcceso' /\ UltimoAdmin'
    BY <1>3, AccesoIgual
  <1>9. pasada' \in [Trabajos -> Pasadas] /\ pve' \in [Usuarios -> SUBSET Categorias]
    BY <1>1, <1>2, <1>3, <1>4, <1>5, <1>7
  <1>10. \A q \in Trabajos : EnMano(q)'
    BY <1>6, <1>7
  <1> QED BY <1>3, <1>8, <1>9, <1>10 DEF IInv, TypeOK

LEMMA FallaBien ==
  ASSUME IInv, NEW p \in Trabajos, pasada[p].u \in Usuarios, Falla(p)
  PROVE  identidad' \in [Usuarios -> Filas]
  <1>1. identidad \in [Usuarios -> Filas]
    BY DEF IInv, TypeOK
  <1>2. \E e \in {"lista", "en_preparacion"} : identidad' = [identidad EXCEPT ![pasada[p].u].estado = e]
    BY DEF Falla
  <1> QED BY <1>1, <1>2 DEF Filas

LEMMA FallaOtorgarBien ==
  ASSUME IInv, NEW p \in Trabajos, FallaOtorgar(p)
  PROVE  IInv'
  <1> DEFINE s == pasada[p]
  <1>1. /\ pasada \in [Trabajos -> Pasadas] /\ pve \in [Usuarios -> SUBSET Categorias]
        /\ s \in Pasadas /\ s.u \in Usuarios /\ s.deseados \in SUBSET Categorias
    BY DEF IInv, TypeOK, EnMano, FallaOtorgar, En, Pasadas
  <1>2. PICK n \in Parciales(s.u, s.deseados) :
          /\ pve' = [pve EXCEPT ![s.u] = n]
          /\ pasada' = [Cruzadas(s.u, n) EXCEPT ![p] = Reposo]
    BY DEF FallaOtorgar
  <1>3. UNCHANGED <<varsAcceso, tardias, terminales>> /\ Falla(p)
    BY DEF FallaOtorgar
  <1>4. n \in SUBSET Categorias
    BY <1>1, ParcialesBien
  <1>5. pasada'[p] = Reposo /\ pasada' = [q \in Trabajos |-> pasada'[q]]
        /\ \A q \in Trabajos \ {p} : pasada'[q] = Cruzadas(s.u, n)[q]
    BY <1>2 DEF Cruzadas
  <1>6. identidad' \in [Usuarios -> Filas]
    BY <1>1, <1>3, FallaBien
  <1> HIDE DEF s
  <1>7. EnMano(p)'
    BY <1>5, ReposoBien DEF EnMano, Otorgado, Cortado
  <1>8. \A q \in Trabajos \ {p} : pasada'[q] \in Pasadas /\ EnMano(q)'
    BY <1>1, <1>2, <1>3, <1>4, <1>5, CruzadaBien
  <1>9. TypeOKAcceso' /\ UltimoAdmin'
    BY <1>3, AccesoIgual
  <1>10. pasada' \in [Trabajos -> Pasadas] /\ pve' \in [Usuarios -> SUBSET Categorias]
    BY <1>1, <1>2, <1>4, <1>5, <1>8, ReposoBien
  <1>11. \A q \in Trabajos : EnMano(q)'
    BY <1>7, <1>8
  <1> QED BY <1>3, <1>6, <1>9, <1>10, <1>11 DEF IInv, TypeOK

LEMMA AbandonarBien ==
  ASSUME IInv, NEW p \in Trabajos, Abandonar(p)
  PROVE  IInv'
  <1>1. pasada[p] \in Pasadas /\ pasada[p].u \in Usuarios
    BY DEF IInv, TypeOK, EnMano, Abandonar, En
  <1>2. [u |-> pasada[p].u, pools |-> pasada[p].deseados] \in Llamadas
    BY <1>1 DEF Pasadas, Llamadas
  <1>3. tardias' \subseteq Llamadas
    BY <1>2 DEF Abandonar, IInv, TypeOK
  <1>4. UNCHANGED <<varsAcceso, identidad, pve, pasada, terminales>>
    BY DEF Abandonar
  <1>5. TypeOKAcceso' /\ UltimoAdmin'
    BY <1>4, AccesoIgual
  <1>6. \A q \in Trabajos : EnMano(q)'
    BY <1>4 DEF IInv, EnMano, Otorgado, Cortado, SinConsola
  <1> QED BY <1>3, <1>4, <1>5, <1>6 DEF IInv, TypeOK

LEMMA TardarBien ==
  ASSUME IInv, NEW l \in tardias, Tardar(l)
  PROVE  IInv'
  <1>1. l.u \in Usuarios /\ l.pools \in SUBSET Categorias /\ tardias' \subseteq Llamadas
        /\ pve \in [Usuarios -> SUBSET Categorias]
    BY DEF IInv, TypeOK, Llamadas, Tardar
  <1>2. PICK n \in Parciales(l.u, l.pools) :
          pve' = [pve EXCEPT ![l.u] = n] /\ pasada' = Cruzadas(l.u, n)
    BY DEF Tardar
  <1>3. UNCHANGED <<varsAcceso, identidad, terminales>>
    BY DEF Tardar
  <1>4. n \in SUBSET Categorias
    BY <1>1, ParcialesBien
  <1>5. \A q \in Trabajos : pasada'[q] \in Pasadas /\ EnMano(q)'
    BY <1>1, <1>2, <1>3, <1>4, CruzadaBien
  <1>6. pasada' \in [Trabajos -> Pasadas]
    BY <1>2, <1>5 DEF Cruzadas
  <1>7. pve' \in [Usuarios -> SUBSET Categorias]
    BY <1>1, <1>2, <1>4
  <1>8. TypeOKAcceso' /\ UltimoAdmin'
    BY <1>3, AccesoIgual
  <1> QED BY <1>1, <1>3, <1>5, <1>6, <1>7, <1>8 DEF IInv, TypeOK

LEMMA CortarBien ==
  ASSUME IInv, NEW p \in Trabajos, Cortar(p)
  PROVE  IInv'
  <1> DEFINE s == pasada[p]
             cierre(t) == terminales[t].cierre \/ (terminales[t].u = s.u
                                                    /\ terminales[t].c \cap s.quitados # {})
             r == [s EXCEPT !.fase = "terminar"]
  <1>1. /\ pasada \in [Trabajos -> Pasadas] /\ s \in Pasadas /\ EnMano(p)
        /\ terminales \in [Terminales -> Sesiones] /\ s.fase = "cortar"
    BY DEF IInv, TypeOK, Cortar, En
  <1>2. \A t \in Terminales : cierre(t) \in BOOLEAN
    BY <1>1 DEF Sesiones
  <1>3. terminales' = [t \in Terminales |-> [terminales[t] EXCEPT !.cierre = cierre(t)]]
    BY <1>1 DEF Cortar, Sesiones
  <1>4. r \in Pasadas /\ r.fase = "terminar" /\ r.u = s.u /\ r.deseados = s.deseados
        /\ r.quitados = s.quitados /\ r.ajena = s.ajena
    BY <1>1, PasaBien
  <1>5. pasada' = [pasada EXCEPT ![p] = r] /\ UNCHANGED <<varsAcceso, identidad, pve, tardias>>
    BY DEF Cortar, Pasa
  <1> HIDE DEF cierre, r, s
  <1>6. ASSUME NEW t \in Terminales
        PROVE  /\ terminales'[t] \in Sesiones /\ terminales'[t].etapa = terminales[t].etapa
               /\ terminales'[t].u = terminales[t].u /\ terminales'[t].c = terminales[t].c
    <2>1. terminales[t] \in Sesiones /\ cierre(t) \in BOOLEAN
      BY <1>1, <1>2
    <2> QED BY <1>3, <2>1 DEF Sesiones
  <1>7. terminales' \in [Terminales -> Sesiones] /\ SoloCierra
    BY <1>3, <1>6 DEF SoloCierra
  <1>8. EnMano(p)'
    BY <1>1, <1>4, <1>5 DEF EnMano, Otorgado, Cortado, s
  <1>9. pasada' \in [Trabajos -> Pasadas] /\ \A q \in Trabajos : EnMano(q)'
    BY <1>4, <1>5, <1>7, <1>8, PasoBien
  <1>10. TypeOKAcceso' /\ UltimoAdmin'
    BY <1>5, AccesoIgual
  <1> QED BY <1>5, <1>7, <1>9, <1>10 DEF IInv, TypeOK

LEMMA TerminarBien ==
  ASSUME IInv, NEW p \in Trabajos, Terminar(p)
  PROVE  IInv'
  <1> DEFINE s == pasada[p]
             f == IF Retira(p) THEN "probar" ELSE "guardar"
             r == [s EXCEPT !.fase = f]
  <1>1. /\ pasada \in [Trabajos -> Pasadas] /\ s \in Pasadas /\ EnMano(p)
        /\ terminales \in [Terminales -> Sesiones] /\ s.fase = "terminar"
        /\ Fuera \in Sesiones /\ Fuera.etapa = "fuera"
    BY DEF IInv, TypeOK, Terminar, En, Fuera, Sesiones
  <1>2. f \in {"probar", "guardar"}
    OBVIOUS
  <1>3. pasada' = [pasada EXCEPT ![p] = r] /\ UNCHANGED <<varsAcceso, identidad, pve, tardias>>
    BY DEF Terminar, Pasa
  <1> HIDE DEF f
  <1>4. r \in Pasadas /\ r.fase = f /\ r.u = s.u /\ r.deseados = s.deseados
        /\ r.quitados = s.quitados /\ r.ajena = s.ajena
    BY <1>1, <1>2 DEF Pasadas
  <1>5. terminales' \in [Terminales -> Sesiones]
    BY <1>1 DEF Terminar
  <1>6. \A t \in Terminales :
          \/ terminales'[t] = Fuera
          \/ /\ terminales'[t] = terminales[t]
             /\ ~(terminales[t].etapa = "conectada" /\ terminales[t].c \cap s.quitados # {})
    BY <1>1 DEF Terminar
  <1> HIDE DEF r, s
  <1>7. SoloCierra /\ (SinConsola(s.u, s.quitados))'
    <2>1. s' = pasada'[p] /\ pasada'[p] = r
      BY <1>1, <1>3 DEF s
    <2> QED BY <1>1, <1>4, <1>6, <2>1 DEF SinConsola, SoloCierra
  <1>8. EnMano(p)'
    BY <1>1, <1>2, <1>3, <1>4, <1>7 DEF EnMano, Otorgado, Cortado, s
  <1>9. pasada' \in [Trabajos -> Pasadas] /\ \A q \in Trabajos : EnMano(q)'
    BY <1>3, <1>4, <1>7, <1>8, PasoBien
  <1>10. TypeOKAcceso' /\ UltimoAdmin'
    BY <1>3, AccesoIgual
  <1> QED BY <1>3, <1>5, <1>9, <1>10 DEF IInv, TypeOK

(* The end of an execution, or the step after its sessions were cut.       *)
LEMMA SigueEnMano ==
  ASSUME IInv, NEW p \in Trabajos, UNCHANGED <<pve, terminales>>,
         \/ Deja(p)
         \/ Cortado(p) /\ \E f \in {"guardar", "inventario", "completar"} : Pasa(p, f)
  PROVE  pasada' \in [Trabajos -> Pasadas] /\ \A q \in Trabajos : EnMano(q)'
  <1>1. pasada \in [Trabajos -> Pasadas] /\ pasada[p] \in Pasadas /\ EnMano(p) /\ SoloCierra
    BY DEF IInv, TypeOK, SoloCierra
  <1>2. CASE Deja(p)
    <2>1. EnMano(p)'
      BY <1>1, <1>2, ReposoBien DEF Deja, EnMano, Otorgado, Cortado
    <2> QED BY <1>1, <1>2, <2>1, ReposoBien, PasoBien DEF Deja
  <1>3. ASSUME Cortado(p), NEW f \in {"guardar", "inventario", "completar"}, Pasa(p, f)
        PROVE  pasada' \in [Trabajos -> Pasadas] /\ \A q \in Trabajos : EnMano(q)'
    <2> DEFINE r == [pasada[p] EXCEPT !.fase = f]
    <2>1. r \in Pasadas /\ r.fase = f /\ r.u = pasada[p].u /\ r.deseados = pasada[p].deseados
          /\ r.quitados = pasada[p].quitados /\ r.ajena = pasada[p].ajena
      BY <1>1 DEF Pasadas
    <2>2. pasada' = [pasada EXCEPT ![p] = r]
      BY <1>3 DEF Pasa
    <2> HIDE DEF r
    <2>3. EnMano(p)'
      BY <1>1, <1>3, <2>1, <2>2 DEF EnMano, Otorgado, Cortado, SinConsola
    <2> QED BY <1>1, <2>1, <2>2, <2>3, PasoBien
  <1> QED BY <1>2, <1>3

LEMMA FallaTerminarBien ==
  ASSUME IInv, NEW p \in Trabajos, FallaTerminar(p)
  PROVE  IInv'
  <1>1. pasada[p].u \in Usuarios
    BY DEF IInv, EnMano, FallaTerminar
  <1>2. identidad' \in [Usuarios -> Filas]
    BY <1>1, FallaBien DEF FallaTerminar
  <1>3. pasada' \in [Trabajos -> Pasadas] /\ \A q \in Trabajos : EnMano(q)'
    BY SigueEnMano DEF FallaTerminar
  <1>4. TypeOKAcceso' /\ UltimoAdmin'
    BY AccesoIgual DEF FallaTerminar
  <1> QED BY <1>2, <1>3, <1>4 DEF IInv, TypeOK, FallaTerminar

(* A probe that finds nothing, and the worker's death.                     *)
LEMMA ProbarMuereBien ==
  ASSUME IInv, NEW p \in Trabajos, Probar(p) \/ Muere(p)
  PROVE  IInv'
  <1>1. UNCHANGED <<varsAcceso, identidad, pve, tardias, terminales>>
    BY DEF Probar, Muere
  <1>2. pasada' \in [Trabajos -> Pasadas] /\ \A q \in Trabajos : EnMano(q)'
    BY <1>1, SigueEnMano DEF Probar, Muere, Cortado, En
  <1>3. TypeOKAcceso' /\ UltimoAdmin'
    BY <1>1, AccesoIgual
  <1> QED BY <1>1, <1>2, <1>3 DEF IInv, TypeOK

LEMMA GuardarBien ==
  ASSUME IInv, NEW p \in Trabajos, Guardar(p)
  PROVE  IInv'
  <1>1. identidad \in [Usuarios -> Filas] /\ pasada[p].deseados \in SUBSET Categorias
    BY DEF IInv, TypeOK, Pasadas
  <1>2. PICK e \in {"retirada", "lista"} :
          identidad' = [identidad EXCEPT ![pasada[p].u] = [estado |-> e, aplicados |-> pasada[p].deseados]]
    BY DEF Guardar
  <1> DEFINE fila == [estado |-> e, aplicados |-> pasada[p].deseados]
  <1>3. fila \in Filas
    BY <1>1 DEF Filas
  <1>4. identidad' = [identidad EXCEPT ![pasada[p].u] = fila]
    BY <1>2
  <1> HIDE DEF fila
  <1>5. identidad' \in [Usuarios -> Filas]
    BY <1>1, <1>3, <1>4
  <1>6. Pasa(p, "inventario") \/ Pasa(p, "completar")
    BY DEF Guardar
  <1>7. pasada' \in [Trabajos -> Pasadas] /\ \A q \in Trabajos : EnMano(q)'
    BY <1>6, SigueEnMano DEF Guardar, Cortado, En
  <1>8. TypeOKAcceso' /\ UltimoAdmin'
    BY AccesoIgual DEF Guardar
  <1> QED BY <1>5, <1>7, <1>8 DEF Guardar, IInv, TypeOK

LEMMA InventariarBien ==
  ASSUME IInv, NEW p \in Trabajos, Inventariar(p)
  PROVE  IInv'
  <1> DEFINE u == pasada[p].u
             asignada == ~Retira(p)
  <1>1. /\ cuenta \in [Usuarios -> Cuentas] /\ u \in Usuarios
        /\ titular \in [Categorias -> Usuarios \cup {Nadie}] /\ tramite \in [Usuarios -> Tramites]
    BY DEF IInv, TypeOK, TypeOKAcceso, EnMano, Inventariar, En
  <1>2. asignada \in BOOLEAN /\ cuenta' = [cuenta EXCEPT ![u].asignada = asignada]
    BY DEF Inventariar
  <1>3. UNCHANGED <<titular, tramite, identidad, pve, tardias, terminales>>
    BY DEF Inventariar
  <1>4. pasada' \in [Trabajos -> Pasadas] /\ \A q \in Trabajos : EnMano(q)'
    BY SigueEnMano DEF Inventariar, Cortado, En
  <1> HIDE DEF asignada, u
  <1>5. cuenta' \in [Usuarios -> Cuentas]
    <2>1. cuenta[u] \in Cuentas
      BY <1>1
    <2>2. [cuenta[u] EXCEPT !.asignada = asignada] \in Cuentas
      BY <1>2, <2>1 DEF Cuentas
    <2> QED BY <1>1, <1>2, <2>2
  <1>6. \A x \in Usuarios : cuenta'[x].activo = cuenta[x].activo /\ cuenta'[x].admin = cuenta[x].admin
    BY <1>1, <1>2 DEF Cuentas
  <1>7. UltimoAdmin'
    BY <1>3, <1>6 DEF IInv, UltimoAdmin
  <1> QED BY <1>1, <1>3, <1>4, <1>5, <1>7 DEF IInv, TypeOK, TypeOKAcceso

LEMMA CompletarBien ==
  ASSUME IInv, NEW p \in Trabajos, Completar(p)
  PROVE  IInv'
  <1>1. pasada[p].u \in Usuarios
    BY DEF IInv, EnMano, Completar, En
  <1>2. Confirmar(pasada[p].u) \/ UNCHANGED varsAcceso
    BY DEF Completar
  <1>3. TypeOKAcceso' /\ UltimoAdmin'
    BY <1>1, <1>2, ConfirmarBien, AccesoIgual DEF IInv, TypeOK
  <1>4. pasada' \in [Trabajos -> Pasadas] /\ \A q \in Trabajos : EnMano(q)'
    BY SigueEnMano DEF Completar, Cortado, En
  <1> QED BY <1>3, <1>4 DEF Completar, IInv, TypeOK

(* A terminal that is admitted is not connected; one that connects is of a *)
(* pool its identity has the role on.                                      *)
LEMMA PoneBien ==
  ASSUME IInv, NEW t \in Terminales, NEW s \in Sesiones, Pone(t, s),
         s.etapa = "conectada" => s.c \subseteq pve[s.u]
  PROVE  IInv'
  <1>1. terminales \in [Terminales -> Sesiones] /\ terminales' = [terminales EXCEPT ![t] = s]
        /\ UNCHANGED <<varsAcceso, identidad, pve, tardias, pasada>>
    BY DEF Pone, IInv, TypeOK
  <1>2. terminales' \in [Terminales -> Sesiones]
    BY <1>1
  <1>3. ASSUME NEW p \in Trabajos PROVE EnMano(p)'
    <2>1. EnMano(p)
      BY DEF IInv
    <2>2. ASSUME Cortado(p), ~pasada[p].ajena PROVE SinConsola(pasada[p].u, pasada[p].quitados)'
      <3>1. SinConsola(pasada[p].u, pasada[p].quitados) /\ pve[pasada[p].u] \subseteq pasada[p].deseados
            /\ pasada[p].quitados \cap pasada[p].deseados = {}
        BY <2>1, <2>2 DEF EnMano, Cortado, Otorgado
      <3>2. s.etapa = "conectada" /\ s.u = pasada[p].u => s.c \cap pasada[p].quitados = {}
        BY <3>1
      <3> QED BY <1>1, <3>1, <3>2 DEF SinConsola
    <2> QED BY <1>1, <2>1, <2>2 DEF EnMano, Cortado, Otorgado
  <1>4. TypeOKAcceso' /\ UltimoAdmin'
    BY <1>1, AccesoIgual
  <1> QED BY <1>1, <1>2, <1>3, <1>4 DEF IInv, TypeOK

LEMMA TerminalBien ==
  ASSUME IInv, NEW t \in Terminales,
         \/ \E u \in Usuarios, c \in Categorias : Admitir(t, u, c)
         \/ Conectar(t) \/ Vigilar(t) \/ Cerrar(t)
  PROVE  IInv'
  <1>1. Fuera \in Sesiones /\ Fuera.etapa = "fuera"
    BY DEF Fuera, Sesiones
  <1>2. CASE Vigilar(t) \/ Cerrar(t)
    BY <1>1, <1>2, PoneBien DEF Vigilar, Cerrar
  <1>3. CASE Conectar(t)
    <2> DEFINE s == [terminales[t] EXCEPT !.etapa = "conectada"]
    <2>1. terminales[t] \in Sesiones
      BY DEF IInv, TypeOK
    <2>2. s \in Sesiones /\ s.u = terminales[t].u /\ s.c = terminales[t].c
      BY <2>1 DEF Sesiones
    <2>3. Pone(t, s) /\ terminales[t].c \subseteq pve[terminales[t].u]
      BY <1>3 DEF Conectar
    <2> HIDE DEF s
    <2> QED BY <2>2, <2>3, PoneBien
  <1>4. ASSUME NEW u \in Usuarios, NEW c \in Categorias, Admitir(t, u, c) PROVE IInv'
    <2> DEFINE s == [etapa |-> "admitida", u |-> u, c |-> {c}, cierre |-> FALSE]
    <2>1. s \in Sesiones /\ s.etapa = "admitida" /\ Pone(t, s)
      BY <1>4 DEF Sesiones, Admitir
    <2> HIDE DEF s
    <2> QED BY <2>1, PoneBien
  <1> QED BY <1>2, <1>3, <1>4

LEMMA ReconciliarBien ==
  ASSUME IInv, NEW p \in Trabajos, Reconciliar(p)
  PROVE  IInv'
  BY PrepararBien, OtorgarBien, AbandonarBien, FallaOtorgarBien, CortarBien, TerminarBien,
     FallaTerminarBien, ProbarMuereBien, GuardarBien, InventariarBien, CompletarBien DEF Reconciliar

LEMMA Inductivo ==
  ASSUME IInv, [Next]_vars
  PROVE  IInv'
  <1>1. CASE Administrar /\ UNCHANGED varsConsola
    BY <1>1, AdministrarBien, ConsolaIgual DEF IInv, TypeOK
  <1>2. ASSUME NEW u \in Usuarios, ConfirmarConEvidencia(u), UNCHANGED varsConsola PROVE IInv'
    <2>1. TypeOKAcceso' /\ UltimoAdmin'
      BY <1>2, ConfirmarBien DEF IInv, TypeOK, ConfirmarConEvidencia
    <2> QED BY <1>2, <2>1, ConsolaIgual
  <1>3. ASSUME NEW p \in Trabajos, Reconciliar(p) PROVE IInv'
    BY <1>3, ReconciliarBien
  <1>4. ASSUME NEW l \in tardias, Tardar(l) PROVE IInv'
    BY <1>4, TardarBien
  <1>5. ASSUME NEW t \in Terminales,
               \/ \E u \in Usuarios, c \in Categorias : Admitir(t, u, c)
               \/ Conectar(t) \/ Vigilar(t) \/ Cerrar(t)
        PROVE  IInv'
    BY <1>5, TerminalBien
  <1>6. CASE UNCHANGED vars
    <2>1. UNCHANGED varsAcceso /\ UNCHANGED varsConsola
      BY <1>6 DEF vars
    <2> QED BY <2>1, AccesoIgual, ConsolaIgual
  <1> QED BY <1>1, <1>2, <1>3, <1>4, <1>5, <1>6 DEF Next

LEMMA Invariante == Spec => []IInv
  BY InicioBien, Inductivo, PTL DEF Spec

(* Accounts, procedures, identities, calls, executions and terminals stay  *)
(* within what the columns and the protocol admit.                         *)
THEOREM TiposSiempre == Spec => []TypeOK
  <1>1. IInv => TypeOK
    BY DEF IInv
  <1> QED BY <1>1, Invariante, PTL

(* The portal never loses its last administrator, however the procedures   *)
(* about several of them cross.                                            *)
THEOREM UltimoAdminSiempre == Spec => []UltimoAdmin
  <1>1. IInv => UltimoAdmin
    BY DEF IInv
  <1> QED BY <1>1, Invariante, PTL

(* However many executions of the job overlap and however late the calls   *)
(* of the nodes act, a procedure that the job completes has the access it  *)
(* takes away out of Proxmox and no console of it left, unless one of them *)
(* gave a pool back after the node had confirmed the withdrawal.           *)
THEOREM RetiroAntesDeCompletar == Spec => CompletaConRetiro
  <1> DEFINE Limpio(p, u) ==
        /\ pve[u] \subseteq tramite[u].propuestos
        /\ \A t \in Terminales :
             terminales[t].etapa = "conectada" /\ terminales[t].u = u =>
               terminales[t].c \cap pasada[p].quitados = {}
  <1>1. ASSUME IInv, NEW p \in Trabajos, NEW u \in Usuarios, Completar(p), Abierto(u),
               tramite'[u] = SinTramite, ~pasada[p].ajena
        PROVE  Limpio(p, u)
    <2>1. Cortado(p) /\ Otorgado(p) /\ EnMano(p) /\ tramite \in [Usuarios -> Tramites]
      BY <1>1 DEF Completar, En, Cortado, Otorgado, IInv, TypeOK, TypeOKAcceso
    <2>2. tramite[u] # SinTramite
      BY <1>1 DEF Abierto, SinTramite
    <2>3. u = pasada[p].u /\ Completa(p)
      BY <1>1, <2>1, <2>2 DEF Completar, Confirmar, varsAcceso
    <2> QED BY <1>1, <2>1, <2>3 DEF EnMano, Completa, SinConsola
  <1>2. IInv => [\A p \in Trabajos : \A u \in Usuarios :
                   Completar(p) /\ Abierto(u) /\ tramite'[u] = SinTramite /\ ~pasada[p].ajena =>
                     Limpio(p, u)]_vars
    BY <1>1
  <1> QED BY <1>2, Invariante, PTL DEF CompletaConRetiro
============================================================================
