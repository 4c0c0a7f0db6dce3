----------------------- MODULE EnvioConLease_proofs -----------------------
(***************************************************************************)
(* Proofs about EnvioConLease for any number of orders, workers and        *)
(* dispatches and any clock bound, from Lease + Transporte <= Presupuesto  *)
(* and 0 < Transporte: that no thread acts after the deadline of its row,  *)
(* that each order keeps OrdenDuradera, that the UPID of a row names the   *)
(* task of its latest dispatch (from AjenasAssumption), and that each      *)
(* order sees its dispatches as DespachoDeOrden.                           *)
(***************************************************************************)
EXTENDS EnvioConLease, TLAPS

(* The initial state satisfies the inductive invariant.                    *)
LEMMA InitInductivo == Init => Inductivo
<1> SUFFICES ASSUME Init PROVE Inductivo
  OBVIOUS
<1> USE PlazosAssumption, CotasAssumption, NadieAssumption DEF Init
<1>1. TypeOK
  BY DEF TypeOK, Filas, Marcas, Arriendos, Tomas, Hilos, Registros, Libre, ABIERTOS, Despachables,
     DeOtro
<1>2. EsperaDelEnvio
  <2>1. \A o \in Ops : arriendo[o].hasta <= reloj + Lease
    <3> SUFFICES ASSUME NEW o \in Ops PROVE arriendo[o].hasta <= reloj + Lease
      OBVIOUS
    <3>1. reloj = 1 /\ arriendo[o].hasta = 0
      OBVIOUS
    <3> QED
      BY <3>1
  <2>2. \A w \in Trabajadores : trab[w].pc = "libre"
    BY DEF Libre
  <2> QED
    BY <2>1, <2>2 DEF EsperaDelEnvio, EsperaDe, Vigente
<1>3. EnviosEnOrden
  <2>1. \A o \in Ops : fila[o].fase = "preparacion" /\ fila[o].envio = 0
    OBVIOUS
  <2>2. \A o \in Ops, n \in Envios : hilo[o][n].etapa = "ninguno" /\ tarea[o][n] = "no"
    OBVIOUS
  <2>3. \A n \in Envios : n \in Int /\ n > 0
    BY DEF Envios
  <2>4. ASSUME NEW o \in Ops, NEW n \in Envios PROVE EnvioEnOrden(o, n)
    BY <2>1, <2>2, <2>3 DEF EnvioEnOrden
  <2> QED
    BY <2>1, <2>4 DEF EnviosEnOrden
<1>4. PlazoCubreHilo
  BY DEF PlazoCubreHilo, HiloAntesDelPlazo
<1>5. CerradaSinVuelo
  BY DEF CerradaSinVuelo, Abierta, PuedeEfecto, ABIERTOS
<1>6. MarcasEnOrden
  <2>1. \A o \in Ops, n \in Envios : TipoEnTurno(o, n)
    <3>1. \A n \in Envios : n \in Int /\ n > 0
      BY DEF Envios
    <3>2. \A o \in Ops : fila[o].envio = 0
      OBVIOUS
    <3> QED
      BY <3>1, <3>2 DEF TipoEnTurno
  <2> QED
    BY <2>1 DEF MarcasEnOrden
<1> QED
  BY <1>1, <1>2, <1>3, <1>4, <1>5, <1>6 DEF Inductivo

(* The updates that several actions share keep the types of what they      *)
(* touch.                                                                  *)
LEMMA SoltarTipo ==
  ASSUME TypeOK, NEW w \in Trabajadores, Soltar(w)
  PROVE  trab' \in [Trabajadores -> Tomas]
<1>1. trab \in [Trabajadores -> Tomas]
  BY DEF TypeOK
<1>2. Libre \in Tomas
  BY CotasAssumption DEF Libre, Tomas
<1> QED
  BY <1>1, <1>2 DEF Soltar

LEMMA CederTipo ==
  ASSUME TypeOK, NEW o \in Ops, NEW i \in BOOLEAN, Ceder(o, i)
  PROVE  fila' \in [Ops -> Filas] /\ arriendo' \in [Ops -> Arriendos]
<1>1. fila \in [Ops -> Filas] /\ arriendo \in [Ops -> Arriendos] /\ reloj \in Nat
  BY DEF TypeOK
<1>2. fila' \in [Ops -> Filas]
  BY <1>1 DEF Ceder, EstadoCedido, Filas, ABIERTOS
<1>3. PICK r \in Retrasos :
        arriendo' = [arriendo EXCEPT ![o].dueno = Nadie, ![o].hasta = 0, ![o].poll = reloj + r]
  BY DEF Ceder
<1>4. reloj + r \in Nat
  BY <1>1, PlazosAssumption
<1>5. arriendo' \in [Ops -> Arriendos]
  BY <1>1, <1>3, <1>4 DEF Arriendos
<1> QED
  BY <1>2, <1>5

LEMMA TerminarTipo ==
  ASSUME TypeOK, NEW o \in Ops, NEW f \in Cierres, Terminar(o, f)
  PROVE  fila' \in [Ops -> Filas] /\ arriendo' \in [Ops -> Arriendos]
<1>1. fila \in [Ops -> Filas] /\ arriendo \in [Ops -> Arriendos]
  BY DEF TypeOK
<1>2. fila' \in [Ops -> Filas]
  BY <1>1 DEF Terminar, Filas
<1>3. arriendo' \in [Ops -> Arriendos]
  BY <1>1 DEF Terminar, Arriendos
<1> QED
  BY <1>2, <1>3

LEMMA HiloTipo ==
  ASSUME hilo \in [Ops -> [Envios -> Hilos]], NEW o \in Ops, NEW n \in Envios,
         NEW e \in {"ninguno", "cola", "verifica", "post", "hecho", "muerto"},
         hilo' = [hilo EXCEPT ![o][n].etapa = e]
  PROVE  hilo' \in [Ops -> [Envios -> Hilos]]
BY DEF Hilos

(* The node's record of a task: its type is written by the dispatch, its   *)
(* time when the task starts.                                              *)
LEMMA TipoEfecto ==
  ASSUME registro \in [Ops -> [Envios -> Registros]], NEW o \in Ops, NEW n \in Envios,
         NEW a \in TIPOS, registro' = [registro EXCEPT ![o][n].tipo = a]
  PROVE  /\ registro' \in [Ops -> [Envios -> Registros]]
         /\ registro'[o][n].tipo = a
         /\ \A p \in Ops \ {o} : registro'[p] = registro[p]
         /\ \A m \in Envios \ {n} : registro'[o][m] = registro[o][m]
<1> DEFINE r == [registro[o][n] EXCEPT !.tipo = a]
           fila2 == [registro[o] EXCEPT ![n] = r]
<1>1. registro[o] \in [Envios -> Registros] /\ registro[o][n] \in Registros
  OBVIOUS
<1>2. r \in Registros /\ r.tipo = a
  BY <1>1 DEF Registros
<1>3. registro' = [registro EXCEPT ![o] = fila2]
  OBVIOUS
<1> HIDE DEF r
<1>4. /\ fila2 \in [Envios -> Registros] /\ fila2[n] = r
      /\ \A m \in Envios \ {n} : fila2[m] = registro[o][m]
  BY <1>1, <1>2
<1> HIDE DEF fila2
<1>5. registro'[o] = fila2 /\ registro' \in [Ops -> [Envios -> Registros]]
  BY <1>3, <1>4
<1> QED
  BY <1>2, <1>3, <1>4, <1>5

LEMMA InicioEfecto ==
  ASSUME registro \in [Ops -> [Envios -> Registros]], NEW o \in Ops, NEW n \in Envios,
         NEW t \in Nat, registro' = [registro EXCEPT ![o][n].inicio = t]
  PROVE  /\ registro' \in [Ops -> [Envios -> Registros]]
         /\ \A p \in Ops, m \in Envios : registro'[p][m].tipo = registro[p][m].tipo
<1> DEFINE fila2 == [registro[o] EXCEPT ![n].inicio = t]
<1>1. registro[o] \in [Envios -> Registros]
  OBVIOUS
<1>2. /\ fila2 \in [Envios -> Registros]
      /\ \A m \in Envios : fila2[m].tipo = registro[o][m].tipo
  BY <1>1 DEF Registros
<1>3. registro' = [registro EXCEPT ![o] = fila2]
  OBVIOUS
<1> HIDE DEF fila2
<1> QED
  BY <1>2, <1>3

(* A candidate of recuperar_upid is a task of the order or of others.      *)
LEMMA CandidataTipo ==
  ASSUME NEW o \in Ops, NEW X \in SUBSET Otras, NEW t \in Candidatas(o, X)
  PROVE  /\ t.tipo = marca[o].accion /\ t.inicio >= marca[o].desde
         /\ \/ t \in Otras /\ t.de = DeOtro
            \/ t.de \in Envios /\ tarea[o][t.de] # "no" /\ t.tipo = registro[o][t.de].tipo
<1>1. t \in Propias(o) \/ t \in Otras
  BY DEF Candidatas
<1>2. CASE t \in Propias(o)
  BY <1>2 DEF Candidatas, Propias
<1>3. CASE t \in Otras
  BY <1>3 DEF Candidatas, Otras
<1> QED
  BY <1>1, <1>2, <1>3

(* Every step keeps the types, one action at a time.                       *)
LEMMA PasoTipos == TypeOK /\ [Next]_vars => TypeOK'
<1> SUFFICES ASSUME TypeOK, [Next]_vars PROVE TypeOK'
  OBVIOUS
<1>0. /\ reloj \in Nat
      /\ fila \in [Ops -> Filas]
      /\ arriendo \in [Ops -> Arriendos]
      /\ trab \in [Trabajadores -> Tomas]
      /\ hilo \in [Ops -> [Envios -> Hilos]]
      /\ tarea \in [Ops -> [Envios -> {"no", "corre", "fin"}]]
      /\ marca \in [Ops -> Marcas] /\ registro \in [Ops -> [Envios -> Registros]]
      /\ Lease \in Nat /\ Espera \in Nat /\ Transporte \in Nat /\ Presupuesto \in Nat
      /\ MaxEnvios \in Nat /\ Envios \subseteq 0..MaxEnvios
      /\ Envios \subseteq 0..DeOtro /\ DeOtro \in 0..DeOtro /\ 0 \in 0..DeOtro
  BY PlazosAssumption, CotasAssumption DEF TypeOK, Envios, DeOtro
<1>1. ASSUME Avanza PROVE TypeOK'
  BY <1>0, <1>1 DEF Avanza, TypeOK
<1>2. ASSUME NEW o \in Ops, Cancelar(o) PROVE TypeOK'
  <2>1. fila' \in [Ops -> Filas]
    BY <1>0, <1>2 DEF Cancelar, Filas, Cierres
  <2>2. arriendo' \in [Ops -> Arriendos]
    <3>1. arriendo' = [arriendo EXCEPT ![o].dueno = Nadie, ![o].hasta = 0, ![o].gen = @ + 1]
      BY <1>2 DEF Cancelar
    <3>2. arriendo[o].gen + 1 \in Nat
      BY <1>0 DEF Arriendos
    <3> QED
      BY <1>0, <3>1, <3>2 DEF Arriendos
  <2> QED
    BY <1>0, <1>2, <2>1, <2>2 DEF Cancelar, TypeOK
<1>3. ASSUME NEW w \in Trabajadores, Caida(w) PROVE TypeOK'
  <2>1. trab' \in [Trabajadores -> Tomas]
    BY <1>3, SoltarTipo DEF Caida
  <2>2. hilo' \in [Ops -> [Envios -> Hilos]]
    <3>1. CASE UNCHANGED hilo
      BY <1>0, <3>1
    <3>2. CASE \E o \in Ops, n \in Envios : hilo' = [hilo EXCEPT ![o][n].etapa = "muerto"]
      BY <1>0, <3>2, HiloTipo
    <3> QED
      BY <1>3, <3>1, <3>2 DEF Caida
  <2> QED
    BY <1>0, <1>3, <2>1, <2>2 DEF Caida, TypeOK
<1>4. ASSUME NEW w \in Trabajadores, NEW o \in Ops, Reclamar(w, o) PROVE TypeOK'
  <2>1. fila' \in [Ops -> Filas]
    BY <1>0, <1>4 DEF Reclamar, Filas, ABIERTOS
  <2>2. arriendo' \in [Ops -> Arriendos]
    <3>1. arriendo' = [arriendo EXCEPT ![o].dueno = w, ![o].hasta = reloj + Lease, ![o].gen = @ + 1]
      BY <1>4 DEF Reclamar
    <3>2. arriendo[o].gen + 1 \in Nat /\ reloj + Lease \in Nat
      BY <1>0 DEF Arriendos
    <3> QED
      BY <1>0, <3>1, <3>2 DEF Arriendos
  <2>3. trab' \in [Trabajadores -> Tomas]
    BY <1>0, <1>4 DEF Reclamar, Tomas, Arriendos
  <2> QED
    BY <1>0, <1>4, <2>1, <2>2, <2>3 DEF Reclamar, TypeOK
<1>5. ASSUME NEW w \in Trabajadores, NEW o \in Ops, Latir(w, o) PROVE TypeOK'
  <2>1. arriendo' \in [Ops -> Arriendos]
    <3>1. arriendo' = [arriendo EXCEPT ![o].hasta = reloj + Lease]
      BY <1>5 DEF Latir
    <3>2. reloj + Lease \in Nat
      BY <1>0 
    <3> QED
      BY <1>0, <3>1, <3>2 DEF Arriendos
  <2> QED
    BY <1>0, <1>5, <2>1 DEF Latir, TypeOK
<1>6. ASSUME NEW w \in Trabajadores, NEW o \in Ops, LeasePerdido(w, o) PROVE TypeOK'
  <2>1. trab' \in [Trabajadores -> Tomas]
    BY <1>6, SoltarTipo DEF LeasePerdido
  <2> QED
    BY <1>0, <1>6, <2>1 DEF LeasePerdido, TypeOK
<1>7. ASSUME NEW w \in Trabajadores, NEW o \in Ops, Preparar(w, o) PROVE TypeOK'
  <2>1. fila' \in [Ops -> Filas]
    BY <1>0, <1>7 DEF Preparar, Filas, Despachables
  <2> QED
    BY <1>0, <1>7, <2>1 DEF Preparar, TypeOK
<1>8. ASSUME NEW w \in Trabajadores, NEW o \in Ops, Despachar(w, o) PROVE TypeOK'
  <2>1. fila' \in [Ops -> Filas]
    <3> DEFINE n == fila[o].envio + 1
    <3>1. fila' = [fila EXCEPT ![o].fase = "dispatch_started", ![o].envio = n,
                               ![o].plazo = reloj + Presupuesto]
      BY <1>8 DEF Despachar, PlazoNuevo
    <3>2. n \in 0..MaxEnvios /\ reloj + Presupuesto \in Nat
      BY <1>0, <1>8 DEF Despachar, PlazoNuevo
    <3>3. fila[o] \in Filas
      BY <1>0
    <3> HIDE DEF n
    <3>4. [fila[o] EXCEPT !.fase = "dispatch_started", !.envio = n, !.plazo = reloj + Presupuesto]
            \in Filas
      BY <3>2, <3>3 DEF Filas
    <3> QED
      BY <1>0, <3>1, <3>4
  <2>2. trab' \in [Trabajadores -> Tomas]
    <3> DEFINE n == fila[o].envio + 1
    <3>1. trab' = [trab EXCEPT ![w].pc = "espera", ![w].envio = n, ![w].vence = reloj + Espera]
      BY <1>8 DEF Despachar, PlazoNuevo
    <3>2. n \in 0..MaxEnvios /\ reloj + Espera \in Nat
      BY <1>0, <1>8 DEF Despachar, PlazoNuevo
    <3>3. trab[w] \in Tomas
      BY <1>0
    <3> HIDE DEF n
    <3>4. [trab[w] EXCEPT !.pc = "espera", !.envio = n, !.vence = reloj + Espera] \in Tomas
      BY <3>2, <3>3 DEF Tomas
    <3> QED
      BY <1>0, <3>1, <3>4
  <2>3. hilo' \in [Ops -> [Envios -> Hilos]]
    BY <1>0, <1>8 DEF Despachar, PlazoNuevo, Hilos, Arriendos
  <2>4. marca' \in [Ops -> Marcas] /\ registro' \in [Ops -> [Envios -> Registros]]
    <3> DEFINE n == fila[o].envio + 1
    <3>1. PICK a \in Acciones :
            /\ Turno(marca[o].accion) < Turno(a)
            /\ marca' = [marca EXCEPT ![o] = [accion |-> a, desde |-> reloj, upid |-> 0]]
            /\ registro' = [registro EXCEPT ![o][n].tipo = a]
      BY <1>8 DEF Despachar
    <3>2. n \in Envios
      BY <1>8 DEF Despachar
    <3> HIDE DEF n
    <3>3. a \in TIPOS
      BY <3>1, AccionesAssumption
    <3>4. marca' \in [Ops -> Marcas]
      BY <1>0, <3>1, <3>3 DEF Marcas
    <3>5. registro' \in [Ops -> [Envios -> Registros]]
      BY <1>0, <3>1, <3>2, <3>3, TipoEfecto
    <3> QED
      BY <3>4, <3>5
  <2> QED
    BY <1>0, <1>8, <2>1, <2>2, <2>3, <2>4 DEF Despachar, PlazoNuevo, TypeOK
<1>9. ASSUME NEW w \in Trabajadores, NEW o \in Ops, RecibirUpid(w, o) PROVE TypeOK'
  <2>1. fila' \in [Ops -> Filas]
    BY <1>0, <1>9 DEF RecibirUpid, Filas
  <2>2. trab' \in [Trabajadores -> Tomas]
    <3>1. trab' = [trab EXCEPT ![w].pc = "activa"]
      BY <1>9 DEF RecibirUpid
    <3> QED
      BY <1>0, <3>1 DEF Tomas
  <2>3. marca' \in [Ops -> Marcas]
    <3> DEFINE n == trab[w].envio
    <3>1. marca' = [marca EXCEPT ![o].upid = n] /\ n \in 0..DeOtro
      BY <1>0, <1>9 DEF RecibirUpid
    <3> HIDE DEF n
    <3> QED
      BY <1>0, <3>1 DEF Marcas
  <2> QED
    BY <1>0, <1>9, <2>1, <2>2, <2>3 DEF RecibirUpid, TypeOK
<1>10. ASSUME NEW w \in Trabajadores, NEW o \in Ops, EsperaVencida(w, o) PROVE TypeOK'
  <2>1. fila' \in [Ops -> Filas] /\ arriendo' \in [Ops -> Arriendos]
    BY <1>10, CederTipo DEF EsperaVencida
  <2>2. trab' \in [Trabajadores -> Tomas]
    BY <1>10, SoltarTipo DEF EsperaVencida
  <2>3. hilo' \in [Ops -> [Envios -> Hilos]]
    <3> DEFINE n == trab[w].envio
    <3>1. n \in Envios
      BY <1>10 DEF EsperaVencida
    <3>2. hilo' = [hilo EXCEPT ![o][n].etapa = IF @ = "cola" THEN "muerto" ELSE @]
      BY <1>10 DEF EsperaVencida
    <3> DEFINE e == IF hilo[o][n].etapa = "cola" THEN "muerto" ELSE hilo[o][n].etapa
    <3>3. e \in {"ninguno", "cola", "verifica", "post", "hecho", "muerto"}
      BY <1>0, <3>1 DEF Hilos
    <3>4. hilo' = [hilo EXCEPT ![o][n].etapa = e]
      BY <1>0, <3>1, <3>2
    <3> HIDE DEF e, n
    <3> QED
      BY <1>0, <3>1, <3>3, <3>4, HiloTipo
  <2> QED
    BY <1>0, <1>10, <2>1, <2>2, <2>3 DEF EsperaVencida, TypeOK
<1>11. ASSUME NEW w \in Trabajadores, NEW o \in Ops, RecuperarUpid(w, o) PROVE TypeOK'
  <2>1. fila' \in [Ops -> Filas]
    <3>1. fila' = [fila EXCEPT ![o].fase = "tarea"]
      BY <1>11 DEF RecuperarUpid
    <3> QED
      BY <1>0, <3>1 DEF Filas
  <2>2. marca' \in [Ops -> Marcas]
    <3>1. PICK X \in SUBSET Otras : \E t \in Candidatas(o, X) :
            marca' = [marca EXCEPT ![o].upid = t.de]
      BY <1>11 DEF RecuperarUpid
    <3>2. PICK t \in Candidatas(o, X) : marca' = [marca EXCEPT ![o].upid = t.de]
      BY <3>1
    <3>3. t.de \in 0..DeOtro
      BY <1>0, CandidataTipo
    <3> QED
      BY <1>0, <3>2, <3>3 DEF Marcas
  <2> QED
    BY <1>0, <1>11, <2>1, <2>2 DEF RecuperarUpid, TypeOK
<1>12. ASSUME NEW w \in Trabajadores, NEW o \in Ops, SinTarea(w, o) PROVE TypeOK'
  <2>1. trab' \in [Trabajadores -> Tomas]
    BY <1>0, <1>12 DEF SinTarea, Tomas
  <2> QED
    BY <1>0, <1>12, <2>1 DEF SinTarea, TypeOK
<1>13. ASSUME NEW w \in Trabajadores, NEW o \in Ops, ConfirmarPorObservacion(w, o) PROVE TypeOK'
  <2>1. fila' \in [Ops -> Filas] /\ arriendo' \in [Ops -> Arriendos]
    BY <1>13, TerminarTipo DEF ConfirmarPorObservacion, Cierres
  <2>2. trab' \in [Trabajadores -> Tomas]
    BY <1>13, SoltarTipo DEF ConfirmarPorObservacion
  <2> QED
    BY <1>0, <1>13, <2>1, <2>2 DEF ConfirmarPorObservacion, TypeOK
<1>14. ASSUME NEW w \in Trabajadores, NEW o \in Ops, DispatchNoConfirmado(w, o) PROVE TypeOK'
  <2>1. fila' \in [Ops -> Filas] /\ arriendo' \in [Ops -> Arriendos]
    BY <1>14, CederTipo DEF DispatchNoConfirmado
  <2>2. trab' \in [Trabajadores -> Tomas]
    BY <1>14, SoltarTipo DEF DispatchNoConfirmado
  <2> QED
    BY <1>0, <1>14, <2>1, <2>2 DEF DispatchNoConfirmado, TypeOK
<1>15. ASSUME NEW w \in Trabajadores, NEW o \in Ops, TareaSigue(w, o) PROVE TypeOK'
  <2>1. fila' \in [Ops -> Filas] /\ arriendo' \in [Ops -> Arriendos]
    BY <1>15, CederTipo, PlazoVencido(o) \in BOOLEAN DEF TareaSigue, PlazoVencido
  <2>2. trab' \in [Trabajadores -> Tomas]
    BY <1>15, SoltarTipo DEF TareaSigue
  <2> QED
    BY <1>0, <1>15, <2>1, <2>2 DEF TareaSigue, TypeOK
<1>16. ASSUME NEW w \in Trabajadores, NEW o \in Ops, OtroEfecto(w, o) PROVE TypeOK'
  <2>1. fila' \in [Ops -> Filas]
    BY <1>0, <1>16 DEF OtroEfecto, Filas, Despachables
  <2> QED
    BY <1>0, <1>16, <2>1 DEF OtroEfecto, TypeOK
<1>17. ASSUME NEW w \in Trabajadores, NEW o \in Ops, CerrarConTarea(w, o) PROVE TypeOK'
  <2>1. fila' \in [Ops -> Filas] /\ arriendo' \in [Ops -> Arriendos]
    BY <1>17, TerminarTipo DEF CerrarConTarea
  <2>2. trab' \in [Trabajadores -> Tomas]
    BY <1>17, SoltarTipo DEF CerrarConTarea
  <2> QED
    BY <1>0, <1>17, <2>1, <2>2 DEF CerrarConTarea, TypeOK
<1>18. ASSUME NEW w \in Trabajadores, NEW o \in Ops, CerrarSinEnvio(w, o) PROVE TypeOK'
  <2>1. fila' \in [Ops -> Filas] /\ arriendo' \in [Ops -> Arriendos]
    BY <1>18, TerminarTipo DEF CerrarSinEnvio
  <2>2. trab' \in [Trabajadores -> Tomas]
    BY <1>18, SoltarTipo DEF CerrarSinEnvio
  <2> QED
    BY <1>0, <1>18, <2>1, <2>2 DEF CerrarSinEnvio, TypeOK
<1>19. ASSUME NEW w \in Trabajadores, NEW o \in Ops, FalloDeLectura(w, o) PROVE TypeOK'
  <2>1. fila' \in [Ops -> Filas] /\ arriendo' \in [Ops -> Arriendos]
    BY <1>19, CederTipo DEF FalloDeLectura
  <2>2. trab' \in [Trabajadores -> Tomas]
    BY <1>19, SoltarTipo DEF FalloDeLectura
  <2> QED
    BY <1>0, <1>19, <2>1, <2>2 DEF FalloDeLectura, TypeOK
<1>20. ASSUME NEW o \in Ops, NEW n \in Envios, HiloEmpieza(o, n) PROVE TypeOK'
  <2>1. hilo' \in [Ops -> [Envios -> Hilos]]
    <3>1. hilo' = [hilo EXCEPT ![o][n].etapa = IF reloj < hilo[o][n].limite THEN "verifica" ELSE "muerto"]
      BY <1>20 DEF HiloEmpieza
    <3> QED
      BY <1>0, <3>1, HiloTipo
  <2> QED
    BY <1>0, <1>20, <2>1 DEF HiloEmpieza, TypeOK
<1>21. ASSUME NEW o \in Ops, NEW n \in Envios, HiloEnvia(o, n) PROVE TypeOK'
  <2>1. hilo' \in [Ops -> [Envios -> Hilos]]
    <3>1. hilo' = [hilo EXCEPT ![o][n].etapa = "post", ![o][n].fin = reloj + Transporte]
      BY <1>21 DEF HiloEnvia
    <3>2. hilo[o] \in [Envios -> Hilos] /\ hilo[o][n] \in Hilos /\ reloj + Transporte \in Nat
      BY <1>0
    <3>3. [hilo[o][n] EXCEPT !.etapa = "post", !.fin = reloj + Transporte] \in Hilos
      BY <3>2 DEF Hilos
    <3>4. [hilo[o] EXCEPT ![n] = [hilo[o][n] EXCEPT !.etapa = "post", !.fin = reloj + Transporte]]
            \in [Envios -> Hilos]
      BY <3>2, <3>3
    <3> QED
      BY <1>0, <3>1, <3>4
  <2> QED
    BY <1>0, <1>21, <2>1 DEF HiloEnvia, TypeOK
<1>22. ASSUME NEW o \in Ops, NEW n \in Envios, HiloMuere(o, n) PROVE TypeOK'
  <2>1. hilo' \in [Ops -> [Envios -> Hilos]]
    <3>1. hilo' = [hilo EXCEPT ![o][n].etapa = "muerto"]
      BY <1>22 DEF HiloMuere
    <3> QED
      BY <1>0, <3>1, HiloTipo
  <2> QED
    BY <1>0, <1>22, <2>1 DEF HiloMuere, TypeOK
<1>23. ASSUME NEW o \in Ops, NEW n \in Envios, HiloLlega(o, n) PROVE TypeOK'
  <2>1. hilo' \in [Ops -> [Envios -> Hilos]]
    <3>1. hilo' = [hilo EXCEPT ![o][n].etapa = "hecho"]
      BY <1>23 DEF HiloLlega
    <3> QED
      BY <1>0, <3>1, HiloTipo
  <2>2. tarea' \in [Ops -> [Envios -> {"no", "corre", "fin"}]]
    BY <1>0, <1>23 DEF HiloLlega
  <2>3. registro' \in [Ops -> [Envios -> Registros]]
    BY <1>0, <1>23, InicioEfecto DEF HiloLlega
  <2> QED
    BY <1>0, <1>23, <2>1, <2>2, <2>3 DEF HiloLlega, TypeOK
<1>24. ASSUME NEW o \in Ops, NEW n \in Envios, TareaTermina(o, n) PROVE TypeOK'
  <2>1. tarea' \in [Ops -> [Envios -> {"no", "corre", "fin"}]]
    BY <1>0, <1>24 DEF TareaTermina
  <2> QED
    BY <1>0, <1>24, <2>1 DEF TareaTermina, TypeOK
<1>25. CASE UNCHANGED vars
  BY <1>0, <1>25 DEF vars, TypeOK
<1> QED
  BY <1>1, <1>2, <1>3, <1>4, <1>5, <1>6, <1>7, <1>8, <1>9, <1>10,
     <1>11, <1>12, <1>13, <1>14, <1>15, <1>16, <1>17, <1>18, <1>19, <1>20,
     <1>21, <1>22, <1>23, <1>24, <1>25 DEF Next, PasoTrabajador, PasoHilo

----------------------------------------------------------------------------
(* What the shared updates do to any row and to any claimant.              *)
LEMMA CederEfecto ==
  ASSUME TypeOK, NEW o \in Ops, NEW i \in BOOLEAN, Ceder(o, i), NEW p \in Ops
  PROVE  /\ fila'[p].fase = fila[p].fase /\ fila'[p].envio = fila[p].envio
         /\ fila'[p].plazo = fila[p].plazo
         /\ p # o => fila'[p] = fila[p] /\ arriendo'[p] = arriendo[p]
         /\ fila'[o].estado \in ABIERTOS
         /\ arriendo'[o].dueno = Nadie /\ arriendo'[o].hasta = 0
<1>1. fila \in [Ops -> Filas] /\ arriendo \in [Ops -> Arriendos]
  BY DEF TypeOK
<1>2. fila' = [fila EXCEPT ![o].estado = IF i THEN "incierta" ELSE "en_curso"]
  BY DEF Ceder, EstadoCedido
<1>3. PICK r \in Retrasos :
        arriendo' = [arriendo EXCEPT ![o].dueno = Nadie, ![o].hasta = 0, ![o].poll = reloj + r]
  BY DEF Ceder
<1>4. /\ fila'[p].fase = fila[p].fase /\ fila'[p].envio = fila[p].envio
      /\ fila'[p].plazo = fila[p].plazo
      /\ p # o => fila'[p] = fila[p]
      /\ fila'[o].estado \in ABIERTOS
  BY <1>1, <1>2 DEF Filas, ABIERTOS
<1>5. /\ p # o => arriendo'[p] = arriendo[p]
      /\ arriendo'[o].dueno = Nadie /\ arriendo'[o].hasta = 0
  BY <1>1, <1>3 DEF Arriendos
<1> QED
  BY <1>4, <1>5

LEMMA TerminarEfecto ==
  ASSUME TypeOK, NEW o \in Ops, NEW f \in Cierres, Terminar(o, f), NEW p \in Ops
  PROVE  /\ fila'[p].fase = fila[p].fase /\ fila'[p].envio = fila[p].envio
         /\ fila'[p].plazo = fila[p].plazo
         /\ p # o => fila'[p] = fila[p] /\ arriendo'[p] = arriendo[p]
         /\ fila'[o].estado = f
         /\ arriendo'[o].dueno = Nadie /\ arriendo'[o].hasta = 0
<1>1. fila \in [Ops -> Filas] /\ arriendo \in [Ops -> Arriendos]
  BY DEF TypeOK
<1>2. /\ fila'[p].fase = fila[p].fase /\ fila'[p].envio = fila[p].envio
      /\ fila'[p].plazo = fila[p].plazo
      /\ p # o => fila'[p] = fila[p]
      /\ fila'[o].estado = f
  BY <1>1 DEF Terminar, Filas
<1>3. /\ p # o => arriendo'[p] = arriendo[p]
      /\ arriendo'[o].dueno = Nadie /\ arriendo'[o].hasta = 0
  BY <1>1 DEF Terminar, Arriendos
<1> QED
  BY <1>2, <1>3

LEMMA SoltarEfecto ==
  ASSUME TypeOK, NEW w \in Trabajadores, Soltar(w), NEW v \in Trabajadores
  PROVE  trab'[w].pc = "libre" /\ (v # w => trab'[v] = trab[v])
<1>1. trab \in [Trabajadores -> Tomas]
  BY DEF TypeOK
<1> QED
  BY <1>1 DEF Soltar, Libre

(* The updates of one field of a row, the lease or a thread.               *)
LEMMA FaseEfecto ==
  ASSUME TypeOK, NEW o \in Ops, NEW f, fila' = [fila EXCEPT ![o].fase = f], NEW p \in Ops
  PROVE  /\ fila'[p].estado = fila[p].estado /\ fila'[p].envio = fila[p].envio
         /\ fila'[p].plazo = fila[p].plazo
         /\ p # o => fila'[p] = fila[p]
         /\ fila'[o].fase = f
<1>1. fila \in [Ops -> Filas]
  BY DEF TypeOK
<1> QED
  BY <1>1 DEF Filas

LEMMA EstadoEfecto ==
  ASSUME TypeOK, NEW o \in Ops, NEW e, fila' = [fila EXCEPT ![o].estado = e], NEW p \in Ops
  PROVE  /\ fila'[p].fase = fila[p].fase /\ fila'[p].envio = fila[p].envio
         /\ fila'[p].plazo = fila[p].plazo
         /\ p # o => fila'[p] = fila[p]
         /\ fila'[o].estado = e
<1>1. fila \in [Ops -> Filas]
  BY DEF TypeOK
<1> QED
  BY <1>1 DEF Filas

LEMMA EtapaEfecto ==
  ASSUME TypeOK, NEW o \in Ops, NEW n \in Envios, NEW e,
         hilo' = [hilo EXCEPT ![o][n].etapa = e], NEW p \in Ops, NEW m \in Envios
  PROVE  /\ <<p, m>> # <<o, n>> => hilo'[p][m] = hilo[p][m]
         /\ hilo'[o][n].etapa = e
         /\ hilo'[p][m].limite = hilo[p][m].limite
         /\ hilo'[p][m].fin = hilo[p][m].fin
<1>1. hilo \in [Ops -> [Envios -> Hilos]]
  BY DEF TypeOK
<1> QED
  BY <1>1 DEF Hilos

----------------------------------------------------------------------------
(* Most steps administer the row: they leave the clock and the tasks alone *)
(* and can only end a thread that has not sent.                            *)
Administra(w, o) ==
  \/ Reclamar(w, o)
  \/ Latir(w, o)
  \/ LeasePerdido(w, o)
  \/ Preparar(w, o)
  \/ RecibirUpid(w, o)
  \/ EsperaVencida(w, o)
  \/ RecuperarUpid(w, o)
  \/ SinTarea(w, o)
  \/ ConfirmarPorObservacion(w, o)
  \/ DispatchNoConfirmado(w, o)
  \/ TareaSigue(w, o)
  \/ OtroEfecto(w, o)
  \/ CerrarConTarea(w, o)
  \/ CerrarSinEnvio(w, o)
  \/ FalloDeLectura(w, o)

Quieto(p, m) ==
  /\ reloj' = reloj /\ tarea' = tarea
  /\ fila'[p].plazo = fila[p].plazo /\ fila'[p].envio = fila[p].envio
  /\ \/ hilo'[p][m] = hilo[p][m]
     \/ hilo[p][m].etapa \in {"cola", "verifica"} /\ hilo'[p][m].etapa = "muerto"

(* How they may move the phase of a row ...                                *)
CambioFase(p) ==
  \/ fila'[p].fase = fila[p].fase
  \/ fila[p].fase = "preparacion" /\ fila'[p].fase \in {"lista", "cancelada"}
  \/ /\ fila[p].fase = "dispatch_started" /\ fila'[p].fase = "tarea"
     /\ fila[p].envio \in Envios /\ tarea[p][fila[p].envio] # "no"
  \/ /\ fila[p].fase = "tarea" /\ fila'[p].fase = "otra"
     /\ fila[p].envio \in Envios /\ tarea[p][fila[p].envio] = "fin"

(* ... and when they may close it.                                         *)
Asentado(p) ==
  \/ fila[p].fase \notin {"dispatch_started", "tarea"}
  \/ fila[p].fase = "tarea" /\ fila[p].envio \in Envios /\ tarea[p][fila[p].envio] = "fin"
  \/ reloj >= fila[p].plazo

CambioEstado(p) == ~Abierta(p)' => ~Abierta(p) \/ Asentado(p)

(* The task that passes the filter is the one of the latest dispatch: the  *)
(* others are of another action, began before the mark, or both.           *)
LEMMA HallaLaSuya ==
  ASSUME Inductivo, NEW w \in Trabajadores, NEW o \in Ops, RecuperarUpid(w, o)
  PROVE  /\ fila[o].envio \in Envios /\ tarea[o][fila[o].envio] # "no"
         /\ marca' = [marca EXCEPT ![o].upid = fila[o].envio]
<1>0. TypeOK /\ MarcasEnOrden /\ EnviosEnOrden
  BY DEF Inductivo
<1>1. PICK X \in SUBSET Otras : \E t \in Candidatas(o, X) :
        marca' = [marca EXCEPT ![o].upid = t.de]
  BY DEF RecuperarUpid
<1>2. PICK t \in Candidatas(o, X) : marca' = [marca EXCEPT ![o].upid = t.de]
  BY <1>1
<1> DEFINE n == fila[o].envio
<1>3. /\ fila[o].fase = "dispatch_started" /\ n \in Envios /\ n \in Int
      /\ marca[o].desde \in Nat /\ marca[o].desde > 0
      /\ TipoEnTurno(o, n)
  BY <1>0 DEF RecuperarUpid, MarcasEnOrden, EnviosEnOrden, TypeOK, Marcas, Envios
<1>4. t.tipo = marca[o].accion /\ t.inicio >= marca[o].desde
  BY CandidataTipo
<1>5. t \notin Otras
  <2> SUFFICES ASSUME t \in Otras PROVE FALSE
    OBVIOUS
  <2>1. \/ t.tipo \in Ajenas
        \/ t.inicio = 0
    BY DEF Otras
  <2>2. marca[o].accion \notin Ajenas
    <3>1. marca[o].accion \in Acciones
      BY <1>0, <1>3 DEF MarcasEnOrden
    <3> QED
      BY <3>1, AjenasAssumption
  <2> QED
    BY <1>3, <1>4, <2>1, <2>2
<1>6. t.de \in Envios /\ tarea[o][t.de] # "no" /\ registro[o][t.de].tipo = marca[o].accion
  BY <1>4, <1>5, CandidataTipo
<1>7. t.de = n
  <2>1. TipoEnTurno(o, t.de) /\ t.de \in Int
    BY <1>0, <1>6 DEF MarcasEnOrden, Envios
  <2>2. ~(t.de < n)
    <3>1. Turno(marca[o].accion) \in Int
      BY DEF Turno
    <3> QED
      BY <1>6, <2>1, <3>1 DEF TipoEnTurno
  <2>3. ~(t.de > n)
    <3>1. EnvioEnOrden(o, t.de)
      BY <1>0, <1>6 DEF EnviosEnOrden
    <3> QED
      BY <1>6, <3>1 DEF EnvioEnOrden
  <2> QED
    BY <1>3, <2>1, <2>2, <2>3
<1> QED
  BY <1>2, <1>3, <1>6, <1>7

LEMMA Quietud ==
  ASSUME Inductivo, NEW p \in Ops, NEW m \in Envios,
         \/ UNCHANGED vars
         \/ \E o \in Ops : Cancelar(o)
         \/ \E w \in Trabajadores : Caida(w)
         \/ \E w \in Trabajadores, o \in Ops : Administra(w, o)
  PROVE  Quieto(p, m) /\ CambioFase(p) /\ CambioEstado(p)
<1>0. TypeOK /\ MarcasEnOrden /\ EsperaDelEnvio /\ EnviosEnOrden
  BY DEF Inductivo
<1> DEFINE Meta == Quieto(p, m) /\ CambioFase(p) /\ CambioEstado(p)
<1>1. CASE UNCHANGED vars
  BY <1>1 DEF vars, Quieto, CambioFase, CambioEstado, Abierta
<1>2. ASSUME NEW o \in Ops, Cancelar(o) PROVE Meta
  <2>1. fila' = [fila EXCEPT ![o].estado = "fallida", ![o].fase = "cancelada"] /\ fila[o].fase = "preparacion"
    BY <1>2 DEF Cancelar
  <2>2. UNCHANGED <<reloj, tarea, hilo>>
    BY <1>2 DEF Cancelar
  <2>3. /\ fila'[p].envio = fila[p].envio /\ fila'[p].plazo = fila[p].plazo
        /\ p # o => fila'[p] = fila[p]
        /\ fila'[o].fase = "cancelada"
    BY <1>0, <2>1 DEF TypeOK, Filas
  <2> QED
    BY <2>1, <2>2, <2>3 DEF Quieto, CambioFase, CambioEstado, Asentado, Abierta
<1>3. ASSUME NEW w \in Trabajadores, Caida(w) PROVE Meta
  <2>1. UNCHANGED <<reloj, tarea, fila>>
    BY <1>3 DEF Caida
  <2>2. CASE UNCHANGED hilo
    BY <2>1, <2>2 DEF Quieto, CambioFase, CambioEstado, Abierta
  <2>3. ASSUME NEW o \in Ops, NEW n \in Envios, hilo[o][n].etapa \in {"cola", "verifica"},
               hilo' = [hilo EXCEPT ![o][n].etapa = "muerto"]
        PROVE  Meta
    <3>1. Quieto(p, m)
      BY <1>0, <2>1, <2>3, EtapaEfecto DEF Quieto
    <3> QED
      BY <2>1, <3>1 DEF CambioFase, CambioEstado, Abierta
  <2> QED
    BY <1>3, <2>2, <2>3 DEF Caida
<1>4. ASSUME NEW w \in Trabajadores, NEW o \in Ops, Reclamar(w, o) PROVE Meta
  <2>1. fila' = [fila EXCEPT ![o].estado = "en_curso"] /\ UNCHANGED <<reloj, tarea, hilo>>
    BY <1>4 DEF Reclamar
  <2> QED
    BY <1>0, <2>1, EstadoEfecto DEF Quieto, CambioFase, CambioEstado, Abierta, ABIERTOS
<1>5. ASSUME NEW w \in Trabajadores, NEW o \in Ops, Latir(w, o) PROVE Meta
  BY <1>5 DEF Latir, Quieto, CambioFase, CambioEstado, Abierta
<1>6. ASSUME NEW w \in Trabajadores, NEW o \in Ops, LeasePerdido(w, o) PROVE Meta
  BY <1>6 DEF LeasePerdido, Quieto, CambioFase, CambioEstado, Abierta
<1>7. ASSUME NEW w \in Trabajadores, NEW o \in Ops, Preparar(w, o) PROVE Meta
  <2>1. fila' = [fila EXCEPT ![o].fase = "lista"] /\ UNCHANGED <<reloj, tarea, hilo>>
    BY <1>7 DEF Preparar
  <2> QED
    BY <1>0, <1>7, <2>1, FaseEfecto DEF Preparar, Quieto, CambioFase, CambioEstado, Abierta
<1>8. ASSUME NEW w \in Trabajadores, NEW o \in Ops, RecibirUpid(w, o) PROVE Meta
  <2>1. fila' = [fila EXCEPT ![o].fase = "tarea"] /\ UNCHANGED <<reloj, tarea, hilo>>
    BY <1>8 DEF RecibirUpid
  <2>2. fila[o].fase = "dispatch_started" /\ trab[w].envio = fila[o].envio
    BY <1>0, <1>8 DEF RecibirUpid, EsperaDelEnvio, EsperaDe
  <2>3. fila[o].envio \in Envios /\ tarea[o][fila[o].envio] # "no"
    BY <1>0, <1>8, <2>2 DEF RecibirUpid, EnviosEnOrden, EnvioEnOrden
  <2> QED
    BY <1>0, <2>1, <2>2, <2>3, FaseEfecto DEF Quieto, CambioFase, CambioEstado, Abierta
<1>9. ASSUME NEW w \in Trabajadores, NEW o \in Ops, EsperaVencida(w, o) PROVE Meta
  <2> DEFINE n == trab[w].envio
  <2>1. Ceder(o, TRUE) /\ UNCHANGED <<reloj, tarea>> /\ n \in Envios
    BY <1>9 DEF EsperaVencida
  <2>2. hilo' = [hilo EXCEPT ![o][n].etapa = IF hilo[o][n].etapa = "cola"
                                             THEN "muerto" ELSE hilo[o][n].etapa]
    BY <1>9, <1>0, <2>1 DEF EsperaVencida, TypeOK
  <2>3. /\ <<p, m>> # <<o, n>> => hilo'[p][m] = hilo[p][m]
        /\ hilo[o][n].etapa = "cola" => hilo'[o][n].etapa = "muerto"
        /\ hilo[o][n].etapa # "cola" => hilo'[o][n] = hilo[o][n]
    <3>1. hilo \in [Ops -> [Envios -> Hilos]]
      BY <1>0 DEF TypeOK
    <3> HIDE DEF n
    <3> QED
      BY <3>1, <2>1, <2>2 DEF Hilos
  <2> HIDE DEF n
  <2>4. fila'[p].fase = fila[p].fase /\ fila'[p].envio = fila[p].envio
        /\ fila'[p].plazo = fila[p].plazo /\ (Abierta(p) => Abierta(p)')
    BY <1>0, <2>1, CederEfecto DEF Abierta
  <2> QED
    BY <2>1, <2>3, <2>4 DEF Quieto, CambioFase, CambioEstado
<1>10. ASSUME NEW w \in Trabajadores, NEW o \in Ops, RecuperarUpid(w, o) PROVE Meta
  <2>1. fila' = [fila EXCEPT ![o].fase = "tarea"] /\ UNCHANGED <<reloj, tarea, hilo>>
    BY <1>10 DEF RecuperarUpid
  <2>2. /\ fila[o].fase = "dispatch_started" /\ fila[o].envio \in Envios
        /\ tarea[o][fila[o].envio] # "no"
    BY <1>10, HallaLaSuya DEF RecuperarUpid
  <2> QED
    BY <1>0, <2>1, <2>2, FaseEfecto DEF Quieto, CambioFase, CambioEstado, Abierta
<1>11. ASSUME NEW w \in Trabajadores, NEW o \in Ops, SinTarea(w, o) PROVE Meta
  BY <1>11 DEF SinTarea, Quieto, CambioFase, CambioEstado, Abierta
<1>12. ASSUME NEW w \in Trabajadores, NEW o \in Ops, ConfirmarPorObservacion(w, o) PROVE Meta
  <2>1. (\E f \in Cierres : Terminar(o, f)) /\ UNCHANGED <<reloj, tarea, hilo>>
    BY <1>12 DEF ConfirmarPorObservacion, Cierres
  <2>2. Asentado(o)
    BY <1>12 DEF ConfirmarPorObservacion, PlazoVencido, Asentado, Despachables
  <2> QED
    BY <1>0, <2>1, <2>2, TerminarEfecto DEF Quieto, CambioFase, CambioEstado, Abierta
<1>13. ASSUME NEW w \in Trabajadores, NEW o \in Ops, DispatchNoConfirmado(w, o) PROVE Meta
  <2>1. (\E i \in BOOLEAN : Ceder(o, i)) /\ UNCHANGED <<reloj, tarea, hilo>>
    BY <1>13 DEF DispatchNoConfirmado
  <2> QED
    BY <1>0, <2>1, CederEfecto DEF Quieto, CambioFase, CambioEstado, Abierta
<1>14. ASSUME NEW w \in Trabajadores, NEW o \in Ops, TareaSigue(w, o) PROVE Meta
  <2>1. (\E i \in BOOLEAN : Ceder(o, i)) /\ UNCHANGED <<reloj, tarea, hilo>>
    BY <1>14, PlazoVencido(o) \in BOOLEAN DEF TareaSigue, PlazoVencido
  <2> QED
    BY <1>0, <2>1, CederEfecto DEF Quieto, CambioFase, CambioEstado, Abierta
<1>15. ASSUME NEW w \in Trabajadores, NEW o \in Ops, OtroEfecto(w, o) PROVE Meta
  <2>1. fila' = [fila EXCEPT ![o].fase = "otra"] /\ UNCHANGED <<reloj, tarea, hilo>>
    BY <1>15 DEF OtroEfecto
  <2>2. fila[o].fase = "tarea" /\ fila[o].envio \in Envios /\ tarea[o][fila[o].envio] = "fin"
    BY <1>0, <1>15 DEF OtroEfecto, EstadoDeUpid, MarcasEnOrden, EnviosEnOrden
  <2> QED
    BY <1>0, <2>1, <2>2, FaseEfecto DEF Quieto, CambioFase, CambioEstado, Abierta
<1>16. ASSUME NEW w \in Trabajadores, NEW o \in Ops, CerrarConTarea(w, o) PROVE Meta
  <2>1. (\E f \in Cierres : Terminar(o, f)) /\ UNCHANGED <<reloj, tarea, hilo>>
    BY <1>16 DEF CerrarConTarea, Cierres
  <2>2. Asentado(o)
    BY <1>0, <1>16 DEF CerrarConTarea, Asentado, Despachables, EstadoDeUpid, MarcasEnOrden, EnviosEnOrden
  <2> QED
    BY <1>0, <2>1, <2>2, TerminarEfecto DEF Quieto, CambioFase, CambioEstado, Abierta
<1>17. ASSUME NEW w \in Trabajadores, NEW o \in Ops, CerrarSinEnvio(w, o) PROVE Meta
  <2>1. (\E f \in Cierres : Terminar(o, f)) /\ UNCHANGED <<reloj, tarea, hilo>>
    BY <1>17 DEF CerrarSinEnvio, Cierres
  <2>2. Asentado(o)
    BY <1>17 DEF CerrarSinEnvio, Asentado, Despachables
  <2> QED
    BY <1>0, <2>1, <2>2, TerminarEfecto DEF Quieto, CambioFase, CambioEstado, Abierta
<1>18. ASSUME NEW w \in Trabajadores, NEW o \in Ops, FalloDeLectura(w, o) PROVE Meta
  <2>1. (\E i \in BOOLEAN : Ceder(o, i)) /\ UNCHANGED <<reloj, tarea, hilo>>
    BY <1>18 DEF FalloDeLectura
  <2> QED
    BY <1>0, <2>1, CederEfecto DEF Quieto, CambioFase, CambioEstado, Abierta
<1> QED
  BY <1>1, <1>2, <1>3, <1>4, <1>5, <1>6, <1>7, <1>8, <1>9, <1>10,
     <1>11, <1>12, <1>13, <1>14, <1>15, <1>16, <1>17, <1>18 DEF Administra

(* A quiet step keeps the order of the dispatches, the deadlines and that  *)
(* closed orders have no thread at large.                                  *)
LEMMA QuietoConserva ==
  ASSUME Inductivo, NEW p \in Ops, NEW m \in Envios,
         Quieto(p, m), CambioFase(p), CambioEstado(p)
  PROVE  /\ EnvioEnOrden(p, m)'
         /\ HiloAntesDelPlazo(p, m)'
         /\ ~Abierta(p)' => ~PuedeEfecto(p, m)'
<1>0. /\ reloj \in Nat /\ m \in Int
      /\ fila[p].plazo \in Nat /\ fila[p].envio \in Int
      /\ hilo[p][m].limite \in Nat /\ hilo[p][m].fin \in Nat /\ Transporte \in Nat
  BY PlazosAssumption, CotasAssumption DEF Inductivo, TypeOK, Filas, Hilos, Envios
<1>1. EnvioEnOrden(p, m) /\ HiloAntesDelPlazo(p, m) /\ (~Abierta(p) => ~PuedeEfecto(p, m))
  BY DEF Inductivo, EnviosEnOrden, PlazoCubreHilo, CerradaSinVuelo
<1>2. EnvioEnOrden(p, m)'
  BY <1>0, <1>1 DEF EnvioEnOrden, Quieto, CambioFase
<1>3. HiloAntesDelPlazo(p, m)'
  BY <1>0, <1>1 DEF HiloAntesDelPlazo, Quieto
<1>4. PuedeEfecto(p, m)' => PuedeEfecto(p, m)
  BY DEF PuedeEfecto, Quieto
<1>5. Asentado(p) => ~PuedeEfecto(p, m)
  <2>1. CASE reloj >= fila[p].plazo
    BY <1>0, <1>1, <2>1 DEF HiloAntesDelPlazo, PuedeEfecto
  <2>2. CASE fila[p].fase \notin {"dispatch_started", "tarea"}
    BY <1>0, <1>1, <2>2 DEF EnvioEnOrden, PuedeEfecto
  <2>3. CASE fila[p].fase = "tarea" /\ tarea[p][fila[p].envio] = "fin"
    BY <1>0, <1>1, <2>3 DEF EnvioEnOrden, PuedeEfecto
  <2> QED
    BY <2>1, <2>2, <2>3 DEF Asentado
<1> QED
  BY <1>1, <1>2, <1>3, <1>4, <1>5 DEF CambioEstado

(* The remaining steps: time, the mark, and what threads and Proxmox do.   *)
LEMMA ActivoConserva ==
  ASSUME Inductivo, NEW p \in Ops, NEW m \in Envios,
         \/ Avanza
         \/ \E w \in Trabajadores, o \in Ops : Despachar(w, o)
         \/ \E o \in Ops, n \in Envios : PasoHilo(o, n)
  PROVE  /\ EnvioEnOrden(p, m)'
         /\ HiloAntesDelPlazo(p, m)'
         /\ ~Abierta(p)' => ~PuedeEfecto(p, m)'
<1> DEFINE Meta == /\ EnvioEnOrden(p, m)'
                   /\ HiloAntesDelPlazo(p, m)'
                   /\ ~Abierta(p)' => ~PuedeEfecto(p, m)'
<1>0. /\ TypeOK /\ reloj \in Nat /\ m \in Int
      /\ fila[p].plazo \in Nat /\ fila[p].envio \in Int
      /\ hilo[p][m].limite \in Nat /\ hilo[p][m].fin \in Nat
      /\ Lease \in Nat /\ Transporte \in Nat /\ Presupuesto \in Nat
  <2>1. TypeOK /\ reloj \in Nat
    BY DEF Inductivo, TypeOK
  <2>2. fila[p].plazo \in Nat /\ fila[p].envio \in Int
    BY <2>1, CotasAssumption DEF TypeOK, Filas
  <2>3. hilo[p][m].limite \in Nat /\ hilo[p][m].fin \in Nat
    BY <2>1 DEF TypeOK, Hilos
  <2> QED
    BY <2>1, <2>2, <2>3, PlazosAssumption DEF Envios
<1>1. EnvioEnOrden(p, m) /\ HiloAntesDelPlazo(p, m) /\ (~Abierta(p) => ~PuedeEfecto(p, m))
  BY DEF Inductivo, EnviosEnOrden, PlazoCubreHilo, CerradaSinVuelo
<1>2. CASE Avanza
  <2>1. /\ UNCHANGED <<fila, arriendo, trab, hilo, tarea>> /\ reloj' = reloj + 1
        /\ hilo[p][m].etapa = "post" => reloj < hilo[p][m].fin
    BY <1>2 DEF Avanza
  <2> QED
    BY <1>0, <1>1, <2>1 DEF EnvioEnOrden, HiloAntesDelPlazo, PuedeEfecto, Abierta
<1>3. ASSUME NEW w \in Trabajadores, NEW o \in Ops, Despachar(w, o) PROVE Meta
  <2> DEFINE n == fila[o].envio + 1
  <2>1. /\ n \in Envios /\ UNCHANGED <<reloj, arriendo, tarea>>
        /\ fila[o].fase \notin {"dispatch_started", "tarea"} /\ Abierta(o)
        /\ fila' = [fila EXCEPT ![o].fase = "dispatch_started", ![o].envio = n,
                                ![o].plazo = reloj + Presupuesto]
        /\ hilo' = [hilo EXCEPT ![o][n] = [etapa |-> "cola", limite |-> arriendo[o].hasta,
                                           fin |-> 0]]
    BY <1>3 DEF Despachar, PlazoNuevo, Vigente, CondicionLease, Despachables
  <2>2. n \in Int /\ fila[o].envio = n - 1
    BY <1>0 DEF TypeOK, Filas
  <2> HIDE DEF n
  <2>3. /\ fila'[o].fase = "dispatch_started" /\ fila'[o].envio = n
        /\ fila'[o].plazo = reloj + Presupuesto /\ fila'[o].estado = fila[o].estado
        /\ p # o => fila'[p] = fila[p]
    BY <1>0, <2>1 DEF TypeOK, Filas
  <2>4. /\ hilo'[o][n] = [etapa |-> "cola", limite |-> arriendo[o].hasta, fin |-> 0]
        /\ <<p, m>> # <<o, n>> => hilo'[p][m] = hilo[p][m]
    BY <1>0, <2>1 DEF TypeOK
  <2>5. arriendo[o].hasta + Transporte <= reloj + Presupuesto
    <3>1. arriendo[o].hasta \in Nat /\ arriendo[o].hasta <= reloj + Lease
      BY <1>0 DEF Inductivo, EsperaDelEnvio, TypeOK, Arriendos
    <3> QED
      BY <1>0, <3>1, PlazosAssumption
  <2>6. Abierta(o)' /\ (p # o => (Abierta(p)' <=> Abierta(p)))
    BY <2>1, <2>3 DEF Abierta
  <2>7. CASE p # o
    BY <1>1, <2>1, <2>3, <2>4, <2>6, <2>7 DEF EnvioEnOrden, HiloAntesDelPlazo, PuedeEfecto
  <2>8. CASE p = o /\ m = n
    <3>1. tarea[p][m] = "no"
      BY <1>1, <2>2, <2>8 DEF EnvioEnOrden
    <3>2. EnvioEnOrden(p, m)'
      BY <2>1, <2>2, <2>3, <2>4, <2>8, <3>1 DEF EnvioEnOrden
    <3>3. HiloAntesDelPlazo(p, m)'
      BY <2>3, <2>4, <2>5, <2>8 DEF HiloAntesDelPlazo
    <3> QED
      BY <2>6, <2>8, <3>2, <3>3
  <2>9. CASE p = o /\ m # n
    <3>1. /\ m > n => hilo[p][m].etapa = "ninguno"
          /\ m < n => tarea[p][m] = "fin" /\ hilo[p][m].etapa = "hecho"
      BY <1>0, <1>1, <2>1, <2>2, <2>9 DEF EnvioEnOrden
    <3>2. hilo[p][m].etapa \in {"ninguno", "hecho"}
      BY <1>0, <2>2, <2>9, <3>1
    <3>3. EnvioEnOrden(p, m)'
      BY <1>0, <1>1, <2>1, <2>2, <2>3, <2>4, <2>9, <3>1 DEF EnvioEnOrden
    <3>4. HiloAntesDelPlazo(p, m)'
      BY <2>4, <2>9, <3>2 DEF HiloAntesDelPlazo
    <3> QED
      BY <2>6, <2>9, <3>3, <3>4
  <2> QED
    BY <2>7, <2>8, <2>9
<1>4. ASSUME NEW o \in Ops, NEW n \in Envios, PasoHilo(o, n) PROVE Meta
  <2>1. CASE HiloEmpieza(o, n)
    <3>1. /\ hilo[o][n].etapa = "cola" /\ UNCHANGED <<reloj, fila, tarea>>
          /\ hilo' = [hilo EXCEPT ![o][n].etapa = IF reloj < hilo[o][n].limite
                                                  THEN "verifica" ELSE "muerto"]
      BY <2>1 DEF HiloEmpieza
    <3>2. /\ <<p, m>> # <<o, n>> => hilo'[p][m] = hilo[p][m]
          /\ hilo'[o][n].etapa \in {"verifica", "muerto"}
          /\ reloj >= hilo[o][n].limite => hilo'[o][n].etapa = "muerto"
          /\ hilo'[p][m].limite = hilo[p][m].limite /\ hilo'[p][m].fin = hilo[p][m].fin
      <4>1. CASE reloj < hilo[o][n].limite
        <5>1. hilo' = [hilo EXCEPT ![o][n].etapa = "verifica"]
          BY <3>1, <4>1
        <5> QED
          BY <1>0, <3>1, <4>1, <5>1 DEF TypeOK, Hilos
      <4>2. CASE ~(reloj < hilo[o][n].limite)
        <5>1. hilo' = [hilo EXCEPT ![o][n].etapa = "muerto"]
          BY <3>1, <4>2
        <5> QED
          BY <1>0, <3>1, <4>2, <5>1 DEF TypeOK, Hilos
      <4>3. reloj >= hilo[o][n].limite => ~(reloj < hilo[o][n].limite)
        BY <1>0 DEF TypeOK, Hilos
      <4> QED
        BY <4>1, <4>2, <4>3
    <3> QED
      BY <1>1, <3>1, <3>2 DEF EnvioEnOrden, HiloAntesDelPlazo, PuedeEfecto, Abierta
  <2>2. CASE HiloEnvia(o, n)
    <3>1. /\ hilo[o][n].etapa = "verifica" /\ reloj < hilo[o][n].limite
          /\ UNCHANGED <<reloj, fila, tarea>>
          /\ hilo' = [hilo EXCEPT ![o][n].etapa = "post", ![o][n].fin = reloj + Transporte]
      BY <2>2 DEF HiloEnvia
    <3>2. /\ <<p, m>> # <<o, n>> => hilo'[p][m] = hilo[p][m]
          /\ hilo'[o][n].etapa = "post" /\ hilo'[o][n].fin = reloj + Transporte
          /\ hilo'[o][n].limite = hilo[o][n].limite
      BY <1>0, <3>1 DEF TypeOK, Hilos
    <3>3. CASE <<p, m>> # <<o, n>>
      BY <1>1, <3>1, <3>2, <3>3 DEF EnvioEnOrden, HiloAntesDelPlazo, PuedeEfecto, Abierta
    <3>4. CASE p = o /\ m = n
      <4>1. EnvioEnOrden(p, m)'
        BY <1>1, <3>1, <3>2, <3>4 DEF EnvioEnOrden
      <4>2. HiloAntesDelPlazo(p, m)'
        BY <1>0, <1>1, <3>1, <3>2, <3>4 DEF HiloAntesDelPlazo
      <4>3. PuedeEfecto(p, m)
        BY <3>1, <3>4 DEF PuedeEfecto
      <4> QED
        BY <1>1, <3>1, <4>1, <4>2, <4>3 DEF Abierta
    <3> QED
      BY <3>3, <3>4
  <2>3. CASE HiloMuere(o, n)
    <3>1. /\ hilo[o][n].etapa \in {"verifica", "post"} /\ UNCHANGED <<reloj, fila, tarea>>
          /\ hilo' = [hilo EXCEPT ![o][n].etapa = "muerto"]
      BY <2>3 DEF HiloMuere
    <3>2. /\ <<p, m>> # <<o, n>> => hilo'[p][m] = hilo[p][m]
          /\ hilo'[o][n].etapa = "muerto"
      BY <1>0, <3>1 DEF TypeOK, Hilos
    <3> QED
      BY <1>1, <3>1, <3>2 DEF EnvioEnOrden, HiloAntesDelPlazo, PuedeEfecto, Abierta
  <2>4. CASE HiloLlega(o, n)
    <3>1. /\ hilo[o][n].etapa = "post" /\ UNCHANGED <<reloj, fila>>
          /\ hilo' = [hilo EXCEPT ![o][n].etapa = "hecho"]
          /\ tarea' = [tarea EXCEPT ![o][n] = "corre"]
      BY <2>4 DEF HiloLlega
    <3>2. /\ <<p, m>> # <<o, n>> => hilo'[p][m] = hilo[p][m] /\ tarea'[p][m] = tarea[p][m]
          /\ hilo'[o][n].etapa = "hecho" /\ tarea'[o][n] = "corre"
      BY <1>0, <3>1, EtapaEfecto DEF TypeOK
    <3> QED
      BY <1>0, <1>1, <3>1, <3>2 DEF EnvioEnOrden, HiloAntesDelPlazo, PuedeEfecto, Abierta
  <2>5. CASE TareaTermina(o, n)
    <3>1. /\ tarea[o][n] = "corre" /\ UNCHANGED <<reloj, fila, hilo>>
          /\ tarea' = [tarea EXCEPT ![o][n] = "fin"]
      BY <2>5 DEF TareaTermina
    <3>2. /\ <<p, m>> # <<o, n>> => tarea'[p][m] = tarea[p][m]
          /\ tarea'[o][n] = "fin"
      BY <1>0, <3>1 DEF TypeOK
    <3> QED
      BY <1>1, <3>1, <3>2 DEF EnvioEnOrden, HiloAntesDelPlazo, PuedeEfecto, Abierta
  <2> QED
    BY <1>4, <2>1, <2>2, <2>3, <2>4, <2>5 DEF PasoHilo
<1> QED
  BY <1>2, <1>3, <1>4

----------------------------------------------------------------------------
(* A claimant that waits: nothing changed for it, it no longer waits, or   *)
(* the lease is not its own.                                               *)
LEMMA EsperaIgual ==
  ASSUME NEW v \in Trabajadores, NEW p \in Ops, EsperaDe(v, p),
         trab'[v] = trab[v], fila'[p].fase = fila[p].fase, fila'[p].envio = fila[p].envio,
         Abierta(p)' => Abierta(p), arriendo'[p].dueno = arriendo[p].dueno,
         arriendo'[p].gen = arriendo[p].gen,
         arriendo'[p].hasta > reloj' => arriendo[p].hasta > reloj
  PROVE  EsperaDe(v, p)'
BY DEF EsperaDe, Vigente, CondicionLease

LEMMA EsperaNula ==
  ASSUME NEW v \in Trabajadores, NEW p \in Ops,
         \/ trab'[v].pc \notin {"espera", "sin_tarea"}
         \/ trab'[v].op # p
         \/ arriendo'[p].dueno # v
  PROVE  EsperaDe(v, p)'
BY DEF EsperaDe, Vigente, CondicionLease

LEMMA EsperaConserva ==
  ASSUME Inductivo, [Next]_vars, NEW v \in Trabajadores, NEW p \in Ops
  PROVE  EsperaDe(v, p)' /\ arriendo'[p].hasta <= reloj' + Lease
<1> DEFINE Meta == EsperaDe(v, p)' /\ arriendo'[p].hasta <= reloj' + Lease
<1>0. /\ TypeOK /\ EsperaDe(v, p) /\ arriendo[p].hasta <= reloj + Lease
      /\ reloj \in Nat /\ Lease \in Nat /\ arriendo[p].hasta \in Nat /\ v # Nadie
  <2>1. TypeOK /\ EsperaDe(v, p) /\ arriendo[p].hasta <= reloj + Lease /\ reloj \in Nat
    BY DEF Inductivo, EsperaDelEnvio, TypeOK
  <2>2. arriendo[p].hasta \in Nat
    BY <2>1 DEF TypeOK, Arriendos
  <2> QED
    BY <2>1, <2>2, PlazosAssumption, NadieAssumption
<1>1. CASE Avanza
  <2>1. UNCHANGED <<fila, arriendo, trab>> /\ reloj' = reloj + 1
    BY <1>1 DEF Avanza
  <2> QED
    BY <1>0, <2>1, EsperaIgual DEF Abierta
<1>2. CASE UNCHANGED <<reloj, fila, arriendo, trab>>
  BY <1>0, <1>2, EsperaIgual DEF Abierta
<1>3. ASSUME NEW o \in Ops, NEW n \in Envios, PasoHilo(o, n) PROVE Meta
  <2>1. UNCHANGED <<reloj, fila, arriendo, trab>>
    BY <1>3 DEF PasoHilo, HiloEmpieza, HiloEnvia, HiloMuere, HiloLlega, TareaTermina
  <2> QED
    BY <1>2, <2>1
<1>4. ASSUME NEW o \in Ops, Cancelar(o) PROVE Meta
  <2>1. /\ UNCHANGED <<reloj, trab>> /\ fila' = [fila EXCEPT ![o].estado = "fallida", ![o].fase = "cancelada"]
        /\ arriendo' = [arriendo EXCEPT ![o].dueno = Nadie, ![o].hasta = 0, ![o].gen = @ + 1]
    BY <1>4 DEF Cancelar
  <2>2. /\ p # o => fila'[p] = fila[p] /\ arriendo'[p] = arriendo[p]
        /\ arriendo'[o].dueno = Nadie /\ arriendo'[o].hasta = 0
    BY <1>0, <2>1 DEF TypeOK, Arriendos
  <2>3. CASE p # o
    BY <1>0, <2>1, <2>2, <2>3, EsperaIgual DEF Abierta
  <2>4. CASE p = o
    <3>1. EsperaDe(v, p)'
      BY <1>0, <2>2, <2>4, EsperaNula
    <3>2. arriendo'[p].hasta <= reloj' + Lease
      BY <1>0, <2>1, <2>2, <2>4
    <3> QED
      BY <3>1, <3>2
  <2> QED
    BY <2>3, <2>4
<1>5. ASSUME NEW w \in Trabajadores, Soltar(w), UNCHANGED <<reloj, fila, arriendo>> PROVE Meta
  <2>1. CASE v = w
    BY <1>0, <1>5, <2>1, SoltarEfecto, EsperaNula
  <2>2. CASE v # w
    BY <1>0, <1>5, <2>2, SoltarEfecto, EsperaIgual DEF Abierta
  <2> QED
    BY <2>1, <2>2
<1>6. ASSUME NEW w \in Trabajadores, NEW o \in Ops, Soltar(w), UNCHANGED reloj,
             \/ \E i \in BOOLEAN : Ceder(o, i)
             \/ \E f \in Cierres : Terminar(o, f)
      PROVE  Meta
  <2>1. /\ p # o => fila'[p] = fila[p] /\ arriendo'[p] = arriendo[p]
        /\ arriendo'[o].dueno = Nadie /\ arriendo'[o].hasta = 0
    BY <1>0, <1>6, CederEfecto, TerminarEfecto
  <2>2. trab'[w].pc = "libre" /\ (v # w => trab'[v] = trab[v])
    BY <1>0, <1>6, SoltarEfecto
  <2>3. CASE v = w \/ p = o
    BY <1>0, <1>6, <2>1, <2>2, <2>3, EsperaNula
  <2>4. CASE v # w /\ p # o
    BY <1>0, <1>6, <2>1, <2>2, <2>4, EsperaIgual DEF Abierta
  <2> QED
    BY <2>3, <2>4
<1>7. ASSUME NEW w \in Trabajadores, NEW o \in Ops, Latir(w, o) PROVE Meta
  <2>1. /\ arriendo' = [arriendo EXCEPT ![o].hasta = reloj + Lease]
        /\ UNCHANGED <<reloj, fila, trab>> /\ arriendo[o].hasta > reloj
    BY <1>7 DEF Latir, CondicionLease
  <2>2. /\ p # o => arriendo'[p] = arriendo[p]
        /\ arriendo'[p].dueno = arriendo[p].dueno /\ arriendo'[p].gen = arriendo[p].gen
        /\ arriendo'[o].hasta = reloj + Lease
    BY <1>0, <2>1 DEF TypeOK, Arriendos
  <2> QED
    BY <1>0, <2>1, <2>2, EsperaIgual DEF Abierta
<1>8. ASSUME NEW w \in Trabajadores, NEW o \in Ops, Reclamar(w, o) PROVE Meta
  <2>1. /\ arriendo' = [arriendo EXCEPT ![o].dueno = w, ![o].hasta = reloj + Lease, ![o].gen = @ + 1]
        /\ trab' = [trab EXCEPT ![w] = [pc |-> "activa", op |-> o, gen |-> arriendo[o].gen + 1,
                                        envio |-> 0, vence |-> 0]]
        /\ UNCHANGED reloj /\ fila' = [fila EXCEPT ![o].estado = "en_curso"]
    BY <1>8 DEF Reclamar
  <2>2. /\ p # o => arriendo'[p] = arriendo[p] /\ fila'[p] = fila[p]
        /\ arriendo'[o].dueno = w /\ arriendo'[o].hasta = reloj + Lease
    BY <1>0, <2>1 DEF TypeOK, Arriendos
  <2>3. trab'[w].pc = "activa" /\ (v # w => trab'[v] = trab[v])
    BY <1>0, <2>1 DEF TypeOK
  <2>4. CASE v = w \/ p = o
    <3>1. EsperaDe(v, p)'
      <4>1. CASE v = w
        BY <2>3, <4>1, EsperaNula
      <4>2. CASE v # w /\ p = o
        BY <2>2, <4>2, EsperaNula
      <4> QED
        BY <2>4, <4>1, <4>2
    <3>2. arriendo'[p].hasta <= reloj' + Lease
      <4>1. CASE p = o
        BY <1>0, <2>1, <2>2, <4>1
      <4>2. CASE p # o
        BY <1>0, <2>1, <2>2, <4>2
      <4> QED
        BY <4>1, <4>2
    <3> QED
      BY <3>1, <3>2
  <2>5. CASE v # w /\ p # o
    BY <1>0, <2>1, <2>2, <2>3, <2>5, EsperaIgual DEF Abierta
  <2> QED
    BY <2>4, <2>5

(* A step of the holder of o that only moves the phase of o.               *)
<1>9. ASSUME NEW w \in Trabajadores, NEW o \in Ops, NEW f, Vigente(w, o, "activa"),
             fila' = [fila EXCEPT ![o].fase = f], UNCHANGED <<reloj, arriendo, trab>>
      PROVE  Meta
  <2>1. CASE p # o
    BY <1>0, <1>9, <2>1, FaseEfecto, EsperaIgual DEF Abierta
  <2>2. CASE p = o
    BY <1>0, <1>9, <2>2, EsperaNula DEF Vigente, CondicionLease
  <2> QED
    BY <2>1, <2>2
<1>10. ASSUME NEW w \in Trabajadores, NEW o \in Ops, Preparar(w, o) PROVE Meta
  BY <1>9, <1>10 DEF Preparar
<1>11. ASSUME NEW w \in Trabajadores, NEW o \in Ops, RecuperarUpid(w, o) PROVE Meta
  BY <1>9, <1>11 DEF RecuperarUpid
<1>12. ASSUME NEW w \in Trabajadores, NEW o \in Ops, OtroEfecto(w, o) PROVE Meta
  BY <1>9, <1>12 DEF OtroEfecto
<1>13. ASSUME NEW w \in Trabajadores, NEW o \in Ops, RecibirUpid(w, o) PROVE Meta
  <2>1. /\ fila' = [fila EXCEPT ![o].fase = "tarea"] /\ UNCHANGED <<reloj, arriendo>>
        /\ trab' = [trab EXCEPT ![w].pc = "activa"] /\ arriendo[o].dueno = w
    BY <1>13 DEF RecibirUpid, Vigente, CondicionLease
  <2>2. trab'[w].pc = "activa" /\ (v # w => trab'[v] = trab[v])
    BY <1>0, <2>1 DEF TypeOK, Tomas
  <2>3. CASE v = w \/ p = o
    BY <1>0, <2>1, <2>2, <2>3, EsperaNula
  <2>4. CASE v # w /\ p # o
    BY <1>0, <2>1, <2>2, <2>4, FaseEfecto, EsperaIgual DEF Abierta
  <2> QED
    BY <2>3, <2>4
<1>14. ASSUME NEW w \in Trabajadores, NEW o \in Ops, SinTarea(w, o) PROVE Meta
  <2>1. /\ trab' = [trab EXCEPT ![w].pc = "sin_tarea"] /\ arriendo[o].dueno = w
        /\ trab[w].op = o /\ fila[o].fase = "dispatch_started"
        /\ UNCHANGED <<reloj, fila, arriendo>>
    BY <1>14 DEF SinTarea, Vigente, CondicionLease
  <2>2. /\ trab'[w].pc = "sin_tarea" /\ trab'[w].op = o
        /\ v # w => trab'[v] = trab[v]
    BY <1>0, <2>1 DEF TypeOK, Tomas
  <2>3. CASE v = w /\ p = o
    BY <1>0, <2>1, <2>2, <2>3 DEF EsperaDe, Vigente
  <2>4. CASE v = w /\ p # o
    BY <1>0, <2>1, <2>2, <2>4, EsperaNula
  <2>5. CASE v # w
    BY <1>0, <2>1, <2>2, <2>5, EsperaIgual DEF Abierta
  <2> QED
    BY <2>3, <2>4, <2>5
<1>15. ASSUME NEW w \in Trabajadores, NEW o \in Ops, Despachar(w, o) PROVE Meta
  <2> DEFINE n == fila[o].envio + 1
  <2>1. /\ trab' = [trab EXCEPT ![w].pc = "espera", ![w].envio = n, ![w].vence = reloj + Espera]
        /\ fila' = [fila EXCEPT ![o].fase = "dispatch_started", ![o].envio = n,
                                ![o].plazo = reloj + Presupuesto]
        /\ arriendo[o].dueno = w /\ trab[w].op = o /\ UNCHANGED <<reloj, arriendo>>
    BY <1>15 DEF Despachar, PlazoNuevo, Vigente, CondicionLease
  <2> HIDE DEF n
  <2>2. /\ trab'[w].pc = "espera" /\ trab'[w].op = o /\ trab'[w].envio = n
        /\ v # w => trab'[v] = trab[v]
    BY <1>0, <2>1 DEF TypeOK, Tomas
  <2>3. /\ fila'[o].fase = "dispatch_started" /\ fila'[o].envio = n
        /\ p # o => fila'[p] = fila[p]
    BY <1>0, <2>1 DEF TypeOK, Filas
  <2>4. CASE v = w /\ p = o
    BY <1>0, <2>1, <2>2, <2>3, <2>4 DEF EsperaDe
  <2>5. CASE v = w /\ p # o
    <3>1. EsperaDe(v, p)'
      BY <2>2, <2>5, EsperaNula
    <3> QED
      BY <1>0, <2>1, <3>1
  <2>6. CASE v # w /\ p = o
    BY <1>0, <2>1, <2>2, <2>6, EsperaNula
  <2>7. CASE v # w /\ p # o
    BY <1>0, <2>1, <2>2, <2>3, <2>7, EsperaIgual DEF Abierta
  <2> QED
    BY <2>4, <2>5, <2>6, <2>7
<1>16. ASSUME NEW w \in Trabajadores, NEW o \in Ops, EsperaVencida(w, o) PROVE Meta
  BY <1>6, <1>16 DEF EsperaVencida, Cierres
<1>17. ASSUME NEW w \in Trabajadores, NEW o \in Ops, ConfirmarPorObservacion(w, o) PROVE Meta
  BY <1>6, <1>17 DEF ConfirmarPorObservacion, Cierres
<1>18. ASSUME NEW w \in Trabajadores, NEW o \in Ops, DispatchNoConfirmado(w, o) PROVE Meta
  BY <1>6, <1>18 DEF DispatchNoConfirmado, Cierres
<1>19. ASSUME NEW w \in Trabajadores, NEW o \in Ops, TareaSigue(w, o) PROVE Meta
  BY <1>6, <1>19, PlazoVencido(o) \in BOOLEAN DEF TareaSigue, PlazoVencido, Cierres
<1>20. ASSUME NEW w \in Trabajadores, NEW o \in Ops, CerrarConTarea(w, o) PROVE Meta
  BY <1>6, <1>20 DEF CerrarConTarea, Cierres
<1>21. ASSUME NEW w \in Trabajadores, NEW o \in Ops, CerrarSinEnvio(w, o) PROVE Meta
  BY <1>6, <1>21 DEF CerrarSinEnvio, Cierres
<1>22. ASSUME NEW w \in Trabajadores, NEW o \in Ops, FalloDeLectura(w, o) PROVE Meta
  BY <1>6, <1>22 DEF FalloDeLectura, Cierres
<1>23. ASSUME NEW w \in Trabajadores, NEW o \in Ops, LeasePerdido(w, o) PROVE Meta
  BY <1>5, <1>23 DEF LeasePerdido
<1>24. ASSUME NEW w \in Trabajadores, Caida(w) PROVE Meta
  BY <1>5, <1>24 DEF Caida
<1>25. CASE UNCHANGED vars
  BY <1>2, <1>25 DEF vars
<1> QED
  BY <1>1, <1>3, <1>4, <1>7, <1>8, <1>10, <1>11, <1>12, <1>13, <1>14, <1>15,
     <1>16, <1>17, <1>18, <1>19, <1>20, <1>21, <1>22, <1>23, <1>24, <1>25
  DEF Next, PasoTrabajador

----------------------------------------------------------------------------
(* Every step keeps the marks in order: a dispatch asks for a later action *)
(* than the ones before it, and its UPID is recorded under its own mark.   *)
LEMMA MarcasConserva == Inductivo /\ [Next]_vars => MarcasEnOrden'
<1> SUFFICES ASSUME Inductivo, [Next]_vars PROVE MarcasEnOrden'
  OBVIOUS
<1>0. /\ TypeOK /\ MarcasEnOrden /\ EsperaDelEnvio /\ EnviosEnOrden
      /\ reloj \in Nat /\ reloj > 0
      /\ fila \in [Ops -> Filas] /\ marca \in [Ops -> Marcas]
      /\ registro \in [Ops -> [Envios -> Registros]]
  BY DEF Inductivo, TypeOK, MarcasEnOrden

(* Steps that neither mark nor record a UPID.                              *)
<1>1. ASSUME UNCHANGED <<marca, registro>>, reloj' = reloj \/ reloj' = reloj + 1,
             \A p \in Ops : /\ fila'[p].envio = fila[p].envio
                            /\ fila'[p].fase \in {fila[p].fase, "lista", "otra", "cancelada"}
      PROVE  MarcasEnOrden'
  <2>1. reloj' > 0
    BY <1>0, <1>1
  <2>2. \A p \in Ops : fila'[p].fase \in {"dispatch_started", "tarea"} => fila'[p].fase = fila[p].fase
    BY <1>1
  <2>3. \A p \in Ops, m \in Envios : TipoEnTurno(p, m)'
    BY <1>0, <1>1 DEF MarcasEnOrden, TipoEnTurno
  <2> QED
    BY <1>0, <1>1, <2>1, <2>2, <2>3 DEF MarcasEnOrden
<1>2. ASSUME NEW o \in Ops, NEW f \in {"lista", "otra"}, fila' = [fila EXCEPT ![o].fase = f],
             UNCHANGED <<reloj, marca, registro>>
      PROVE  MarcasEnOrden'
  <2>1. \A p \in Ops : /\ fila'[p].envio = fila[p].envio
                       /\ fila'[p].fase \in {fila[p].fase, "lista", "otra", "cancelada"}
    BY <1>0, <1>2, FaseEfecto
  <2> QED
    BY <1>1, <1>2, <2>1
<1>3. ASSUME NEW o \in Ops, UNCHANGED <<reloj, marca, registro>>,
             \/ UNCHANGED fila
             \/ \E e : fila' = [fila EXCEPT ![o].estado = e]
      PROVE  MarcasEnOrden'
  <2>1. \A p \in Ops : fila'[p].envio = fila[p].envio /\ fila'[p].fase = fila[p].fase
    BY <1>0, <1>3, EstadoEfecto
  <2> QED
    BY <1>1, <1>3, <2>1

(* The UPID of the latest dispatch is recorded.                            *)
<1>4. ASSUME NEW o \in Ops, fila[o].fase = "dispatch_started",
             fila' = [fila EXCEPT ![o].fase = "tarea"],
             marca' = [marca EXCEPT ![o].upid = fila[o].envio], UNCHANGED <<reloj, registro>>
      PROVE  MarcasEnOrden'
  <2>1. \A p \in Ops : /\ fila'[p].envio = fila[p].envio
                       /\ p # o => fila'[p] = fila[p]
    BY <1>0, <1>4, FaseEfecto
  <2>2. \A p \in Ops : /\ marca'[p].accion = marca[p].accion /\ marca'[p].desde = marca[p].desde
                       /\ p # o => marca'[p] = marca[p]
                       /\ marca'[o].upid = fila[o].envio
    BY <1>0, <1>4 DEF Marcas
  <2> QED
    BY <1>0, <1>4, <2>1, <2>2 DEF MarcasEnOrden, TipoEnTurno
<1>5. ASSUME NEW w \in Trabajadores, NEW o \in Ops, Despachar(w, o) PROVE MarcasEnOrden'
  <2> DEFINE n == fila[o].envio + 1
  <2>1. PICK a \in Acciones :
          /\ Turno(marca[o].accion) < Turno(a)
          /\ marca' = [marca EXCEPT ![o] = [accion |-> a, desde |-> reloj, upid |-> 0]]
          /\ registro' = [registro EXCEPT ![o][n].tipo = a]
    BY <1>5 DEF Despachar
  <2>2. /\ n \in Envios /\ reloj' = reloj
        /\ fila' = [fila EXCEPT ![o].fase = "dispatch_started", ![o].envio = n,
                                ![o].plazo = reloj + Presupuesto]
    BY <1>5 DEF Despachar, PlazoNuevo
  <2>3. n \in Int /\ fila[o].envio = n - 1 /\ Envios \subseteq Int
    BY <1>0 DEF Filas, Envios
  <2> HIDE DEF n
  <2>4. /\ fila'[o].fase = "dispatch_started" /\ fila'[o].envio = n
        /\ \A p \in Ops \ {o} : fila'[p] = fila[p] /\ marca'[p] = marca[p] /\ registro'[p] = registro[p]
        /\ marca'[o].accion = a /\ marca'[o].desde = reloj
        /\ registro'[o][n].tipo = a
        /\ \A m \in Envios \ {n} : registro'[o][m] = registro[o][m]
    BY <1>0, <2>1, <2>2 DEF Filas, Registros
  <2>5. ASSUME NEW m \in Envios PROVE TipoEnTurno(o, m)'
    <3>1. TipoEnTurno(o, m) /\ m \in Int
      BY <1>0, <2>3 DEF MarcasEnOrden
    <3>2. Turno(a) \in Int /\ Turno(marca[o].accion) \in Int /\ Turno(registro[o][m].tipo) \in Int
      BY DEF Turno
    <3>3. CASE m < n
      <4>1. Turno(registro[o][m].tipo) < Turno(a) /\ m # n
        BY <2>1, <2>3, <3>1, <3>2, <3>3 DEF TipoEnTurno
      <4> QED
        BY <2>4, <3>3, <4>1 DEF TipoEnTurno
    <3>4. CASE m = n
      BY <2>3, <2>4, <3>4 DEF TipoEnTurno
    <3>5. CASE m > n
      BY <2>3, <2>4, <3>1, <3>5 DEF TipoEnTurno
    <3> QED
      BY <2>3, <3>1, <3>3, <3>4, <3>5
  <2>6. ASSUME NEW p \in Ops \ {o}, NEW m \in Envios PROVE TipoEnTurno(p, m)'
    BY <1>0, <2>4 DEF MarcasEnOrden, TipoEnTurno
  <2> QED
    BY <1>0, <2>2, <2>4, <2>5, <2>6 DEF MarcasEnOrden
<1>6. ASSUME NEW o \in Ops, NEW n \in Envios, PasoHilo(o, n) PROVE MarcasEnOrden'
  <2>1. UNCHANGED <<reloj, fila, marca>>
    BY <1>6 DEF PasoHilo, HiloEmpieza, HiloEnvia, HiloMuere, HiloLlega, TareaTermina
  <2>2. UNCHANGED registro \/ registro' = [registro EXCEPT ![o][n].inicio = reloj]
    BY <1>6 DEF PasoHilo, HiloEmpieza, HiloEnvia, HiloMuere, HiloLlega, TareaTermina
  <2>3. \A p \in Ops, m \in Envios : registro'[p][m].tipo = registro[p][m].tipo
    BY <1>0, <2>2, InicioEfecto
  <2> QED
    BY <1>0, <2>1, <2>3 DEF MarcasEnOrden, TipoEnTurno
<1>7. ASSUME NEW w \in Trabajadores, NEW o \in Ops, RecibirUpid(w, o) PROVE MarcasEnOrden'
  <2>1. fila[o].fase = "dispatch_started" /\ trab[w].envio = fila[o].envio
    BY <1>0, <1>7 DEF RecibirUpid, EsperaDelEnvio, EsperaDe
  <2> QED
    BY <1>4, <1>7, <2>1 DEF RecibirUpid
<1>8. ASSUME NEW w \in Trabajadores, NEW o \in Ops, RecuperarUpid(w, o) PROVE MarcasEnOrden'
  BY <1>4, <1>8, HallaLaSuya DEF RecuperarUpid
<1>9. ASSUME NEW w \in Trabajadores, NEW o \in Ops, Preparar(w, o) \/ OtroEfecto(w, o)
      PROVE  MarcasEnOrden'
  BY <1>2, <1>9 DEF Preparar, OtroEfecto
<1>10. ASSUME NEW w \in Trabajadores, NEW o \in Ops,
              \/ Reclamar(w, o) \/ Latir(w, o) \/ LeasePerdido(w, o) \/ EsperaVencida(w, o)
              \/ SinTarea(w, o) \/ ConfirmarPorObservacion(w, o) \/ DispatchNoConfirmado(w, o)
              \/ TareaSigue(w, o) \/ CerrarConTarea(w, o) \/ CerrarSinEnvio(w, o)
              \/ FalloDeLectura(w, o)
       PROVE  MarcasEnOrden'
  <2>1. UNCHANGED <<reloj, marca, registro>>
    BY <1>10 DEF Reclamar, Latir, LeasePerdido, EsperaVencida, SinTarea, ConfirmarPorObservacion,
         DispatchNoConfirmado, TareaSigue, CerrarConTarea, CerrarSinEnvio, FalloDeLectura
  <2>2. UNCHANGED fila \/ \E e : fila' = [fila EXCEPT ![o].estado = e]
    BY <1>10 DEF Reclamar, Latir, LeasePerdido, EsperaVencida, SinTarea, ConfirmarPorObservacion,
         DispatchNoConfirmado, TareaSigue, CerrarConTarea, CerrarSinEnvio, FalloDeLectura,
         Ceder, Terminar
  <2> QED
    BY <1>3, <2>1, <2>2
<1>11. ASSUME NEW o \in Ops, Cancelar(o) PROVE MarcasEnOrden'
  <2>1. /\ UNCHANGED <<reloj, marca, registro>>
        /\ fila' = [fila EXCEPT ![o].estado = "fallida", ![o].fase = "cancelada"]
    BY <1>11 DEF Cancelar
  <2>2. \A p \in Ops : /\ fila'[p].envio = fila[p].envio
                       /\ fila'[p].fase \in {fila[p].fase, "lista", "otra", "cancelada"}
    BY <1>0, <2>1 DEF Filas
  <2> QED
    BY <1>1, <2>1, <2>2
<1>12. CASE Avanza \/ UNCHANGED vars \/ \E w \in Trabajadores : Caida(w)
  <2>1. UNCHANGED <<fila, marca, registro>> /\ (reloj' = reloj \/ reloj' = reloj + 1)
    BY <1>12 DEF Avanza, vars, Caida
  <2> QED
    BY <1>1, <2>1
<1> QED
  BY <1>5, <1>6, <1>7, <1>8, <1>9, <1>10, <1>11, <1>12 DEF Next, PasoTrabajador

(* Every step keeps the inductive invariant.                               *)
LEMMA PasoInductivo == Inductivo /\ [Next]_vars => Inductivo'
<1> SUFFICES ASSUME Inductivo, [Next]_vars PROVE Inductivo'
  OBVIOUS
<1>1. TypeOK'
  BY PasoTipos DEF Inductivo
<1>2. EsperaDelEnvio'
  <2>1. \A w \in Trabajadores, o \in Ops : EsperaDe(w, o)'
    BY EsperaConserva
  <2>2. ASSUME NEW o \in Ops PROVE arriendo'[o].hasta <= reloj' + Lease
    <3>1. CASE \E w \in Trabajadores : TRUE
      BY <3>1, EsperaConserva
    <3>2. CASE UNCHANGED arriendo /\ (reloj' = reloj \/ reloj' = reloj + 1)
      BY <3>2, PlazosAssumption DEF Inductivo, EsperaDelEnvio, TypeOK, Arriendos
    <3>3. ASSUME NEW q \in Ops, Cancelar(q) PROVE arriendo'[o].hasta <= reloj' + Lease
      BY <3>3, PlazosAssumption DEF Cancelar, Inductivo, EsperaDelEnvio, TypeOK, Arriendos
    <3>4. CASE Trabajadores = {}
      BY <3>2, <3>3, <3>4
      DEF Next, vars, Avanza, PasoHilo, HiloEmpieza, HiloEnvia, HiloMuere, HiloLlega, TareaTermina
    <3> QED
      BY <3>1, <3>4
  <2> QED
    BY <2>1, <2>2 DEF EsperaDelEnvio
<1>3. ASSUME NEW p \in Ops, NEW m \in Envios
      PROVE  /\ EnvioEnOrden(p, m)'
             /\ HiloAntesDelPlazo(p, m)'
             /\ ~Abierta(p)' => ~PuedeEfecto(p, m)'
  <2> DEFINE Activo == \/ Avanza
                       \/ \E w \in Trabajadores, o \in Ops : Despachar(w, o)
                       \/ \E o \in Ops, n \in Envios : PasoHilo(o, n)
             Callado == \/ UNCHANGED vars
                        \/ \E o \in Ops : Cancelar(o)
                        \/ \E w \in Trabajadores : Caida(w)
                        \/ \E w \in Trabajadores, o \in Ops : Administra(w, o)
  <2>1. Activo \/ Callado
    BY DEF Next, PasoTrabajador, Administra
  <2>2. CASE Activo
    BY <2>2, ActivoConserva
  <2>3. CASE Callado
    BY <2>3, Quietud, QuietoConserva
  <2> QED
    BY <2>1, <2>2, <2>3
<1>4. ASSUME NEW o \in Ops, fila'[o].fase \in {"dispatch_started", "tarea"}
      PROVE  fila'[o].envio \in Envios
  <2>1. TypeOK /\ (fila[o].fase \in {"dispatch_started", "tarea"} => fila[o].envio \in Envios)
    BY DEF Inductivo, EnviosEnOrden
  <2>2. CASE \E w \in Trabajadores, q \in Ops : Despachar(w, q)
    <3>1. PICK w \in Trabajadores, q \in Ops : Despachar(w, q)
      BY <2>2
    <3> DEFINE n == fila[q].envio + 1
    <3>2. /\ n \in Envios
          /\ fila' = [fila EXCEPT ![q].fase = "dispatch_started", ![q].envio = n,
                                  ![q].plazo = reloj + Presupuesto]
      BY <3>1 DEF Despachar, PlazoNuevo
    <3> HIDE DEF n
    <3> QED
      BY <1>4, <2>1, <3>2 DEF TypeOK, Filas
  <2>3. CASE \E q \in Ops, n \in Envios : PasoHilo(q, n)
    BY <1>4, <2>1, <2>3 DEF PasoHilo, HiloEmpieza, HiloEnvia, HiloMuere, HiloLlega, TareaTermina
  <2>4. CASE Avanza
    BY <1>4, <2>1, <2>4 DEF Avanza
  <2>5. CASE \/ UNCHANGED vars
             \/ \E q \in Ops : Cancelar(q)
             \/ \E w \in Trabajadores : Caida(w)
             \/ \E w \in Trabajadores, q \in Ops : Administra(w, q)
    <3>1. 1 \in Envios
      BY CotasAssumption DEF Envios
    <3> QED
      BY <1>4, <2>1, <2>5, <3>1, Quietud DEF Quieto, CambioFase
  <2> QED
    BY <2>2, <2>3, <2>4, <2>5 DEF Next, PasoTrabajador, Administra
<1>5. EnviosEnOrden' /\ PlazoCubreHilo' /\ CerradaSinVuelo'
  BY <1>3, <1>4 DEF EnviosEnOrden, PlazoCubreHilo, CerradaSinVuelo
<1>6. MarcasEnOrden'
  BY MarcasConserva
<1> QED
  BY <1>1, <1>2, <1>5, <1>6 DEF Inductivo

(* Types, the order of the dispatches of each row, the deadline over each  *)
(* thread and the claimants that may still send: together they hold.       *)
THEOREM InductivoSiempre == Spec => []Inductivo
<1> QED
  BY InitInductivo, PasoInductivo, PTL DEF Spec

(* The rows, leases, claimants, threads and tasks keep their types.        *)
THEOREM TiposSiempre == Spec => []TypeOK
<1>1. Inductivo => TypeOK
  BY DEF Inductivo
<1> QED
  BY <1>1, InductivoSiempre, PTL

(* No thread of a closed order can still reach Proxmox, whatever the       *)
(* number of orders and workers and however the clock moves between their  *)
(* steps (dispatch deadlines of _dispatch and procesar_lease).             *)
THEOREM CerradaSinVueloSiempre == Spec => []CerradaSinVuelo
<1>1. Inductivo => CerradaSinVuelo
  BY DEF Inductivo
<1> QED
  BY <1>1, InductivoSiempre, PTL

(* A dispatch is sent only after the task of the previous one ended.       *)
THEOREM EnvioTrasResultadoSiempre == Spec => []EnvioTrasResultado
<1>1. Inductivo => EnvioTrasResultado
  BY DEF Inductivo, EnviosEnOrden, EnvioEnOrden, EnvioTrasResultado, PuedeEfecto
<1> QED
  BY <1>1, InductivoSiempre, PTL

(* The recorded UPID names the task of the row's latest dispatch, whatever *)
(* is in the history of its container, as long as nobody outside the       *)
(* portal asks it meanwhile for the same action (AjenasAssumption).        *)
THEOREM UpidDelEnvioSiempre == Spec => []UpidDelEnvio
<1>1. Inductivo => UpidDelEnvio
  BY DEF Inductivo, MarcasEnOrden, EnviosEnOrden, EnvioEnOrden, UpidDelEnvio
<1> QED
  BY <1>1, InductivoSiempre, PTL

----------------------------------------------------------------------------
(* The executor implements OrdenDuradera: an arrived request starts an     *)
(* effect, the end of its task ends it, the four ways to close an order    *)
(* close it, and every other step is invisible.                            *)
LEMMA PasoInvisible ==
  ASSUME tarea' = tarea, \A p \in Ops : fila'[p].estado \in ABIERTOS <=> fila[p].estado \in ABIERTOS
  PROVE  UNCHANGED Promesa!vars
BY DEF Promesa!vars, Abierta

LEMMA PasoCierra ==
  ASSUME TypeOK, NEW o \in Ops, Abierta(o), tarea' = tarea, ~Abierta(o)',
         \A p \in Ops : p # o => fila'[p] = fila[p]
  PROVE  Promesa!Cerrar(o)
<1>1. \A p \in Ops : p # o => (Abierta(p)' <=> Abierta(p))
  BY DEF Abierta
<1> QED
  BY <1>1 DEF Promesa!Cerrar, Abierta

LEMMA PasoPromesa == Inductivo /\ [Next]_vars => [Promesa!Next]_(Promesa!vars)
<1> SUFFICES ASSUME Inductivo, [Next]_vars PROVE [Promesa!Next]_(Promesa!vars)
  OBVIOUS
<1>0. TypeOK /\ EnviosEnOrden /\ CerradaSinVuelo
  BY DEF Inductivo
<1>1. ASSUME NEW o \in Ops, NEW n \in Envios, HiloLlega(o, n)
      PROVE  Promesa!Empezar(o, n)
  <2>1. hilo[o][n].etapa = "post" /\ UNCHANGED fila /\ tarea' = [tarea EXCEPT ![o][n] = "corre"]
    BY <1>1 DEF HiloLlega
  <2>2. Abierta(o)
    BY <1>0, <2>1 DEF CerradaSinVuelo, PuedeEfecto
  <2>3. tarea[o][n] = "no"
    BY <1>0, <2>1 DEF EnviosEnOrden, EnvioEnOrden
  <2>4. ASSUME NEW m \in Envios, m < n PROVE tarea[o][m] = "fin"
    <3>1. fila[o].envio \in Int /\ m \in Int /\ n \in Int
      BY <1>0 DEF TypeOK, Filas, Envios
    <3>2. ~(n > fila[o].envio)
      BY <1>0, <2>1 DEF EnviosEnOrden, EnvioEnOrden
    <3> QED
      BY <1>0, <2>4, <3>1, <3>2 DEF EnviosEnOrden, EnvioEnOrden
  <2>5. \A p \in Ops : Abierta(p)' <=> Abierta(p)
    BY <2>1 DEF Abierta
  <2> QED
    BY <2>1, <2>2, <2>3, <2>4, <2>5 DEF Promesa!Empezar, Promesa!Envios, Envios, Abierta
<1>2. ASSUME NEW o \in Ops, NEW n \in Envios, TareaTermina(o, n)
      PROVE  Promesa!Acabar(o, n)
  <2>1. \A p \in Ops : Abierta(p)' <=> Abierta(p)
    BY <1>2 DEF TareaTermina, Abierta
  <2> QED
    BY <1>2, <2>1 DEF TareaTermina, Promesa!Acabar, Abierta
<1>3. ASSUME NEW w \in Trabajadores, NEW o \in Ops,
             CerrarConTarea(w, o) \/ CerrarSinEnvio(w, o) \/ ConfirmarPorObservacion(w, o)
      PROVE  Promesa!Cerrar(o)
  <2>1. (\E f \in Cierres : Terminar(o, f)) /\ tarea' = tarea /\ Abierta(o)
    BY <1>3 DEF CerrarConTarea, CerrarSinEnvio, ConfirmarPorObservacion, Vigente, CondicionLease, Cierres
  <2>2. fila'[o].estado \in Cierres /\ \A p \in Ops : p # o => fila'[p] = fila[p]
    BY <1>0, <2>1, TerminarEfecto
  <2> QED
    BY <1>0, <2>1, <2>2, PasoCierra DEF Abierta, ABIERTOS, Cierres
<1>4. ASSUME NEW o \in Ops, Cancelar(o) PROVE Promesa!Cerrar(o)
  <2>1. /\ fila' = [fila EXCEPT ![o].estado = "fallida", ![o].fase = "cancelada"] /\ tarea' = tarea
        /\ Abierta(o)
    BY <1>4 DEF Cancelar, Abierta, ABIERTOS
  <2>2. fila'[o].estado = "fallida" /\ \A p \in Ops : p # o => fila'[p] = fila[p]
    BY <1>0, <2>1 DEF TypeOK, Filas
  <2> QED
    BY <1>0, <2>1, <2>2, PasoCierra DEF Abierta, ABIERTOS

(* Steps that touch the row only by its phase, its deadline or its lease.  *)
<1>5. ASSUME NEW w \in Trabajadores, NEW o \in Ops,
             \/ Reclamar(w, o) \/ EsperaVencida(w, o) \/ DispatchNoConfirmado(w, o)
             \/ TareaSigue(w, o) \/ FalloDeLectura(w, o)
      PROVE  UNCHANGED Promesa!vars
  <2>1. /\ tarea' = tarea /\ Abierta(o)
        /\ \/ fila' = [fila EXCEPT ![o].estado = "en_curso"]
           \/ \E i \in BOOLEAN : Ceder(o, i)
    BY <1>5, PlazoVencido(o) \in BOOLEAN
    DEF PlazoVencido, Reclamar, EsperaVencida, DispatchNoConfirmado, TareaSigue, FalloDeLectura, Vigente, CondicionLease
  <2>2. fila'[o].estado \in ABIERTOS /\ \A p \in Ops : p # o => fila'[p] = fila[p]
    <3>1. CASE fila' = [fila EXCEPT ![o].estado = "en_curso"]
      BY <1>0, <3>1 DEF TypeOK, Filas, ABIERTOS
    <3>2. CASE \E i \in BOOLEAN : Ceder(o, i)
      BY <1>0, <3>2, CederEfecto
    <3> QED
      BY <2>1, <3>1, <3>2
  <2> QED
    BY <2>1, <2>2, PasoInvisible DEF Abierta
<1>6. ASSUME NEW w \in Trabajadores, NEW o \in Ops,
             \/ Preparar(w, o) \/ RecibirUpid(w, o) \/ RecuperarUpid(w, o) \/ OtroEfecto(w, o)
      PROVE  UNCHANGED Promesa!vars
  <2>1. tarea' = tarea /\ \E f \in {"lista", "tarea", "otra"} : fila' = [fila EXCEPT ![o].fase = f]
    BY <1>6 DEF Preparar, RecibirUpid, RecuperarUpid, OtroEfecto
  <2> QED
    BY <1>0, <2>1, FaseEfecto, PasoInvisible
<1>7. ASSUME NEW w \in Trabajadores, NEW o \in Ops, Despachar(w, o)
      PROVE  UNCHANGED Promesa!vars
  <2> DEFINE n == fila[o].envio + 1
  <2>1. /\ tarea' = tarea
        /\ fila' = [fila EXCEPT ![o].fase = "dispatch_started", ![o].envio = n,
                                ![o].plazo = reloj + Presupuesto]
    BY <1>7 DEF Despachar, PlazoNuevo
  <2> HIDE DEF n
  <2>2. \A p \in Ops : fila'[p].estado = fila[p].estado
    BY <1>0, <2>1 DEF TypeOK, Filas
  <2> QED
    BY <2>1, <2>2, PasoInvisible
<1>8. ASSUME UNCHANGED <<fila, tarea>> PROVE UNCHANGED Promesa!vars
  BY <1>8, PasoInvisible
<1>9. CASE Avanza \/ UNCHANGED vars \/ \E w \in Trabajadores : Caida(w)
  BY <1>8, <1>9 DEF Avanza, vars, Caida
<1>10. ASSUME NEW w \in Trabajadores, NEW o \in Ops,
              Latir(w, o) \/ LeasePerdido(w, o) \/ SinTarea(w, o)
       PROVE  UNCHANGED Promesa!vars
  BY <1>8, <1>10 DEF Latir, LeasePerdido, SinTarea
<1>11. ASSUME NEW o \in Ops, NEW n \in Envios,
              HiloEmpieza(o, n) \/ HiloEnvia(o, n) \/ HiloMuere(o, n)
       PROVE  UNCHANGED Promesa!vars
  BY <1>8, <1>11 DEF HiloEmpieza, HiloEnvia, HiloMuere
<1>12. \A n : n \in Envios <=> n \in Promesa!Envios
  BY DEF Envios, Promesa!Envios
<1> QED
  BY <1>1, <1>2, <1>3, <1>4, <1>5, <1>6, <1>7, <1>9, <1>10, <1>11, <1>12
  DEF Next, PasoTrabajador, PasoHilo, Promesa!Next

(* For every number of orders, workers and dispatches, crashes, lost       *)
(* leases, lost answers and late requests never show: Proxmox sees each    *)
(* order's effects one at a time, once each, and none after it is closed.  *)
THEOREM CumpleLaPromesa == Spec => PromesaSpec
<1>1. Init => Promesa!Init
  BY DEF Init, Promesa!Init, Promesa!Envios, Envios, Abierta, ABIERTOS
<1> QED
  BY <1>1, PasoPromesa, InductivoSiempre, PTL DEF Spec, PromesaSpec, Promesa!Spec

----------------------------------------------------------------------------
(* What a row shows of its latest dispatch.                                *)
LEMMA VistaBien ==
  ASSUME Inductivo, NEW p \in Ops
  PROVE  /\ fila[p].envio = 0 \/ fila[p].envio \in Envios
         /\ FilaVista(p) = "lista" => HiloVisto(p) \in {"no", "fin"}
         /\ HiloVisto(p) = "vuelo" => FilaVista(p) = "enviada" /\ ~PlazoVencido(p)
         /\ fila[p].fase = "tarea" =>
              fila[p].envio \in Envios /\ HiloVisto(p) = tarea[p][fila[p].envio]
  <1>. DEFINE n == fila[p].envio
  <1>1. TypeOK /\ EnviosEnOrden /\ PlazoCubreHilo /\ CerradaSinVuelo
    BY DEF Inductivo
  <1>2. fila[p] \in Filas /\ n \in 0..MaxEnvios /\ (n = 0 \/ n \in Envios) /\ 0 \notin Envios
    BY <1>1, CotasAssumption DEF TypeOK, Filas, Envios
  <1>3. CASE n = 0
    BY <1>1, <1>2, <1>3 DEF FilaVista, HiloVisto, EnviosEnOrden
  <1>4. CASE n \in Envios
    <2>1. n # 0 /\ EnvioEnOrden(p, n) /\ HiloAntesDelPlazo(p, n) /\ (~Abierta(p) => ~PuedeEfecto(p, n))
      BY <1>1, <1>2, <1>4 DEF EnviosEnOrden, PlazoCubreHilo, CerradaSinVuelo
    <2>2. tarea[p][n] \in {"no", "corre", "fin"} /\ hilo[p][n] \in Hilos
          /\ reloj \in Nat /\ fila[p].plazo \in Nat
      BY <1>1, <1>2, <1>4 DEF TypeOK, Filas
    <2>. HIDE DEF n
    <2>3. HiloVisto(p) = IF tarea[p][n] # "no" THEN tarea[p][n]
                         ELSE IF PuedeEfecto(p, n) THEN "vuelo" ELSE "muerto"
      BY <2>1 DEF HiloVisto, n
    <2>4. FilaVista(p) = "lista" => tarea[p][n] = "fin"
      BY <2>1 DEF FilaVista, EnvioEnOrden, n
    <2>5. fila[p].fase = "tarea" => tarea[p][n] # "no"
      BY <2>1 DEF EnvioEnOrden, n
    <2>6. PuedeEfecto(p, n) => reloj < fila[p].plazo
      BY <2>1, <2>2, PlazosAssumption DEF PuedeEfecto, HiloAntesDelPlazo, Hilos
    <2>7. PuedeEfecto(p, n) => ~PlazoVencido(p)
      BY <2>2, <2>6 DEF PlazoVencido
    <2>8. HiloVisto(p) = "vuelo" => PuedeEfecto(p, n) /\ tarea[p][n] = "no"
      BY <2>2, <2>3
    <2>9. FilaVista(p) \in {"cerrada", "lista", "enviada"} /\ (FilaVista(p) = "cerrada" => ~Abierta(p))
      BY DEF FilaVista
    <2>10. HiloVisto(p) = "vuelo" => FilaVista(p) = "enviada" /\ ~PlazoVencido(p)
      BY <2>1, <2>4, <2>7, <2>8, <2>9
    <2>. QED  BY <1>4, <2>3, <2>4, <2>5, <2>10 DEF n
  <1>. QED  BY <1>2, <1>3, <1>4

(* A step of the administration ends a thread or changes a row, not both,  *)
(* and no row is opened again.                                             *)
LEMMA HiloOFila ==
  ASSUME Inductivo, NEW p \in Ops,
         \/ UNCHANGED vars
         \/ \E o \in Ops : Cancelar(o)
         \/ \E w \in Trabajadores : Caida(w)
         \/ \E w \in Trabajadores, o \in Ops : Administra(w, o)
  PROVE  /\ UNCHANGED hilo \/ (fila'[p].fase = fila[p].fase /\ (Abierta(p)' <=> Abierta(p)))
         /\ Abierta(p)' => Abierta(p)
  <1>1. TypeOK /\ fila \in [Ops -> Filas]
    BY DEF Inductivo, TypeOK
  <1>2. CASE UNCHANGED vars \/ \E w \in Trabajadores : Caida(w)
    BY <1>2 DEF vars, Caida, Abierta
  <1>3. ASSUME NEW o \in Ops, Cancelar(o) PROVE UNCHANGED hilo /\ (Abierta(p)' => Abierta(p))
    BY <1>1, <1>3 DEF Cancelar, Abierta, ABIERTOS, Filas
  <1>4. ASSUME NEW w \in Trabajadores, NEW o \in Ops, EsperaVencida(w, o)
        PROVE  fila'[p].fase = fila[p].fase /\ (Abierta(p)' <=> Abierta(p))
    BY <1>1, <1>4, CederEfecto DEF EsperaVencida, Abierta, Vigente, CondicionLease
  <1>5. ASSUME NEW w \in Trabajadores, NEW o \in Ops, Administra(w, o), ~EsperaVencida(w, o)
        PROVE  UNCHANGED hilo /\ (Abierta(p)' => Abierta(p))
    <2>1. UNCHANGED hilo
      BY <1>5 DEF Administra, Reclamar, Latir, LeasePerdido, Preparar, RecibirUpid, RecuperarUpid,
           SinTarea, ConfirmarPorObservacion, DispatchNoConfirmado, TareaSigue, OtroEfecto,
           CerrarConTarea, CerrarSinEnvio, FalloDeLectura
    <2>2. CASE UNCHANGED fila
      BY <2>1, <2>2 DEF Abierta
    <2>3. Abierta(o) \/ UNCHANGED fila
      BY <1>5 DEF Administra, Reclamar, Latir, LeasePerdido, Preparar, RecibirUpid, RecuperarUpid,
           SinTarea, ConfirmarPorObservacion, DispatchNoConfirmado, TareaSigue, OtroEfecto,
           CerrarConTarea, CerrarSinEnvio, FalloDeLectura, Vigente, CondicionLease
    <2>4. ASSUME NEW f, fila' = [fila EXCEPT ![o].fase = f] PROVE Abierta(p)' => Abierta(p)
      <3>1. fila'[p].estado = fila[p].estado
        BY <1>1, <2>4, FaseEfecto
      <3>. QED  BY <3>1 DEF Abierta
    <2>5. ASSUME NEW e, fila' = [fila EXCEPT ![o].estado = e] PROVE Abierta(p)' => Abierta(p)
      <3>1. p # o => fila'[p] = fila[p]
        BY <1>1, <2>5, EstadoEfecto
      <3>. QED  BY <2>2, <2>3, <3>1 DEF Abierta
    <2>6. UNCHANGED fila \/ (\E f : fila' = [fila EXCEPT ![o].fase = f])
                         \/ \E e : fila' = [fila EXCEPT ![o].estado = e]
      BY <1>5 DEF Administra, Reclamar, Latir, LeasePerdido, Preparar, RecibirUpid, RecuperarUpid,
           SinTarea, ConfirmarPorObservacion, DispatchNoConfirmado, TareaSigue, OtroEfecto,
           CerrarConTarea, CerrarSinEnvio, FalloDeLectura, Ceder, Terminar
    <2>. QED  BY <2>1, <2>2, <2>4, <2>5, <2>6
  <1>. QED  BY <1>2, <1>3, <1>4, <1>5

(* The administration shows as a step of the row or as the end of a thread *)
(* that had not sent.                                                      *)
LEMMA AdministraDespacho ==
  ASSUME Inductivo, NEW p \in Ops,
         \/ UNCHANGED vars
         \/ \E o \in Ops : Cancelar(o)
         \/ \E w \in Trabajadores : Caida(w)
         \/ \E w \in Trabajadores, o \in Ops : Administra(w, o)
  PROVE  [Despacho(p)!Next]_(Despacho(p)!vars)
  <1>. DEFINE n == fila[p].envio
  <1>1. /\ n = 0 \/ n \in Envios
        /\ 0 \notin Envios /\ 1 \in Envios
        /\ HiloVisto(p) = "vuelo" => FilaVista(p) = "enviada" /\ ~PlazoVencido(p)
        /\ fila[p].fase = "tarea" => n \in Envios /\ HiloVisto(p) = tarea[p][n]
    BY VistaBien, CotasAssumption DEF Envios
  <1>2. /\ CambioFase(p) /\ CambioEstado(p)
        /\ \A m \in Envios : Quieto(p, m)
    BY <1>1, Quietud
  <1>3. /\ fila'[p].envio = n /\ fila'[p].plazo = fila[p].plazo
        /\ reloj' = reloj /\ tarea' = tarea
        /\ PlazoVencido(p)' <=> PlazoVencido(p)
    BY <1>1, <1>2 DEF Quieto, PlazoVencido
  <1>4. UNCHANGED hilo \/ FilaVista(p)' = FilaVista(p)
    BY HiloOFila DEF FilaVista
  <1>. HIDE DEF n
  <1>5. CASE UNCHANGED hilo
    <2>1. HiloVisto(p)' = HiloVisto(p)
      BY <1>3, <1>5 DEF HiloVisto, PuedeEfecto, n
    <2>2. CASE FilaVista(p)' = FilaVista(p)
      BY <1>3, <2>1, <2>2 DEF Despacho!vars
    <2>3. CASE FilaVista(p)' # FilaVista(p) /\ ~Abierta(p)'
      <3>1. Abierta(p) /\ FilaVista(p)' = "cerrada"
        BY <2>3 DEF FilaVista
      <3>2. Asentado(p)
        BY <1>2, <2>3, <3>1 DEF CambioEstado
      <3>3. FilaVista(p) = "lista"
              \/ (FilaVista(p) = "enviada" /\ (HiloVisto(p) = "fin" \/ PlazoVencido(p)))
        BY <1>1, <3>1, <3>2 DEF Asentado, FilaVista, PlazoVencido, n
      <3>4. Despacho(p)!Cerrar
        BY <2>1, <3>1, <3>3 DEF Despacho!Cerrar
      <3>. QED  BY <3>4 DEF Despacho!Next
    <2>4. CASE FilaVista(p)' # FilaVista(p) /\ Abierta(p)'
      <3>1. Abierta(p)
        BY <2>4, HiloOFila
      <3>2. fila[p].fase = "tarea" /\ fila'[p].fase = "otra" /\ tarea[p][n] = "fin"
        BY <1>2, <2>4, <3>1 DEF CambioFase, FilaVista, n
      <3>3. FilaVista(p) = "enviada" /\ FilaVista(p)' = "lista" /\ HiloVisto(p) = "fin"
        BY <1>1, <2>4, <3>1, <3>2 DEF FilaVista
      <3>4. Despacho(p)!Seguir
        BY <2>1, <3>3 DEF Despacho!Seguir
      <3>. QED  BY <3>4 DEF Despacho!Next
    <2>. QED  BY <2>2, <2>3, <2>4
  <1>6. CASE ~UNCHANGED hilo
    <2>1. FilaVista(p)' = FilaVista(p)
      BY <1>4, <1>6
    <2>2. HiloVisto(p)' = HiloVisto(p) \/ (HiloVisto(p) = "vuelo" /\ HiloVisto(p)' = "muerto")
      <3>1. CASE n = 0
        BY <1>3, <3>1 DEF HiloVisto, n
      <3>2. CASE n \in Envios
        <4>1. \A m \in Envios : PuedeEfecto(p, m)' => PuedeEfecto(p, m)
          BY <1>2, <1>3 DEF Quieto, PuedeEfecto
        <4>. QED  BY <1>1, <1>3, <3>2, <4>1 DEF HiloVisto, n
      <3>. QED  BY <1>1, <3>1, <3>2
    <2>3. CASE HiloVisto(p)' = HiloVisto(p)
      BY <1>3, <2>1, <2>3 DEF Despacho!vars
    <2>4. CASE HiloVisto(p) = "vuelo" /\ HiloVisto(p)' = "muerto"
      BY <1>3, <2>1, <2>4 DEF Despacho!Next, Despacho!Morir
    <2>. QED  BY <2>2, <2>3, <2>4
  <1>. QED  BY <1>5, <1>6

(* Time ends a thread that has not sent, or passes the deadline of a row   *)
(* whose thread already ended; never both at once.                         *)
LEMMA AvanzaDespacho ==
  ASSUME Inductivo, NEW p \in Ops, Avanza
  PROVE  [Despacho(p)!Next]_(Despacho(p)!vars)
  <1>. DEFINE n == fila[p].envio
  <1>1. /\ n = 0 \/ n \in Envios
        /\ HiloVisto(p) = "vuelo" => FilaVista(p) = "enviada" /\ ~PlazoVencido(p)
    BY VistaBien
  <1>2. /\ reloj' = reloj + 1 /\ UNCHANGED <<fila, hilo, tarea>>
        /\ \A m \in Envios : hilo[p][m].etapa = "post" => reloj < hilo[p][m].fin
    BY DEF Avanza
  <1>3. /\ TypeOK /\ reloj \in Nat /\ fila[p].plazo \in Nat
        /\ \A m \in Envios : HiloAntesDelPlazo(p, m) /\ hilo[p][m] \in Hilos
    BY DEF Inductivo, TypeOK, PlazoCubreHilo, Filas
  <1>4. FilaVista(p)' = FilaVista(p) /\ n' = n
    BY <1>2 DEF FilaVista, Abierta
  <1>5. PlazoVencido(p) => PlazoVencido(p)'
    BY <1>2, <1>3 DEF PlazoVencido
  <1>6. \A m \in Envios : /\ PuedeEfecto(p, m)' => PuedeEfecto(p, m)
                          /\ PlazoVencido(p)' => ~PuedeEfecto(p, m)
    <2>. SUFFICES ASSUME NEW m \in Envios
                  PROVE  /\ PuedeEfecto(p, m)' => PuedeEfecto(p, m)
                         /\ PlazoVencido(p)' => ~PuedeEfecto(p, m)
      OBVIOUS
    <2>1. hilo[p][m].limite \in Nat /\ hilo[p][m].fin \in Nat
      BY <1>3 DEF Hilos
    <2>2. PuedeEfecto(p, m)' => PuedeEfecto(p, m)
      BY <1>2, <1>3, <2>1 DEF PuedeEfecto
    <2>3. PlazoVencido(p)' => ~PuedeEfecto(p, m)
      <3>. SUFFICES ASSUME reloj + 1 >= fila[p].plazo PROVE ~PuedeEfecto(p, m)
        BY <1>2 DEF PlazoVencido
      <3>1. hilo[p][m].etapa # "post"
        BY <1>2, <1>3, <2>1 DEF HiloAntesDelPlazo
      <3>2. hilo[p][m].etapa \in {"cola", "verifica"} => ~(reloj < hilo[p][m].limite)
        BY <1>3, <2>1, PlazosAssumption DEF HiloAntesDelPlazo
      <3>. QED  BY <3>1, <3>2 DEF PuedeEfecto
    <2>. QED  BY <2>2, <2>3
  <1>. HIDE DEF n
  <1>7. HiloVisto(p) = "vuelo" => n \in Envios /\ PuedeEfecto(p, n)
    BY <1>1, <1>3 DEF HiloVisto, TypeOK, n
  <1>8. HiloVisto(p)' = HiloVisto(p) \/ (HiloVisto(p) = "vuelo" /\ HiloVisto(p)' = "muerto")
    BY <1>1, <1>2, <1>6 DEF HiloVisto, n
  <1>9. PlazoVencido(p)' => HiloVisto(p) # "vuelo"
    BY <1>6, <1>7
  <1>10. CASE HiloVisto(p)' = HiloVisto(p)
    <2>1. CASE FilaVista(p) = "enviada" /\ ~PlazoVencido(p) /\ PlazoVencido(p)'
      BY <1>4, <1>9, <1>10, <2>1 DEF Despacho!Next, Despacho!Vencer
    <2>2. CASE ~(FilaVista(p) = "enviada" /\ ~PlazoVencido(p) /\ PlazoVencido(p)')
      BY <1>4, <1>5, <1>10, <2>2 DEF Despacho!vars
    <2>. QED  BY <2>1, <2>2
  <1>11. CASE HiloVisto(p) = "vuelo" /\ HiloVisto(p)' = "muerto"
    BY <1>1, <1>4, <1>5, <1>9, <1>11 DEF Despacho!Next, Despacho!Morir
  <1>. QED  BY <1>8, <1>10, <1>11

(* A dispatch shows as the mark of the row and a thread on its way; to any *)
(* other order it does not show.                                           *)
LEMMA DespacharDespacho ==
  ASSUME Inductivo, NEW p \in Ops, NEW w \in Trabajadores, NEW o \in Ops, Despachar(w, o)
  PROVE  [Despacho(p)!Next]_(Despacho(p)!vars)
  <1>. DEFINE n == fila[o].envio + 1
  <1>1. TypeOK
    BY DEF Inductivo
  <1>2. /\ n \in Envios /\ reloj' = reloj /\ tarea' = tarea
        /\ fila' = [fila EXCEPT ![o].fase = "dispatch_started", ![o].envio = n,
                                ![o].plazo = reloj + Presupuesto]
        /\ hilo' = [hilo EXCEPT ![o][n] = [etapa |-> "cola", limite |-> arriendo[o].hasta, fin |-> 0]]
        /\ FilaVista(o) = "lista" /\ Abierta(o) /\ reloj < arriendo[o].hasta
    BY <1>1 DEF Despachar, PlazoNuevo, Vigente, CondicionLease, FilaVista, Despachables, TypeOK, Arriendos
  <1>3. fila[o].envio \in Nat /\ n > fila[o].envio
    BY <1>1 DEF TypeOK, Filas
  <1>. HIDE DEF n
  <1>4. CASE p # o
    <2>1. fila'[p] = fila[p] /\ hilo'[p] = hilo[p]
      BY <1>1, <1>2, <1>4 DEF TypeOK
    <2>2. FilaVista(p)' = FilaVista(p) /\ (PlazoVencido(p)' <=> PlazoVencido(p))
      BY <1>2, <2>1 DEF FilaVista, Abierta, PlazoVencido
    <2>3. \A m \in Envios : PuedeEfecto(p, m)' <=> PuedeEfecto(p, m)
      BY <1>2, <2>1 DEF PuedeEfecto
    <2>4. HiloVisto(p)' = HiloVisto(p)
      <3>1. fila'[p].envio = fila[p].envio /\ (fila[p].envio = 0 \/ fila[p].envio \in Envios)
        BY <2>1, VistaBien
      <3>. QED  BY <1>2, <2>3, <3>1 DEF HiloVisto
    <2>. QED  BY <2>2, <2>4 DEF Despacho!vars
  <1>5. CASE p = o
    <2>1. /\ fila'[o].fase = "dispatch_started" /\ fila'[o].envio = n
          /\ fila'[o].plazo = reloj + Presupuesto /\ fila'[o].estado = fila[o].estado
          /\ hilo'[o][n] = [etapa |-> "cola", limite |-> arriendo[o].hasta, fin |-> 0]
      BY <1>1, <1>2 DEF TypeOK, Filas
    <2>2. tarea[o][n] = "no" /\ n # 0
      <3>1. EnvioEnOrden(o, n) /\ 0 \notin Envios
        BY <1>2 DEF Inductivo, EnviosEnOrden, Envios
      <3>. QED  BY <1>2, <1>3, <3>1 DEF EnvioEnOrden
    <2>3. FilaVista(o)' = "enviada"
      BY <1>2, <2>1 DEF FilaVista, Abierta
    <2>4. ~PlazoVencido(o)'
      BY <1>1, <1>2, <2>1, PlazosAssumption DEF PlazoVencido, TypeOK
    <2>5. HiloVisto(o)' = "vuelo"
      BY <1>2, <2>1, <2>2 DEF HiloVisto, PuedeEfecto
    <2>6. HiloVisto(o) \in {"no", "fin"}
      BY <1>2, VistaBien
    <2>7. Despacho(o)!Marcar
      BY <1>2, <2>3, <2>4, <2>5, <2>6 DEF Despacho!Marcar, Despacho!Quieto
    <2>. QED  BY <1>5, <2>7 DEF Despacho!Next
  <1>. QED  BY <1>4, <1>5

(* A thread and its task show as they are for the latest dispatch of their *)
(* order, and not at all for another.                                      *)
LEMMA HiloDespacho ==
  ASSUME Inductivo, NEW p \in Ops, NEW o \in Ops, NEW m \in Envios, PasoHilo(o, m)
  PROVE  [Despacho(p)!Next]_(Despacho(p)!vars)
  <1>. DEFINE n == fila[p].envio
  <1>1. /\ TypeOK /\ EnvioEnOrden(o, m) /\ 0 \notin Envios /\ (~Abierta(o) => ~PuedeEfecto(o, m))
        /\ n = 0 \/ n \in Envios
        /\ HiloVisto(p) = "vuelo" => FilaVista(p) = "enviada" /\ ~PlazoVencido(p)
    BY VistaBien DEF Inductivo, EnviosEnOrden, CerradaSinVuelo, Envios
  <1>2. reloj' = reloj /\ fila' = fila
    BY DEF PasoHilo, HiloEmpieza, HiloEnvia, HiloMuere, HiloLlega, TareaTermina
  <1>3. /\ FilaVista(p)' = FilaVista(p) /\ n' = n
        /\ PlazoVencido(p)' <=> PlazoVencido(p)
    BY <1>2 DEF FilaVista, Abierta, PlazoVencido
  <1>4. \A q \in Ops, k \in Envios :
          <<q, k>> # <<o, m>> => hilo'[q][k] = hilo[q][k] /\ tarea'[q][k] = tarea[q][k]
    BY <1>1 DEF PasoHilo, HiloEmpieza, HiloEnvia, HiloMuere, HiloLlega, TareaTermina, TypeOK
  <1>5. /\ hilo[o][m] \in Hilos /\ tarea[o][m] \in {"no", "corre", "fin"} /\ reloj \in Nat
    BY <1>1 DEF TypeOK
  <1>. HIDE DEF n
  <1>6. CASE ~(p = o /\ n = m)
    <2>1. HiloVisto(p)' = HiloVisto(p)
      <3>1. CASE n = 0
        BY <1>3, <3>1 DEF HiloVisto, n
      <3>2. CASE n \in Envios
        <4>1. hilo'[p][n] = hilo[p][n] /\ tarea'[p][n] = tarea[p][n]
          BY <1>4, <1>6, <3>2
        <4>. QED  BY <1>2, <1>3, <4>1 DEF HiloVisto, PuedeEfecto, n
      <3>. QED  BY <1>1, <3>1, <3>2
    <2>. QED  BY <1>3, <2>1 DEF Despacho!vars
  <1>7. CASE p = o /\ n = m
    <2>. DEFINE Visto(t, puede) == IF t # "no" THEN t ELSE IF puede THEN "vuelo" ELSE "muerto"
    <2>1. /\ HiloVisto(o) = Visto(tarea[o][m], PuedeEfecto(o, m))
          /\ HiloVisto(o)' = Visto(tarea'[o][m], PuedeEfecto(o, m)')
      BY <1>1, <1>3, <1>7 DEF HiloVisto, n
    <2>2. CASE HiloEmpieza(o, m) \/ HiloEnvia(o, m) \/ HiloMuere(o, m)
      <3>1. tarea' = tarea
        BY <2>2 DEF HiloEmpieza, HiloEnvia, HiloMuere
      <3>2. PuedeEfecto(o, m)' => PuedeEfecto(o, m)
        <4>1. \E e \in {"verifica", "post", "muerto"} : hilo' = [hilo EXCEPT ![o][m].etapa = e]
                \/ \E f : hilo' = [hilo EXCEPT ![o][m].etapa = e, ![o][m].fin = f]
          BY <2>2 DEF HiloEmpieza, HiloEnvia, HiloMuere
        <4>2. hilo'[o][m].limite = hilo[o][m].limite
          <5>1. hilo \in [Ops -> [Envios -> Hilos]]
            BY <1>1 DEF TypeOK
          <5> QED
            BY <4>1, <5>1 DEF Hilos
        <4>3. CASE HiloEmpieza(o, m)
          <5>1. hilo[o][m].etapa = "cola"
                /\ hilo'[o][m].etapa = IF reloj < hilo[o][m].limite THEN "verifica" ELSE "muerto"
            BY <1>1, <4>3 DEF HiloEmpieza, TypeOK, Hilos
          <5>. QED  BY <1>2, <4>2, <5>1 DEF PuedeEfecto
        <4>4. CASE HiloEnvia(o, m)
          BY <4>4 DEF HiloEnvia, PuedeEfecto
        <4>5. CASE HiloMuere(o, m)
          <5>1. hilo'[o][m].etapa = "muerto"
            BY <1>1, <4>5 DEF HiloMuere, TypeOK, Hilos
          <5>. QED  BY <5>1 DEF PuedeEfecto
        <4>. QED  BY <2>2, <4>3, <4>4, <4>5
      <3>3. HiloVisto(o)' = HiloVisto(o) \/ (HiloVisto(o) = "vuelo" /\ HiloVisto(o)' = "muerto")
        BY <2>1, <3>1, <3>2
      <3>4. CASE HiloVisto(o)' = HiloVisto(o)
        BY <1>3, <1>7, <3>4 DEF Despacho!vars
      <3>5. CASE HiloVisto(o) = "vuelo" /\ HiloVisto(o)' = "muerto"
        BY <1>3, <1>7, <3>5 DEF Despacho!Next, Despacho!Morir
      <3>. QED  BY <3>3, <3>4, <3>5
    <2>3. CASE HiloLlega(o, m)
      <3>1. hilo[o][m].etapa = "post" /\ tarea'[o][m] = "corre" /\ tarea[o][m] = "no"
        BY <1>1, <2>3 DEF HiloLlega, TypeOK, EnvioEnOrden
      <3>2. HiloVisto(o) = "vuelo" /\ HiloVisto(o)' = "corre"
        BY <2>1, <3>1 DEF PuedeEfecto
      <3>. QED  BY <1>1, <1>3, <1>7, <3>2 DEF Despacho!Next, Despacho!Empezar
    <2>4. CASE TareaTermina(o, m)
      <3>1. tarea[o][m] = "corre" /\ tarea'[o][m] = "fin"
        BY <1>1, <2>4 DEF TareaTermina, TypeOK
      <3>2. HiloVisto(o) = "corre" /\ HiloVisto(o)' = "fin"
        BY <2>1, <3>1
      <3>. QED  BY <1>3, <1>7, <3>2 DEF Despacho!Next, Despacho!Acabar
    <2>. QED  BY <2>2, <2>3, <2>4 DEF PasoHilo
  <1>. QED  BY <1>6, <1>7

(* For any number of orders, workers and dispatches, each order sees       *)
(* DespachoDeOrden: which is what the models of the life of an order take  *)
(* from the lease protocol.                                                *)
THEOREM DespachosEnOrdenSiempre == Spec => DespachosEnOrden
  <1>. DEFINE Paso == \A o \in Ops : [Despacho(o)!Next]_(Despacho(o)!vars)
  <1>1. Init => \A o \in Ops : Despacho(o)!Init
    <2>. SUFFICES ASSUME Init, NEW o \in Ops PROVE Despacho(o)!Init
      OBVIOUS
    <2>1. fila[o].estado = "pendiente" /\ fila[o].fase = "preparacion" /\ fila[o].envio = 0
      BY DEF Init
    <2>2. FilaVista(o) = "lista" /\ HiloVisto(o) = "no"
      BY <2>1 DEF FilaVista, HiloVisto, Abierta, ABIERTOS
    <2>. QED  BY <2>2 DEF Despacho!Init
  <1>2. Inductivo /\ [Next]_vars => Paso
    <2>. SUFFICES ASSUME Inductivo, [Next]_vars, NEW p \in Ops
                  PROVE  [Despacho(p)!Next]_(Despacho(p)!vars)
      OBVIOUS
    <2>1. CASE Avanza
      BY <2>1, AvanzaDespacho
    <2>2. CASE \E w \in Trabajadores, o \in Ops : Despachar(w, o)
      BY <2>2, DespacharDespacho
    <2>3. CASE \E o \in Ops, n \in Envios : PasoHilo(o, n)
      BY <2>3, HiloDespacho
    <2>4. CASE \/ UNCHANGED vars
               \/ \E o \in Ops : Cancelar(o)
               \/ \E w \in Trabajadores : Caida(w)
               \/ \E w \in Trabajadores, o \in Ops : Administra(w, o)
      BY <2>4, AdministraDespacho
    <2>. QED  BY <2>1, <2>2, <2>3, <2>4 DEF Next, PasoTrabajador, Administra
  <1>3. Inductivo /\ [Next]_vars => [Paso]_vars
    BY <1>2
  <1>. QED  BY <1>1, <1>3, InductivoSiempre, PTL DEF Spec, DespachosEnOrden
============================================================================
