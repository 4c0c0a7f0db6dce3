---------------------------- MODULE Ensayo_proofs ----------------------------
(***************************************************************************)
(* What holds of a trial, its builder and its cleanup for any number of    *)
(* resources, jobs and generations.                                        *)
(***************************************************************************)
EXTENDS CierreEnsayo, TLAPS

LEMMA AcabadoEsTrabajo ==
  ASSUME casa \in Casas, NEW n \in Obras, NEW e \in {"no", "succeeded", "failed", "cancelled"}
  PROVE  Acabado(n, e) \in Trabajos
  <1>1. casa.trabajo[n] \in Trabajos /\ 0 \in Gens
    BY CotasAssumption DEF Casas, Gens
  <1>. QED  BY <1>1 DEF Acabado, Trabajos

LEMMA Parados ==
  ASSUME TypeOKCasa
  PROVE  /\ TrabajosParados \in [Obras -> Trabajos]
         /\ ProcesosParados \in [Obras -> {"no", "nace", "corre"}]
  <1>1. casa \in Casas /\ casa.trabajo \in [Obras -> Trabajos]
    BY DEF TypeOKCasa, Casas
  <1>2. \A n \in Obras : Acabado(n, "cancelled") \in Trabajos
    BY <1>1, AcabadoEsTrabajo
  <1>. QED  BY <1>1, <1>2 DEF TypeOKCasa, TrabajosParados, ProcesosParados

LEMMA AdmitirTipos ==
  ASSUME TypeOKCasa, NEW p \in Peticiones, Admitir(p)
  PROVE  TypeOKCasa'
  <1>. DEFINE releva == p.gen > casa.gen /\ p.que # "cierre"
              jobs == IF releva THEN TrabajosParados ELSE casa.trabajo
              nueva == ~YaTratada(p)
              t == [que |-> p.que, estado |-> "accepted", gen |-> p.gen, pid |-> FALSE]
              trab == IF nueva /\ p.que \in TiposObra THEN [jobs EXCEPT ![p.n] = t] ELSE jobs
              cerr == casa.cerrado \/ p.que = "cierre"
              cie == IF nueva /\ p.que = "cierre" THEN "accepted" ELSE casa.cierre
              lim == IF nueva /\ p.que = "limpieza" THEN "accepted" ELSE casa.limpieza
  <1>1. casa' = [gen |-> p.gen, cerrado |-> cerr, cierre |-> cie, limpieza |-> lim, trabajo |-> trab]
    BY DEF Admitir
  <1>2. jobs \in [Obras -> Trabajos]
    BY Parados DEF TypeOKCasa, Casas
  <1>3. p.que \in TiposObra => t \in Trabajos
    BY DEF Trabajos, Peticiones
  <1>. HIDE DEF jobs, t, releva, nueva
  <1>4. trab \in [Obras -> Trabajos]
    BY <1>2, <1>3
  <1>5. /\ cerr \in BOOLEAN /\ cie \in {"no", "accepted", "cancelled"}
        /\ lim \in {"no", "accepted", "succeeded"} /\ p.gen \in Gens
    BY DEF TypeOKCasa, Casas, Peticiones
  <1>. HIDE DEF trab, cerr, cie, lim
  <1>6. casa' \in Casas
    BY <1>1, <1>4, <1>5 DEF Casas
  <1>7. /\ proceso' \in [Obras -> {"no", "nace", "corre"}]
        /\ red' \in SUBSET Peticiones /\ recibidas' \in SUBSET Peticiones /\ disco' = disco
    BY Parados DEF Admitir, TypeOKCasa
  <1>. QED  BY <1>6, <1>7 DEF TypeOKCasa

LEMMA DetenerTipos ==
  ASSUME TypeOKCasa, NEW p \in Peticiones, Detener(p)
  PROVE  TypeOKCasa'
  <1>. DEFINE cie == IF p.que = "cierre" \/ casa.cierre = "accepted" THEN "cancelled" ELSE casa.cierre
              lim == IF p.que = "limpieza" THEN "succeeded" ELSE casa.limpieza
              b == disco.obra /\ p.que # "limpieza"
  <1>1. /\ casa' = [casa EXCEPT !.trabajo = TrabajosParados, !.cierre = cie, !.limpieza = lim]
        /\ disco' = [disco EXCEPT !.obra = b]
    BY DEF Detener
  <1>2. cie \in {"no", "accepted", "cancelled"} /\ lim \in {"no", "accepted", "succeeded"}
        /\ b \in BOOLEAN
    BY DEF TypeOKCasa, Casas
  <1>. HIDE DEF cie, lim, b
  <1>3. casa' \in Casas
    BY <1>1, <1>2, Parados DEF TypeOKCasa, Casas
  <1>4. disco' \in [obra : BOOLEAN, artefacto : BOOLEAN]
    BY <1>1, <1>2 DEF TypeOKCasa
  <1>5. /\ proceso' \in [Obras -> {"no", "nace", "corre"}]
        /\ red' \in SUBSET Peticiones /\ recibidas' \in SUBSET Peticiones
    BY Parados DEF Detener, TypeOKCasa
  <1>. QED  BY <1>3, <1>4, <1>5 DEF TypeOKCasa

LEMMA ConstruirTipos ==
  ASSUME TypeOKCasa, NEW n \in Obras,
         Empezar(n) \/ Producir(n) \/ Morir(n) \/ \E e \in {"succeeded", "failed"} : Terminar(n, e)
  PROVE  TypeOKCasa'
  <1>1. casa \in Casas /\ casa.trabajo \in [Obras -> Trabajos]
    BY DEF TypeOKCasa, Casas
  <1>2. \A e \in {"no", "succeeded", "failed", "cancelled"} : Acabado(n, e) \in Trabajos
    BY <1>1, AcabadoEsTrabajo
  <1>3. CASE Empezar(n)
    <2>. DEFINE b == disco.obra \/ ~Relevado(n)
    <2>1. casa' \in Casas
      <3>1. CASE Relevado(n)
        BY <1>1, <1>2, <1>3, <3>1 DEF Empezar, Casas
      <3>2. CASE ~Relevado(n)
        <4>. DEFINE t == [casa.trabajo[n] EXCEPT !.estado = "running"]
        <4>1. t \in Trabajos
          BY <1>1 DEF Trabajos
        <4>2. casa' = [casa EXCEPT !.trabajo = [casa.trabajo EXCEPT ![n] = t]]
          BY <1>3, <3>2 DEF Empezar
        <4>. HIDE DEF t
        <4>. QED  BY <1>1, <4>1, <4>2 DEF Casas
      <3>. QED  BY <3>1, <3>2
    <2>2. disco' = [disco EXCEPT !.obra = b] /\ b \in BOOLEAN
      BY <1>3 DEF Empezar
    <2>. HIDE DEF b
    <2>3. disco' \in [obra : BOOLEAN, artefacto : BOOLEAN]
      BY <2>2 DEF TypeOKCasa
    <2>. QED  BY <1>3, <2>1, <2>3 DEF Empezar, TypeOKCasa
  <1>4. CASE Producir(n)
    BY <1>4 DEF Producir, TypeOKCasa
  <1>5. CASE Morir(n)
    BY <1>5 DEF Morir, TypeOKCasa
  <1>6. CASE \E e \in {"succeeded", "failed"} : Terminar(n, e)
    <2>1. PICK e \in {"succeeded", "failed"} : Terminar(n, e)
      BY <1>6
    <2>. DEFINE f == IF Relevado(n) THEN "cancelled" ELSE e
    <2>2. casa' = [casa EXCEPT !.trabajo = [casa.trabajo EXCEPT ![n] = Acabado(n, f)]]
      BY <2>1 DEF Terminar
    <2>3. f \in {"no", "succeeded", "failed", "cancelled"}
      OBVIOUS
    <2>. HIDE DEF f
    <2>4. casa' \in Casas
      BY <1>1, <1>2, <2>2, <2>3 DEF Casas
    <2>. QED  BY <2>1, <2>4 DEF Terminar, TypeOKCasa
  <1>. QED  BY <1>3, <1>4, <1>5, <1>6

LEMMA CasaTipos ==
  ASSUME TypeOKCasa, PasoCasa
  PROVE  TypeOKCasa'
  <1>1. CASE Servir
    <2>1. PICK p \in red \cup recibidas :
            Admitir(p) \/ Detener(p) \/ SePierde(p) \/ \E anota \in BOOLEAN : Lanzar(p, anota)
      BY <1>1 DEF Servir
    <2>2. p \in Peticiones
      BY DEF TypeOKCasa
    <2>3. CASE SePierde(p)
      BY <2>3 DEF SePierde, TypeOKCasa
    <2>4. CASE \E anota \in BOOLEAN : Lanzar(p, anota)
      <3>1. PICK anota \in BOOLEAN : Lanzar(p, anota)
        BY <2>4
      <3>. DEFINE t == [casa.trabajo[p.n] EXCEPT !.pid = anota]
      <3>2. p.n \in Obras => t \in Trabajos
        BY DEF TypeOKCasa, Casas, Trabajos
      <3>3. Lanzable(p) => casa' = [casa EXCEPT !.trabajo = [casa.trabajo EXCEPT ![p.n] = t]]
        BY <3>1 DEF Lanzar
      <3>. HIDE DEF t
      <3>4. casa' \in Casas
        BY <3>1, <3>2, <3>3 DEF Lanzar, TypeOKCasa, Casas
      <3>. QED  BY <3>1, <3>4 DEF Lanzar, TypeOKCasa
    <2>. QED  BY <2>1, <2>2, <2>3, <2>4, AdmitirTipos, DetenerTipos
  <1>2. CASE Construir
    BY <1>2, ConstruirTipos DEF Construir
  <1>. QED  BY <1>1, <1>2 DEF PasoCasa

(* A process that builds is a job the state file knows to run; a cancel or *)
(* a cleanup under way was accepted on a closed trial, and once either is  *)
(* done nothing builds.                                                    *)
CasaCierta ==
  /\ \A n \in Obras : proceso[n] = "corre" => casa.trabajo[n].estado = "running"
  /\ \A p \in recibidas : p.que \notin TiposObra => casa.cerrado
  /\ casa.cierre = "cancelled" => casa.cerrado /\ \A n \in Obras : proceso[n] # "corre"
  /\ casa.limpieza = "succeeded" =>
       casa.cerrado /\ ~disco.obra /\ \A n \in Obras : proceso[n] # "corre"

LEMMA NadieCorreTrasParar ==
  ASSUME TypeOKCasa, CasaCierta, Parable
  PROVE  \A n \in Obras : ProcesosParados[n] # "corre"
  BY DEF TypeOKCasa, Casas, CasaCierta, Parable, Activos, ProcesosParados, Trabajos

LEMMA AdmitirCierta ==
  ASSUME TypeOKCasa, CasaCierta, NEW p \in Peticiones, Admitir(p)
  PROVE  CasaCierta'
  <1>. DEFINE releva == p.gen > casa.gen /\ p.que # "cierre"
              jobs == IF releva THEN TrabajosParados ELSE casa.trabajo
              nueva == ~YaTratada(p)
              t == [que |-> p.que, estado |-> "accepted", gen |-> p.gen, pid |-> FALSE]
  <1>1. /\ casa'.trabajo = IF nueva /\ p.que \in TiposObra THEN [jobs EXCEPT ![p.n] = t] ELSE jobs
        /\ casa'.cerrado = (casa.cerrado \/ p.que = "cierre")
        /\ casa'.cierre = IF nueva /\ p.que = "cierre" THEN "accepted" ELSE casa.cierre
        /\ casa'.limpieza = IF nueva /\ p.que = "limpieza" THEN "accepted" ELSE casa.limpieza
        /\ proceso' = IF releva THEN ProcesosParados ELSE proceso
        /\ recibidas' = IF nueva THEN recibidas \cup {p} ELSE recibidas
        /\ disco' = disco /\ Admisible(p)
    BY DEF Admitir
  <1>2. releva => Parable
    BY <1>1 DEF Admisible
  <1>3. nueva /\ p.que \in TiposObra => casa.trabajo[p.n].estado = "no"
    BY DEF YaTratada, TiposObra
  <1>4. jobs \in [Obras -> Trabajos]
    BY Parados DEF TypeOKCasa, Casas
  <1>5. releva => \A n \in Obras : proceso'[n] # "corre"
    BY <1>1, <1>2, NadieCorreTrasParar
  <1>6. ~releva => proceso' = proceso /\ jobs = casa.trabajo
    BY <1>1
  <1>7. p.que \notin TiposObra => casa'.cerrado
    BY <1>1 DEF Admisible, Peticiones, Tipos
  <1>. HIDE DEF releva, jobs, nueva, t
  <1>8. \A n \in Obras : proceso'[n] = "corre" => casa'.trabajo[n].estado = "running"
    BY <1>1, <1>3, <1>4, <1>5, <1>6 DEF CasaCierta
  <1>9. \A n \in Obras : proceso'[n] = "corre" => proceso[n] = "corre"
    BY <1>5, <1>6
  <1>. QED  BY <1>1, <1>7, <1>8, <1>9 DEF CasaCierta

LEMMA ConstruirCierta ==
  ASSUME TypeOKCasa, CasaCierta, NEW n \in Obras,
         Empezar(n) \/ Producir(n) \/ Morir(n) \/ \E e \in {"succeeded", "failed"} : Terminar(n, e)
  PROVE  CasaCierta'
  <1>1. casa \in Casas /\ casa.trabajo \in [Obras -> Trabajos] /\ disco \in [obra : BOOLEAN, artefacto : BOOLEAN]
        /\ proceso \in [Obras -> {"no", "nace", "corre"}]
    BY DEF TypeOKCasa, Casas
  <1>2. \A e : Acabado(n, e).estado = e
    BY <1>1 DEF Acabado, Trabajos
  <1>3. CASE Empezar(n)
    <2>1. CASE Relevado(n)
      BY <1>1, <1>3, <2>1 DEF Empezar, CasaCierta, Casas
    <2>2. CASE ~Relevado(n)
      BY <1>1, <1>3, <2>2 DEF Empezar, CasaCierta, Casas, Trabajos, Relevado
    <2>. QED  BY <2>1, <2>2
  <1>4. CASE Producir(n)
    BY <1>1, <1>4 DEF Producir, CasaCierta
  <1>5. CASE Morir(n)
    BY <1>1, <1>5 DEF Morir, CasaCierta
  <1>6. CASE \E e \in {"succeeded", "failed"} : Terminar(n, e)
    BY <1>1, <1>6 DEF Terminar, CasaCierta, Casas
  <1>. QED  BY <1>3, <1>4, <1>5, <1>6

LEMMA CasaSigueCierta ==
  ASSUME TypeOKCasa, CasaCierta, PasoCasa
  PROVE  CasaCierta'
  <1>1. CASE Servir
    <2>1. PICK p \in red \cup recibidas :
            Admitir(p) \/ Detener(p) \/ SePierde(p) \/ \E anota \in BOOLEAN : Lanzar(p, anota)
      BY <1>1 DEF Servir
    <2>2. p \in Peticiones
      BY DEF TypeOKCasa
    <2>3. CASE SePierde(p)
      BY <2>3 DEF SePierde, CasaCierta
    <2>4. CASE \E anota \in BOOLEAN : Lanzar(p, anota)
      BY <2>4 DEF Lanzar, Lanzable, CasaCierta, TypeOKCasa, Casas, Trabajos
    <2>5. CASE Detener(p)
      <3>1. /\ casa'.cerrado = casa.cerrado /\ recibidas' \in SUBSET recibidas
            /\ casa.cerrado
            /\ casa'.limpieza = IF p.que = "limpieza" THEN "succeeded" ELSE casa.limpieza
            /\ disco'.obra = (disco.obra /\ p.que # "limpieza")
        BY <2>5 DEF Detener, TypeOKCasa, Casas, CasaCierta
      <3>2. \A n \in Obras : proceso'[n] # "corre"
        BY <2>5, NadieCorreTrasParar DEF Detener
      <3>. QED  BY <3>1, <3>2 DEF CasaCierta
    <2>. QED  BY <2>1, <2>2, <2>3, <2>4, <2>5, AdmitirCierta
  <1>2. CASE Construir
    BY <1>2, ConstruirCierta DEF Construir
  <1>. QED  BY <1>1, <1>2 DEF PasoCasa

(* What the builder has closed stays closed.                               *)
LEMMA CierreFirme ==
  ASSUME TypeOKCasa, PasoCasa, casa.cierre = "cancelled"
  PROVE  casa'.cierre = "cancelled"
  <1>1. CASE Servir
    <2>1. PICK p \in red \cup recibidas :
            Admitir(p) \/ Detener(p) \/ SePierde(p) \/ \E anota \in BOOLEAN : Lanzar(p, anota)
      BY <1>1 DEF Servir
    <2>2. CASE Admitir(p)
      BY <2>2 DEF Admitir, YaTratada
    <2>3. CASE Detener(p)
      BY <2>3 DEF Detener, TypeOKCasa, Casas
    <2>. QED  BY <2>1, <2>2, <2>3 DEF SePierde, Lanzar, TypeOKCasa, Casas
  <1>2. CASE Construir
    BY <1>2 DEF Construir, Empezar, Producir, Morir, Terminar, TypeOKCasa, Casas
  <1>. QED  BY <1>1, <1>2 DEF PasoCasa

(* What the builder has freed stays free, and grows no artifact.           *)
LEMMA LimpiezaFirme ==
  ASSUME TypeOKCasa, CasaCierta, PasoCasa, casa.limpieza = "succeeded"
  PROVE  casa'.limpieza = "succeeded" /\ disco'.artefacto = disco.artefacto
  <1>1. CASE Servir
    <2>1. PICK p \in red \cup recibidas :
            Admitir(p) \/ Detener(p) \/ SePierde(p) \/ \E anota \in BOOLEAN : Lanzar(p, anota)
      BY <1>1 DEF Servir
    <2>2. CASE Admitir(p)
      BY <2>2 DEF Admitir, YaTratada
    <2>3. CASE Detener(p)
      BY <2>3 DEF Detener, TypeOKCasa, Casas
    <2>. QED  BY <2>1, <2>2, <2>3 DEF SePierde, Lanzar, TypeOKCasa, Casas
  <1>2. CASE Construir
    <2>1. PICK n \in Obras :
            Empezar(n) \/ Producir(n) \/ Morir(n) \/ \E e \in {"succeeded", "failed"} : Terminar(n, e)
      BY <1>2 DEF Construir
    <2>2. proceso[n] # "corre"
      BY DEF CasaCierta
    <2>3. CASE Empezar(n)
      BY <2>3 DEF Empezar, TypeOKCasa, Casas
    <2>. QED  BY <2>1, <2>2, <2>3 DEF Producir, Morir, Terminar
  <1>. QED  BY <1>1, <1>2 DEF PasoCasa
----------------------------------------------------------------------------
(* While a trial is open it can still be closed under a new generation; a  *)
(* trial that does not exist is not closed.                                *)
GenAcotada ==
  /\ ~ensayo.cancelada => ensayo.gen < MaxGen
  /\ ensayo.estado = "no" => ~ensayo.cancelada

LEMMA EstadosConocidos ==
  /\ Estados = {"no", "pendiente", "resolviendo", "esperando_confirmacion", "construyendo",
                "ensayando", "lista_para_comprobar", "comprobada", "incierta", "fallida",
                "descartada", "vencida"}
  BY DEF Estados, TRANSICIONES

LEMMA NuevasConTipo ==
  /\ \A t \in TiposObra, n \in 0..MaxObras, v \in BOOLEAN : NuevaObra(t, n, v) \in OpsObra
  /\ \A t \in {"crear", "bootstrap"} : NuevaOp(t) \in OpsRecurso
  /\ SinTurno \in Turnos
  <1>1. 0 \in Gens
    BY CotasAssumption DEF Gens
  <1>. QED  BY <1>1 DEF NuevaObra, OpsObra, NuevaOp, OpsRecurso, SinTurno, Turnos, EstadosOp

LEMMA RecursoConTipo ==
  ASSUME NEW f \in Recursos
  PROVE  /\ [f EXCEPT !.identidad = TRUE] \in Recursos
         /\ [f EXCEPT !.identidad = TRUE].identidad
         /\ [f EXCEPT !.identidad = TRUE].ledger = f.ledger
         /\ [f EXCEPT !.listo = TRUE] \in Recursos
         /\ \A e \in {"reservado", "materializado"} : [f EXCEPT !.ledger = e] \in Recursos
         /\ [f EXCEPT !.ausente = TRUE, !.ledger = "liberado"] \in Recursos
  <1>1. PICK b \in BOOLEAN : b
    OBVIOUS
  <1>2. /\ [f EXCEPT !.identidad = b] \in Recursos
        /\ [f EXCEPT !.identidad = b].identidad = b
        /\ [f EXCEPT !.identidad = b].ledger = f.ledger
        /\ [f EXCEPT !.listo = b] \in Recursos
        /\ \A e \in {"reservado", "materializado"} : [f EXCEPT !.ledger = e] \in Recursos
        /\ [f EXCEPT !.ausente = b, !.ledger = "liberado"] \in Recursos
    BY <1>1 DEF Recursos
  <1>. QED  BY <1>1, <1>2

LEMMA CerradoConTipo ==
  ASSUME ensayo \in Ensayos, ensayo.gen < MaxGen, NEW e \in Estados
  PROVE  /\ Cerrado(e) \in Ensayos
         /\ Cerrado(e).estado = e /\ Cerrado(e).cancelada /\ Cerrado(e).espacio = ensayo.espacio
         /\ Cerrado(e).artefacto = ensayo.artefacto /\ Cerrado(e).limpieza = "pendiente"
  <1>1. ensayo.gen + 1 \in Gens
    BY CotasAssumption DEF Ensayos, Gens
  <1>. QED  BY <1>1 DEF Cerrado, Ensayos

LEMMA EncolarTipos ==
  ASSUME obra \in OpsObra, NEW t \in TiposObra, NEW v \in BOOLEAN, Encolar(t, v)
  PROVE  obra' \in OpsObra
  <1>1. obra.n + 1 \in 0..MaxObras
    BY CotasAssumption DEF Encolar, OpsObra
  <1>. QED  BY <1>1, NuevasConTipo DEF Encolar

LEMMA DecidirTipos ==
  ASSUME TypeOK, GenAcotada, Decidir
  PROVE  TypeOKEnsayo' /\ GenAcotada'
  <1>. USE DEF TypeOK, TypeOKEnsayo
  <1>0. /\ ensayo \in Ensayos /\ obra \in OpsObra /\ rec \in [R -> Recursos]
        /\ 1 \in 0..MaxObras /\ 1 \in Gens /\ MaxGen \in Nat /\ MaxGen >= 2
    BY CotasAssumption DEF Gens
  <1>1. ASSUME NEW plazo \in {"sin", "corre"}, Iniciar(plazo)
        PROVE  TypeOKEnsayo' /\ GenAcotada'
    <2>1. ensayo' \in Ensayos /\ ensayo'.gen = 1 /\ ensayo'.estado = "pendiente"
      BY <1>0, <1>1, EstadosConocidos DEF Iniciar, Ensayos
    <2>2. obra' \in OpsObra
      BY <1>0, <1>1, NuevasConTipo DEF Iniciar, TiposObra
    <2>3. \A r \in R : [rec[r] EXCEPT !.ledger = "reservado"] \in Recursos
      BY <1>0, RecursoConTipo
    <2>4. rec' \in [R -> Recursos]
      BY <1>1, <2>3 DEF Iniciar
    <2>5. GenAcotada'
      BY <1>0, <2>1 DEF GenAcotada
    <2>6. UNCHANGED <<fallo, op, turno, ct, hilo>>
      BY <1>1 DEF Iniciar
    <2>7. /\ op' \in [R -> OpsRecurso] /\ turno' \in Turnos /\ fallo' \in TiposObra \cup {"no"}
          /\ ct' \in [R -> {"ausente", "detenido", "corriendo"}]
          /\ hilo' \in [R -> {"no", "vuelo", "corre", "exito", "fallo", "perdido"}]
      BY <2>6
    <2>. QED  BY <2>1, <2>2, <2>4, <2>5, <2>7
  <1>2. CASE ConfirmarEntradas
    <2>1. obra' \in OpsObra
      BY <1>0, <1>2, EncolarTipos DEF ConfirmarEntradas, TiposObra
    <2>2. ensayo' \in Ensayos /\ GenAcotada'
      BY <1>0, <1>2, EstadosConocidos DEF ConfirmarEntradas, Ensayos, GenAcotada
    <2>. QED  BY <1>2, <2>1, <2>2 DEF ConfirmarEntradas
  <1>3. CASE Descartar
    <2>1. ensayo' = Cerrado("descartada") /\ ensayo.gen < MaxGen /\ "descartada" \in Estados
      BY <1>3, EstadosConocidos DEF Descartar, GenAcotada, Vigente
    <2>2. ensayo' \in Ensayos /\ GenAcotada'
      BY <1>0, <2>1, CerradoConTipo DEF GenAcotada
    <2>. QED  BY <1>3, <2>2 DEF Descartar
  <1>4. CASE Reintentar
    <2>1. Vigente /\ ensayo.gen + 1 < MaxGen
      BY <1>4 DEF Reintentar
    <2>2. CASE ensayo' = [ensayo EXCEPT !.gen = @ + 1] /\ UNCHANGED obra
      <3>1. ensayo.gen + 1 \in Gens
        BY <1>0, <2>1 DEF Ensayos, Gens
      <3>2. ensayo' \in Ensayos /\ ensayo'.gen = ensayo.gen + 1 /\ ensayo'.estado # "no"
        <4>. DEFINE g == ensayo.gen + 1
        <4>1. g \in Gens /\ ensayo' = [ensayo EXCEPT !.gen = g] /\ ensayo.estado # "no"
          BY <2>1, <2>2, <3>1 DEF Vigente
        <4>. HIDE DEF g
        <4>2. ensayo' \in Ensayos /\ ensayo'.gen = g /\ ensayo'.estado # "no"
          BY <1>0, <4>1 DEF Ensayos
        <4>. QED  BY <4>2 DEF g
      <3>3. GenAcotada'
        BY <2>1, <3>2 DEF GenAcotada
      <3>. QED  BY <1>4, <2>2, <3>2, <3>3 DEF Reintentar
    <2>3. CASE /\ fallo # "no" /\ Encolar(fallo, FALSE)
               /\ ensayo' = [ensayo EXCEPT !.gen = @ + 1, !.estado = Reanuda[fallo]]
      <3>1. Reanuda[fallo] \in {"resolviendo", "construyendo"}
        BY <2>3 DEF Reanuda, TiposObra
      <3>2. ensayo' \in Ensayos /\ GenAcotada'
        <4>. DEFINE g == ensayo.gen + 1
                    e == Reanuda[fallo]
        <4>1. g \in Gens /\ g < MaxGen
          BY <1>0, <2>1 DEF Ensayos, Gens
        <4>2. e \in Estados /\ e # "no"
          BY <3>1, EstadosConocidos
        <4>3. ensayo' = [ensayo EXCEPT !.gen = g, !.estado = e]
          BY <2>3
        <4>. HIDE DEF g, e
        <4>4. ensayo' \in Ensayos /\ ensayo'.gen = g /\ ensayo'.estado = e
          BY <1>0, <4>1, <4>2, <4>3 DEF Ensayos
        <4>. QED  BY <4>1, <4>2, <4>4 DEF GenAcotada
      <3>3. obra' \in OpsObra
        BY <1>0, <2>3, EncolarTipos
      <3>. QED  BY <1>4, <3>2, <3>3 DEF Reintentar
    <2>. QED  BY <1>4, <2>2, <2>3 DEF Reintentar
  <1>5. CASE Comprobar
    <2>1. obra' \in OpsObra
      BY <1>0, <1>5, EncolarTipos DEF Comprobar, TiposObra
    <2>2. ensayo' \in Ensayos /\ GenAcotada'
      BY <1>0, <1>5, EstadosConocidos DEF Comprobar, Ensayos, GenAcotada
    <2>. QED  BY <1>5, <2>1, <2>2 DEF Comprobar
  <1>6. CASE Publicar
    <2>1. /\ ensayo' = [Cerrado("comprobada") EXCEPT !.publicada = TRUE]
          /\ ensayo.gen < MaxGen /\ "comprobada" \in Estados
      BY <1>6, EstadosConocidos DEF Publicar, GenAcotada, Vigente
    <2>2. Cerrado("comprobada") \in Ensayos /\ Cerrado("comprobada").estado = "comprobada"
          /\ Cerrado("comprobada").cancelada
      BY <1>0, <2>1, CerradoConTipo
    <2>3. ensayo' \in Ensayos /\ GenAcotada'
      BY <2>1, <2>2 DEF GenAcotada, Ensayos
    <2>. QED  BY <1>6, <2>3 DEF Publicar
  <1>7. CASE PasaPlazo
    BY <1>0, <1>7 DEF PasaPlazo, Ensayos, GenAcotada
  <1>8. CASE Vencer
    <2>1. ensayo' = Cerrado("vencida") /\ ensayo.gen < MaxGen /\ "vencida" \in Estados
      BY <1>8, EstadosConocidos DEF Vencer, GenAcotada
    <2>2. ensayo' \in Ensayos /\ GenAcotada'
      BY <1>0, <2>1, CerradoConTipo DEF GenAcotada
    <2>. QED  BY <1>8, <2>2 DEF Vencer
  <1>. QED  BY <1>1, <1>2, <1>3, <1>4, <1>5, <1>6, <1>7, <1>8 DEF Decidir

LEMMA TurnoConObs ==
  ASSUME turno \in Turnos, NEW p \in {"tomada", "marca", "envio", "respuesta", "visto", "post", "prepara"},
         NEW o \in {"nada", "propia", "ausente", "not_found", "accepted", "running", "succeeded",
                    "failed", "cancelled"}
  PROVE  [turno EXCEPT !.pc = p, !.obs = o] \in Turnos /\ [turno EXCEPT !.pc = p] \in Turnos
  BY DEF Turnos

LEMMA EstadoConTipo ==
  ASSUME ensayo \in Ensayos, NEW e \in Estados
  PROVE  /\ [ensayo EXCEPT !.estado = e] \in Ensayos
         /\ [ensayo EXCEPT !.estado = e].gen = ensayo.gen
         /\ [ensayo EXCEPT !.estado = e].cancelada = ensayo.cancelada
         /\ [ensayo EXCEPT !.estado = e].estado = e
  BY DEF Ensayos

LEMMA EstadosDelTrabajador ==
  ASSUME ensayo \in Ensayos
  PROVE  Resolviendo \in Estados /\ Dudoso \in Estados
  BY EstadosConocidos DEF Ensayos, Resolviendo, Dudoso

LEMMA EstadoOpConTipo ==
  ASSUME TypeOKEnsayo, NEW e \in EstadosOp
  PROVE  /\ [obra EXCEPT !.estado = e] \in OpsObra
         /\ \A r \in R : [op[r] EXCEPT !.estado = e] \in OpsRecurso
  <1>1. [obra EXCEPT !.estado = e] \in OpsObra
    BY DEF TypeOKEnsayo, OpsObra
  <1>2. \A r \in R : [op[r] EXCEPT !.estado = e] \in OpsRecurso
    BY DEF TypeOKEnsayo, OpsRecurso
  <1>. QED  BY <1>1, <1>2 DEF TypeOKEnsayo

LEMMA ObraLogradaTipos ==
  ASSUME TypeOK, GenAcotada, ObraLograda
  PROVE  TypeOKEnsayo' /\ GenAcotada'
  <1>. USE DEF TypeOK, TypeOKEnsayo
  <1>0. /\ ensayo \in Ensayos /\ obra \in OpsObra /\ rec \in [R -> Recursos] /\ ~ensayo.cancelada
        /\ turno' \in Turnos /\ fallo' = fallo /\ ct' = ct /\ hilo' = hilo
    BY NuevasConTipo DEF ObraLograda, Dueno
  <1>1. obra.n < MaxObras => obra.n + 1 \in 0..MaxObras
    BY CotasAssumption DEF OpsObra
  <1>2. [obra EXCEPT !.estado = "confirmada"] \in OpsObra
    BY EstadoOpConTipo DEF EstadosOp
  <1>3. CASE Resuelto
    <2>1. /\ ensayo' = [ensayo EXCEPT !.estado = "construyendo"]
             \/ ensayo' = [ensayo EXCEPT !.estado = "esperando_confirmacion"]
          /\ UNCHANGED <<op, rec>>
      BY <1>3 DEF Resuelto
    <2>2. ensayo' \in Ensayos /\ GenAcotada'
      BY <1>0, <2>1, EstadosConocidos DEF Ensayos, GenAcotada
    <2>3. obra' \in OpsObra
      <3>1. CASE ensayo.plazo = "sin"
        <4>1. obra.n < MaxObras /\ obra' = NuevaObra("construir", obra.n + 1, FALSE)
          BY <1>3, <3>1 DEF Resuelto
        <4>. QED  BY <1>1, <4>1, NuevasConTipo DEF TiposObra
      <3>2. CASE ensayo.plazo # "sin"
        BY <1>2, <1>3, <3>2 DEF Resuelto
      <3>. QED  BY <3>1, <3>2
    <2>. QED  BY <1>0, <2>1, <2>2, <2>3
  <1>4. CASE Construido
    <2>1. obra' \in OpsObra
      BY <1>1, <1>4, NuevasConTipo DEF Construido, TiposObra
    <2>2. ensayo' \in Ensayos /\ GenAcotada'
      BY <1>0, <1>4 DEF Construido, Ensayos, GenAcotada
    <2>. QED  BY <1>0, <1>4, <2>1, <2>2 DEF Construido
  <1>5. CASE Distribuido
    <2>1. CASE obra.valida
      BY <1>0, <1>2, <1>5, <2>1 DEF Distribuido, GenAcotada
    <2>2. CASE ~obra.valida
      <3>. DEFINE e == IF ensayo.estado \in {"incierta", "construyendo"} THEN "ensayando" ELSE ensayo.estado
      <3>1. e \in Estados /\ (e = "no" => ensayo.estado = "no")
        BY <1>0, EstadosConocidos DEF Ensayos
      <3>2. ensayo' = [ensayo EXCEPT !.estado = e]
        BY <1>5, <2>2 DEF Distribuido
      <3>. HIDE DEF e
      <3>3. ensayo' \in Ensayos /\ GenAcotada'
        BY <1>0, <3>1, <3>2, EstadoConTipo DEF GenAcotada
      <3>4. rec' \in [R -> Recursos]
        <4>1. \A r \in R : [rec[r] EXCEPT !.identidad = TRUE] \in Recursos
          BY <1>0, RecursoConTipo
        <4>. QED  BY <1>5, <2>2, <4>1 DEF Distribuido
      <3>5. op' \in [R -> OpsRecurso]
        BY <1>5, <2>2, NuevasConTipo DEF Distribuido
      <3>. QED  BY <1>0, <1>2, <1>5, <3>3, <3>4, <3>5 DEF Distribuido
    <2>. QED  BY <2>1, <2>2
  <1>. QED  BY <1>3, <1>4, <1>5 DEF ObraLograda

(* What the portal does to the builder is to send it a request.            *)
SoloPide == /\ UNCHANGED <<casa, proceso, disco, recibidas>>
            /\ red' \in SUBSET Peticiones

LEMMA ReclamarTipos ==
  ASSUME TypeOK, GenAcotada, Reclamar
  PROVE  TypeOKEnsayo' /\ GenAcotada'
  <1>1. \A x \in R \cup {"obra"} :
          [pc |-> "tomada", de |-> x, gen |-> ensayo.gen, obs |-> "nada"] \in Turnos
    BY DEF TypeOK, TypeOKEnsayo, Ensayos, Turnos
  <1>2. turno' \in Turnos
    BY <1>1 DEF Reclamar, Tomar
  <1>3. obra' \in OpsObra /\ op' \in [R -> OpsRecurso]
    <2>1. /\ obra' = [obra EXCEPT !.estado = "abierta"] \/ obra' = obra
          /\ op' = op \/ \E r \in R : op' = [op EXCEPT ![r] = [op[r] EXCEPT !.estado = "abierta"]]
      BY DEF Reclamar
    <2>2. "abierta" \in EstadosOp /\ TypeOKEnsayo
      BY DEF EstadosOp, TypeOK
    <2>3. obra' \in OpsObra
      BY <2>1, <2>2, EstadoOpConTipo DEF TypeOKEnsayo
    <2>4. op' \in [R -> OpsRecurso]
      <3>1. \A r \in R : [op[r] EXCEPT !.estado = "abierta"] \in OpsRecurso
        BY <2>2, EstadoOpConTipo
      <3>2. op \in [R -> OpsRecurso]
        BY <2>2 DEF TypeOKEnsayo
      <3>. QED  BY <2>1, <3>1, <3>2
    <2>. QED  BY <2>3, <2>4
  <1>. QED  BY <1>2, <1>3 DEF Reclamar, TypeOK, TypeOKEnsayo, GenAcotada

(* The worker runs, and time, for a trial that exists, whose jobs have a   *)
(* number.                                                                 *)
ObraNumerada ==
  IF ensayo.estado = "no"
  THEN turno.pc = "libre" /\ ensayo.plazo = "sin" /\ \A r \in R : ~op[r].reciente
  ELSE obra.n \in Obras

LEMMA PreguntasTipos ==
  ASSUME TypeOK, GenAcotada, ObraNumerada,
         MarcarObra \/ EnviarObra \/ PreguntarObra \/ ObraSigue \/ ObraDesconocida \/ ObraFallida
  PROVE  TypeOKEnsayo' /\ GenAcotada'
  <1>0. /\ ensayo \in Ensayos /\ obra \in OpsObra /\ turno \in Turnos /\ SinTurno \in Turnos
        /\ Resolviendo \in Estados /\ Dudoso \in Estados /\ "fallida" \in Estados
        /\ fallo \in TiposObra \cup {"no"} /\ obra.tipo \in TiposObra
    BY EstadosDelTrabajador, EstadosConocidos, NuevasConTipo
    DEF TypeOK, TypeOKEnsayo, EnviarObra, MarcarObra, PreguntarObra, ObraSigue, ObraDesconocida,
       ObraFallida,
        Dueno, OpsObra
  <1>1. \/ ensayo' = ensayo
        \/ ~ensayo.cancelada /\ \E e \in Estados : ensayo' = [ensayo EXCEPT !.estado = e]
    BY <1>0 DEF Dueno, EnviarObra, MarcarObra, PreguntarObra, ObraSigue, ObraDesconocida, ObraFallida
  <1>2. ensayo' \in Ensayos /\ GenAcotada'
    BY <1>0, <1>1, EstadoConTipo DEF GenAcotada
  <1>3. obra' \in OpsObra
    <2>1. CASE MarcarObra
      <3>1. PICK b \in BOOLEAN : b
        OBVIOUS
      <3>2. obra' = [obra EXCEPT !.enviada = b]
        BY <2>1, <3>1 DEF MarcarObra
      <3>. QED  BY <1>0, <3>2 DEF OpsObra
    <2>2. CASE ~MarcarObra
      BY <1>0, <2>2, EstadoOpConTipo
      DEF EnviarObra, PreguntarObra, ObraSigue, ObraDesconocida, ObraFallida, EstadosOp, TypeOK
    <2>. QED  BY <2>1, <2>2
  <1>4. turno' \in Turnos
    <2>1. CASE PreguntarObra
      <3>. DEFINE e == casa.trabajo[obra.n].estado
                  o == IF e = "no" THEN "not_found" ELSE e
      <3>1. obra.n \in Obras
        BY <2>1 DEF MarcarObra, PreguntarObra, ObraNumerada
      <3>2. e \in {"no", "accepted", "running", "succeeded", "failed", "cancelled"}
        BY <3>1 DEF TypeOK, TypeOKCasa, Casas, Trabajos
      <3>3. turno' = [turno EXCEPT !.pc = "respuesta", !.obs = o]
        BY <2>1 DEF PreguntarObra
      <3>. HIDE DEF e
      <3>4. o \in {"not_found", "accepted", "running", "succeeded", "failed", "cancelled"}
        BY <3>2
      <3>. HIDE DEF o
      <3>. QED  BY <1>0, <3>3, <3>4, TurnoConObs
    <2>2. CASE ~PreguntarObra
      BY <1>0, <2>2, TurnoConObs DEF MarcarObra, EnviarObra, ObraSigue, ObraDesconocida, ObraFallida
    <2>. QED  BY <2>1, <2>2
  <1>5. fallo' \in TiposObra \cup {"no"} /\ UNCHANGED <<op, rec, ct, hilo>>
    BY <1>0 DEF EnviarObra, MarcarObra, PreguntarObra, ObraSigue, ObraDesconocida, ObraFallida
  <1>. QED  BY <1>2, <1>3, <1>4, <1>5 DEF TypeOK, TypeOKEnsayo

LEMMA CrearTipos ==
  ASSUME TypeOK, GenAcotada, NEW r \in R,
         Mirar(r) \/ CrearEspera(r) \/ CrearHecho(r) \/ Despachar(r) \/ EnviarCreacion(r)
         \/ MarcarBootstrap(r) \/ TomarUpid(r) \/ Preparado(r)
  PROVE  TypeOKEnsayo' /\ GenAcotada'
  <1>0. /\ ensayo \in Ensayos /\ op \in [R -> OpsRecurso] /\ rec \in [R -> Recursos]
        /\ turno \in Turnos /\ SinTurno \in Turnos
    BY NuevasConTipo DEF TypeOK, TypeOKEnsayo
  <1>1. \A b \in BOOLEAN : /\ [op[r] EXCEPT !.upid = b] \in OpsRecurso
                           /\ [op[r] EXCEPT !.enviada = b, !.reciente = b] \in OpsRecurso
                           /\ [op[r] EXCEPT !.reciente = b] \in OpsRecurso
    BY <1>0 DEF OpsRecurso
  <1>2. PICK si \in BOOLEAN : si
    OBVIOUS
  <1>3. turno' \in Turnos
    BY <1>0, TurnoConObs DEF Mirar, Vistas, CrearEspera, CrearHecho, Despachar, EnviarCreacion,
       MarcarBootstrap, Marcada, TomarUpid, Preparado
  <1>4. op' \in [R -> OpsRecurso]
    <2>1. CASE CrearEspera(r)
      <3>. DEFINE b == op[r].upid \/ TareaVista(r)
      <3>1. b \in BOOLEAN /\ op' = [op EXCEPT ![r] = [op[r] EXCEPT !.upid = b]]
        BY <2>1 DEF CrearEspera
      <3>. HIDE DEF b
      <3>. QED  BY <1>0, <1>1, <3>1
    <2>2. CASE CrearHecho(r)
      BY <1>0, <2>2, NuevasConTipo DEF CrearHecho
    <2>3. CASE Despachar(r) \/ EnviarCreacion(r) \/ MarcarBootstrap(r) \/ TomarUpid(r)
      <3>1. \/ op' = op
            \/ op' = [op EXCEPT ![r] = [op[r] EXCEPT !.enviada = si, !.reciente = si]]
            \/ op' = [op EXCEPT ![r] = [op[r] EXCEPT !.upid = si]]
        BY <1>2, <2>3 DEF Despachar, EnviarCreacion, MarcarBootstrap, Marcada, TomarUpid
      <3>. QED  BY <1>0, <1>1, <3>1
    <2>4. CASE Preparado(r)
      <3>1. op' = [op EXCEPT ![r] = [op[r] EXCEPT !.estado = "confirmada"]] /\ "confirmada" \in EstadosOp
        BY <2>4 DEF Preparado, EstadosOp
      <3>. QED  BY <1>0, <3>1, EstadoOpConTipo DEF TypeOK
    <2>5. CASE Mirar(r)
      BY <1>0, <2>5 DEF Mirar
    <2>. QED  BY <2>1, <2>2, <2>3, <2>4, <2>5
  <1>5. rec' \in [R -> Recursos]
    <2>1. \/ rec' = rec
          \/ rec' = [rec EXCEPT ![r] = [rec[r] EXCEPT !.ledger = "materializado"]]
          \/ rec' = [rec EXCEPT ![r] = [rec[r] EXCEPT !.listo = TRUE]]
      BY DEF Mirar, Vistas, CrearEspera, CrearHecho, Despachar, EnviarCreacion, MarcarBootstrap,
         Marcada, TomarUpid, Preparado
    <2>2. /\ [rec[r] EXCEPT !.ledger = "materializado"] \in Recursos
          /\ [rec[r] EXCEPT !.listo = TRUE] \in Recursos
      BY <1>0, RecursoConTipo
    <2>. QED  BY <1>0, <2>1, <2>2
  <1>6. ensayo' \in Ensayos /\ GenAcotada'
    <2>1. CASE Preparado(r)
      <3>. DEFINE e == IF ensayo.estado = "incierta" THEN "ensayando" ELSE ensayo.estado
                  f == IF \A s \in R : rec'[s].listo THEN "lista_para_comprobar" ELSE e
      <3>1. f \in Estados /\ ensayo' = [ensayo EXCEPT !.estado = f] /\ ~ensayo.cancelada
        BY <1>0, <2>1, EstadosConocidos DEF Preparado, Ensayos, Dueno
      <3>. HIDE DEF f
      <3>. QED  BY <1>0, <3>1, EstadoConTipo DEF GenAcotada
    <2>2. CASE ~Preparado(r)
      BY <1>0, <2>2 DEF Mirar, Vistas, CrearEspera, CrearHecho, Despachar, EnviarCreacion,
         MarcarBootstrap, Marcada, TomarUpid, GenAcotada
    <2>. QED  BY <2>1, <2>2
  <1>7. /\ ct' = ct /\ obra' = obra /\ fallo' = fallo
        /\ hilo' \in [R -> {"no", "vuelo", "corre", "exito", "fallo", "perdido"}]
    BY DEF Mirar, Vistas, CrearEspera, CrearHecho, Despachar, EnviarCreacion, MarcarBootstrap,
       Marcada, TomarUpid, Preparado, TypeOK, TypeOKEnsayo
  <1>. QED  BY <1>3, <1>4, <1>5, <1>6, <1>7 DEF TypeOK, TypeOKEnsayo

LEMMA TrabajadorTipos ==
  ASSUME TypeOK, GenAcotada, ObraNumerada, Trabajador
  PROVE  TypeOKEnsayo' /\ GenAcotada'
  <1>1. CASE FallaTurno
    <2>0. ensayo \in Ensayos /\ Dudoso \in Estados /\ SinTurno \in Turnos /\ ~ensayo.cancelada
      BY <1>1, NuevasConTipo, EstadosDelTrabajador DEF TypeOK, TypeOKEnsayo, FallaTurno, Dueno
    <2>1. ensayo' \in Ensayos /\ GenAcotada'
      BY <1>1, <2>0, EstadoConTipo DEF FallaTurno, GenAcotada
    <2>2. obra' \in OpsObra /\ op' \in [R -> OpsRecurso]
      <3>1. "incierta" \in EstadosOp /\ TypeOKEnsayo
        BY DEF EstadosOp, TypeOK
      <3>2. obra' = [obra EXCEPT !.estado = "incierta"] \/ obra' = obra
        BY <1>1 DEF FallaTurno
      <3>3. \/ op' = op
            \/ turno.de \in R /\ op' = [op EXCEPT ![turno.de] = [op[turno.de] EXCEPT !.estado = "incierta"]]
        BY <1>1, <3>1 DEF FallaTurno, DeObra, TypeOKEnsayo, Turnos
      <3>4. obra' \in OpsObra
        BY <3>1, <3>2, EstadoOpConTipo DEF TypeOKEnsayo
      <3>5. op' \in [R -> OpsRecurso]
        <4>1. \A r \in R : [op[r] EXCEPT !.estado = "incierta"] \in OpsRecurso
          BY <3>1, EstadoOpConTipo
        <4>2. op \in [R -> OpsRecurso]
          BY <3>1 DEF TypeOKEnsayo
        <4>. QED  BY <3>3, <4>1, <4>2
      <3>. QED  BY <3>4, <3>5
    <2>. QED  BY <1>1, <2>0, <2>1, <2>2 DEF FallaTurno, TypeOK, TypeOKEnsayo
  <1>2. CASE PerderTurno
    BY <1>2, NuevasConTipo DEF PerderTurno, TypeOK, TypeOKEnsayo, GenAcotada
  <1>3. ASSUME NEW r \in R, PasanTreinta(r)
        PROVE  TypeOKEnsayo' /\ GenAcotada'
    <2>1. PICK b \in BOOLEAN : ~b
      OBVIOUS
    <2>2. op' = [op EXCEPT ![r] = [op[r] EXCEPT !.reciente = b]]
      BY <1>3, <2>1 DEF PasanTreinta
    <2>3. [op[r] EXCEPT !.reciente = b] \in OpsRecurso
      <3>1. op[r] \in OpsRecurso
        BY DEF TypeOK, TypeOKEnsayo
      <3>. QED  BY <3>1 DEF OpsRecurso
    <2>4. op' \in [R -> OpsRecurso]
      BY <2>2, <2>3 DEF TypeOK, TypeOKEnsayo
    <2>5. UNCHANGED <<ensayo, obra, fallo, rec, turno, ct, hilo>>
      BY <1>3 DEF PasanTreinta
    <2>. QED  BY <2>4, <2>5 DEF TypeOK, TypeOKEnsayo, GenAcotada
  <1>. QED  BY <1>1, <1>2, <1>3, ReclamarTipos, PreguntasTipos, ObraLogradaTipos, CrearTipos
            DEF Trabajador, Avanzar

LEMMA PortalPide ==
  ASSUME TypeOK, ObraNumerada, Portal
  PROVE  SoloPide
  <1>1. CASE EnviarObra
    <2>1. [que |-> obra.tipo, n |-> obra.n, gen |-> turno.gen] \in Peticiones
      BY DEF TypeOK, TypeOKEnsayo, Turnos, OpsObra, Peticiones, Tipos
    <2>. QED  BY <1>1, <2>1 DEF EnviarObra, SoloPide, TypeOK, TypeOKCasa
  <1>2. CASE ~EnviarObra
    <2>1. UNCHANGED varsCasa
      BY <1>2 DEF Portal, Decidir, Iniciar, ConfirmarEntradas, Descartar, Reintentar, Comprobar,
         Publicar, PasaPlazo, Vencer, Trabajador, Reclamar, Avanzar, MarcarObra, PreguntarObra,
         ObraSigue,
         ObraDesconocida, ObraFallida, ObraLograda, Mirar, Vistas, CrearEspera, CrearHecho,
         Despachar, EnviarCreacion, MarcarBootstrap, Marcada,
         TomarUpid, Preparado, FallaTurno, PerderTurno, PasanTreinta
    <2>. QED  BY <2>1 DEF varsCasa, SoloPide, TypeOK, TypeOKCasa
  <1>. QED  BY <1>1, <1>2

TypeOKCierre ==
  /\ cierre \in [cerrado : BOOLEAN, tarea : {"no", "suya", "rechazada"}]
  /\ mano \in [pc : {"libre", "tomada", "cierra", "visto", "post", "rechazado", "vacia"},
               obs : {"nada", "ausente", "detenido", "corriendo"}]
  /\ baja \in [R -> [accion : {"parar", "borrar"},
                     etapa : {"no", "vuelo", "corre", "exito", "fallo"}]]
  /\ tarde \in [R -> BOOLEAN]

LEMMA TiposPorPartes == TypeOK <=> TypeOKCasa /\ TypeOKEnsayo /\ TypeOKCierre
  BY DEF TypeOK, TypeOKCierre

(* A run of the cleanup changes the trial in its state of cleanup and its  *)
(* space, the rows of its operations and resources, and nothing else.      *)
LEMMA LimpiarPide ==
  ASSUME TypeOK, Limpieza
  PROVE  SoloPide
  <1>1. CASE Cerrar \/ Vaciar
    <2>1. \A q \in {"cierre", "limpieza"} : [que |-> q, n |-> 0, gen |-> ensayo.gen] \in Peticiones
      BY CotasAssumption DEF TypeOK, TypeOKEnsayo, Ensayos, Peticiones, Tipos
    <2>. QED  BY <1>1, <2>1 DEF Cerrar, Vaciar, SoloPide, TypeOK, TypeOKCasa
  <1>2. CASE ~(Cerrar \/ Vaciar)
    <2>1. UNCHANGED varsCasa
      BY <1>2 DEF Limpieza, Limpiar, TomarLimpieza, AnotarCierre, SoltarSinIdentidad, MirarCierre,
         SoltarAusente, BajaEspera, BajaHecha, EnviarBaja, TomarBaja, AnotarLimpieza,
         FallaLimpieza, PerderLimpieza, ReintentarLimpieza
    <2>. QED  BY <2>1 DEF varsCasa, SoloPide, TypeOK, TypeOKCasa
  <1>. QED  BY <1>1, <1>2

LimpiezaTrasPaso ==
  \/ ensayo' = ensayo
  \/ ensayo' = [ensayo EXCEPT !.limpieza = "en_curso"] /\ TomarLimpieza
  \/ ensayo' = [ensayo EXCEPT !.limpieza = "fallida"] /\ FallaLimpieza
  \/ ensayo' = [ensayo EXCEPT !.limpieza = "pendiente"] /\ ReintentarLimpieza
  \/ ensayo' = [ensayo EXCEPT !.limpieza = "confirmada", !.espacio = FALSE] /\ AnotarLimpieza

LEMMA LimpiezaSobreEnsayo ==
  ASSUME TypeOK, Limpieza
  PROVE  /\ LimpiezaTrasPaso
         /\ ensayo' \in Ensayos
         /\ ensayo'.estado = ensayo.estado /\ ensayo'.cancelada = ensayo.cancelada
         /\ ensayo'.gen = ensayo.gen /\ ensayo'.artefacto = ensayo.artefacto
         /\ AnotarLimpieza \/ ensayo'.espacio = ensayo.espacio
         /\ UNCHANGED <<fallo, turno, ct, hilo>>
  <1>1. LimpiezaTrasPaso /\ UNCHANGED <<fallo, turno, ct, hilo>>
    BY DEF Limpieza, Limpiar, TomarLimpieza, Cerrar, AnotarCierre, SoltarSinIdentidad, MirarCierre,
       SoltarAusente, BajaEspera, BajaHecha, EnviarBaja, TomarBaja, Vaciar, AnotarLimpieza,
       FallaLimpieza, PerderLimpieza, ReintentarLimpieza, LimpiezaTrasPaso, varsEnsayo
  <1>2. ensayo \in Ensayos
    BY DEF TypeOK, TypeOKEnsayo
  <1>3. CASE AnotarLimpieza /\ ensayo' = [ensayo EXCEPT !.limpieza = "confirmada", !.espacio = FALSE]
    <2>1. PICK b \in BOOLEAN : ~b
      OBVIOUS
    <2>2. ensayo' = [ensayo EXCEPT !.limpieza = "confirmada", !.espacio = b]
      BY <1>3, <2>1
    <2>. QED  BY <1>1, <1>2, <1>3, <2>2 DEF Ensayos
  <1>. QED  BY <1>1, <1>2, <1>3 DEF LimpiezaTrasPaso, Ensayos

(* The rows of the operations only fail, and those of the resources only   *)
(* become absent and free.                                                 *)
LEMMA LimpiezaSobreFilas ==
  ASSUME TypeOK, Limpieza
  PROVE  /\ \/ UNCHANGED <<obra, op>>
            \/ /\ TomarLimpieza
               /\ obra' = [obra EXCEPT !.estado = IF Abierta(obra) THEN "fallida" ELSE @]
               /\ op' = [r \in R |-> [op[r] EXCEPT !.estado = IF Abierta(op[r]) THEN "fallida" ELSE @]]
         /\ rec' = rec \/ (rec' = Liberado(Objetivo) /\ (SoltarSinIdentidad \/ SoltarAusente))
  BY DEF Limpieza, Limpiar, TomarLimpieza, Cerrar, AnotarCierre, SoltarSinIdentidad, MirarCierre,
     SoltarAusente, BajaEspera, BajaHecha, EnviarBaja, TomarBaja, Vaciar, AnotarLimpieza,
     FallaLimpieza, PerderLimpieza, ReintentarLimpieza, varsEnsayo

LEMMA FallidaConTipo ==
  /\ \A o \in OpsObra : [o EXCEPT !.estado = IF Abierta(o) THEN "fallida" ELSE @] \in OpsObra
  /\ \A o \in OpsRecurso : [o EXCEPT !.estado = IF Abierta(o) THEN "fallida" ELSE @] \in OpsRecurso
  <1>1. \A o \in OpsObra, e \in EstadosOp : [o EXCEPT !.estado = e] \in OpsObra
    BY DEF OpsObra
  <1>2. \A o \in OpsRecurso, e \in EstadosOp : [o EXCEPT !.estado = e] \in OpsRecurso
    BY DEF OpsRecurso
  <1>3. \A o \in OpsObra : (IF Abierta(o) THEN "fallida" ELSE o.estado) \in EstadosOp
    BY DEF OpsObra, EstadosOp
  <1>4. \A o \in OpsRecurso : (IF Abierta(o) THEN "fallida" ELSE o.estado) \in EstadosOp
    BY DEF OpsRecurso, EstadosOp
  <1>. QED  BY <1>1, <1>2, <1>3, <1>4

LEMMA LiberadoConTipo ==
  ASSUME TypeOK, NEW r
  PROVE  /\ Liberado(r) \in [R -> Recursos]
         /\ \A s \in R : /\ Liberado(r)[s].identidad = rec[s].identidad
                         /\ Liberado(r)[s].ledger = IF s = r THEN "liberado" ELSE rec[s].ledger
  <1>1. rec \in [R -> Recursos]
    BY DEF TypeOK, TypeOKEnsayo
  <1>2. r \in R => [rec[r] EXCEPT !.ausente = TRUE, !.ledger = "liberado"] \in Recursos
    BY <1>1, RecursoConTipo
  <1>3. Liberado(r) = [rec EXCEPT ![r] = [rec[r] EXCEPT !.ausente = TRUE, !.ledger = "liberado"]]
    BY DEF Liberado
  <1>4. r \in R => /\ [rec[r] EXCEPT !.ausente = TRUE, !.ledger = "liberado"].identidad = rec[r].identidad
                   /\ [rec[r] EXCEPT !.ausente = TRUE, !.ledger = "liberado"].ledger = "liberado"
    BY <1>1 DEF Recursos
  <1>. QED  BY <1>1, <1>2, <1>3, <1>4

LEMMA LimpiezaTipos ==
  ASSUME TypeOK, GenAcotada, Limpieza
  PROVE  TypeOKEnsayo' /\ GenAcotada'
  <1>1. ensayo' \in Ensayos /\ GenAcotada' /\ UNCHANGED <<fallo, turno, ct, hilo>>
    BY LimpiezaSobreEnsayo DEF GenAcotada
  <1>2. obra \in OpsObra /\ op \in [R -> OpsRecurso] /\ rec \in [R -> Recursos]
    BY DEF TypeOK, TypeOKEnsayo
  <1>3. obra' \in OpsObra
    BY <1>2, LimpiezaSobreFilas, FallidaConTipo
  <1>4. op' \in [R -> OpsRecurso]
    BY <1>2, LimpiezaSobreFilas, FallidaConTipo
  <1>5. rec' \in [R -> Recursos]
    BY <1>2, LimpiezaSobreFilas, LiberadoConTipo
  <1>. QED  BY <1>1, <1>3, <1>4, <1>5 DEF TypeOK, TypeOKEnsayo

LEMMA CierreTipos ==
  ASSUME TypeOK, Limpieza, UNCHANGED tarde
  PROVE  TypeOKCierre'
  <1>0. TypeOKCierre /\ ct \in [R -> {"ausente", "detenido", "corriendo"}]
    BY DEF TypeOK, TypeOKEnsayo, TypeOKCierre
  <1>1. cierre' \in [cerrado : BOOLEAN, tarea : {"no", "suya", "rechazada"}]
    <2>1. PICK si \in BOOLEAN : si
      OBVIOUS
    <2>2. \/ cierre' = cierre \/ cierre' = [cierre EXCEPT !.cerrado = si]
          \/ \E t \in {"no", "suya", "rechazada"} : cierre' = [cierre EXCEPT !.tarea = t]
      BY <2>1 DEF Limpieza, Limpiar, TomarLimpieza, Cerrar, AnotarCierre, SoltarSinIdentidad,
         MirarCierre, SoltarAusente, BajaEspera, BajaHecha, EnviarBaja, TomarBaja, Vaciar,
         AnotarLimpieza, FallaLimpieza, PerderLimpieza, ReintentarLimpieza, TareaOlvidada
    <2>. QED  BY <1>0, <2>2 DEF TypeOKCierre
  <1>2. mano' \in [pc : {"libre", "tomada", "cierra", "visto", "post", "rechazado", "vacia"},
                   obs : {"nada", "ausente", "detenido", "corriendo"}]
    <2>1. CASE MirarCierre
      <3>1. Objetivo \in R
        BY <2>1 DEF MirarCierre, PorRetirar, Objetivo, Pendientes
      <3>2. \A v \in Vistas(Objetivo) : v \in {"ausente", "detenido", "corriendo"}
        BY <1>0, <3>1 DEF Vistas
      <3>. QED  BY <1>0, <2>1, <3>2 DEF MirarCierre
    <2>2. CASE ~MirarCierre
      <3>1. \/ mano' = mano \/ mano' = SinMano
            \/ \E p \in {"tomada", "cierra", "post", "rechazado", "vacia"} : mano' = [mano EXCEPT !.pc = p]
        BY <2>2 DEF Limpieza, Limpiar, TomarLimpieza, Cerrar, AnotarCierre, SoltarSinIdentidad,
           SoltarAusente, BajaEspera, BajaHecha, EnviarBaja, TomarBaja, Vaciar, AnotarLimpieza,
           FallaLimpieza, PerderLimpieza, ReintentarLimpieza
      <3>. QED  BY <1>0, <3>1 DEF TypeOKCierre, SinMano
    <2>. QED  BY <2>1, <2>2
  <1>3. baja' \in [R -> [accion : {"parar", "borrar"}, etapa : {"no", "vuelo", "corre", "exito", "fallo"}]]
    <2>1. CASE EnviarBaja
      BY <1>0, <2>1 DEF EnviarBaja, TypeOKCierre
    <2>2. CASE ~EnviarBaja
      BY <1>0, <2>2 DEF Limpieza, Limpiar, TomarLimpieza, Cerrar, AnotarCierre, SoltarSinIdentidad,
         MirarCierre, SoltarAusente, BajaEspera, BajaHecha, TomarBaja, Vaciar, AnotarLimpieza,
         FallaLimpieza, PerderLimpieza, ReintentarLimpieza, TypeOKCierre
    <2>. QED  BY <2>1, <2>2
  <1>. QED  BY <1>0, <1>1, <1>2, <1>3 DEF TypeOKCierre

(* What Proxmox does to a resource is to its tasks and its container.      *)
LEMMA ProxmoxTipos ==
  ASSUME TypeOK, GenAcotada, Proxmox
  PROVE  TypeOKEnsayo' /\ TypeOKCierre' /\ GenAcotada'
  <1>1. PICK r \in R : \/ SubeCreacion(r) \/ SubeBaja(r) \/ SePierdePeticion(r) \/ SeApaga(r)
                       \/ \E e \in {"exito", "fallo"} : CreacionTermina(r, e) \/ BajaTermina(r, e)
    BY DEF Proxmox
  <1>2. /\ hilo' \in [R -> {"no", "vuelo", "corre", "exito", "fallo", "perdido"}]
        /\ ct' \in [R -> {"ausente", "detenido", "corriendo"}]
    BY <1>1 DEF SubeCreacion, SubeBaja, SePierdePeticion, SeApaga, CreacionTermina, BajaTermina,
       TypeOK, TypeOKEnsayo
  <1>3. baja' \in [R -> [accion : {"parar", "borrar"}, etapa : {"no", "vuelo", "corre", "exito", "fallo"}]]
    BY <1>1 DEF SubeCreacion, SubeBaja, SePierdePeticion, SeApaga, CreacionTermina, BajaTermina, TypeOK
  <1>4. tarde' \in [R -> BOOLEAN]
    <2>1. CASE SubeCreacion(r)
      <3>. DEFINE v == tarde[r] \/ ~(op[r].reciente \/ Abierta(op[r]))
      <3>1. v \in BOOLEAN /\ tarde' = [tarde EXCEPT ![r] = v]
        BY <2>1 DEF SubeCreacion
      <3>. HIDE DEF v
      <3>. QED  BY <3>1 DEF TypeOK
    <2>2. ASSUME NEW e, CreacionTermina(r, e)
          PROVE  tarde' \in [R -> BOOLEAN]
      <3>. DEFINE v == tarde[r] \/ (e = "exito" /\ NoVisto(r))
      <3>1. v \in BOOLEAN /\ tarde' = [tarde EXCEPT ![r] = v]
        BY <2>2 DEF CreacionTermina
      <3>. HIDE DEF v
      <3>. QED  BY <3>1 DEF TypeOK
    <2>. QED  BY <1>1, <2>1, <2>2 DEF SubeBaja, SePierdePeticion, SeApaga, BajaTermina, TypeOK
  <1>. QED  BY <1>2, <1>3, <1>4 DEF Proxmox, TypeOK, TypeOKEnsayo, TypeOKCierre, GenAcotada

(* Before the trial exists nothing can happen to it but its start.         *)
LEMMA SoloIniciar ==
  ASSUME TypeOK, ObraNumerada, ensayo.estado = "no", Portal
  PROVE  \E plazo \in {"sin", "corre"} : Iniciar(plazo)
  BY DEF Portal, Decidir, Trabajador, ConfirmarEntradas, Descartar, Reintentar,
     Comprobar, Publicar, PasaPlazo, Vencer, Vigente, Reclamar, Avanzar, EnviarObra, MarcarObra,
     PreguntarObra,
     ObraSigue, ObraDesconocida, ObraFallida, ObraLograda, Dueno, Mirar, Vistas, CrearEspera,
     CrearHecho,
     Despachar, EnviarCreacion, MarcarBootstrap, Marcada, TomarUpid, Preparado, FallaTurno,
     PerderTurno, PasanTreinta, ObraNumerada

LEMMA ObraLogradaNumera ==
  ASSUME TypeOK, ObraNumerada, ensayo.estado # "no", ObraLograda
  PROVE  ensayo'.estado # "no" /\ obra'.n \in Obras
  <1>0. /\ ensayo \in Ensayos /\ obra \in OpsObra /\ obra.n \in Obras
        /\ obra.n < MaxObras => obra.n + 1 \in Obras
        /\ \A t, v, k : NuevaObra(t, k, v).n = k
    BY CotasAssumption DEF TypeOK, TypeOKEnsayo, Obras, NuevaObra, ObraNumerada
  <1>1. CASE Resuelto
    <2>1. obra'.n \in Obras
      <3>1. CASE ensayo.plazo = "sin"
        <4>1. obra.n < MaxObras /\ obra' = NuevaObra("construir", obra.n + 1, FALSE)
          BY <1>1, <3>1 DEF Resuelto
        <4>. QED  BY <1>0, <4>1 DEF NuevaObra
      <3>2. CASE ensayo.plazo # "sin"
        BY <1>0, <1>1, <3>2 DEF Resuelto, OpsObra
      <3>. QED  BY <3>1, <3>2
    <2>. QED  BY <1>0, <1>1, <2>1 DEF Resuelto, Ensayos
  <1>2. CASE Construido
    <2>1. obra.n < MaxObras /\ obra' = NuevaObra("distribuir", obra.n + 1, FALSE)
      BY <1>2 DEF Construido
    <2>2. ensayo'.estado = ensayo.estado
      BY <1>0, <1>2 DEF Construido, Ensayos
    <2>. QED  BY <1>0, <2>1, <2>2 DEF NuevaObra
  <1>3. CASE Distribuido
    <2>1. obra'.n \in Obras
      BY <1>0, <1>3 DEF Distribuido, OpsObra
    <2>. QED  BY <1>0, <1>3, <2>1 DEF Distribuido, Ensayos
  <1>. QED  BY <1>1, <1>2, <1>3 DEF ObraLograda

LEMMA NumeradaSigue ==
  ASSUME TypeOK, ObraNumerada, Portal
  PROVE  ObraNumerada' /\ ensayo'.estado # "no"
  <1>0. /\ ensayo \in Ensayos /\ obra \in OpsObra /\ 1 \in Obras
        /\ \A k \in Obras : k < MaxObras => k + 1 \in Obras
        /\ \A t, v, k : NuevaObra(t, k, v).n = k
    BY CotasAssumption DEF TypeOK, TypeOKEnsayo, Obras, NuevaObra
  <1>1. CASE ensayo.estado = "no"
    <2>1. PICK plazo \in {"sin", "corre"} : Iniciar(plazo)
      BY <1>1, SoloIniciar
    <2>2. obra' = NuevaObra("resolver", 1, FALSE) /\ ensayo'.estado = "pendiente"
      BY <1>0, <2>1 DEF Iniciar, Ensayos
    <2>. QED  BY <1>0, <2>2 DEF ObraNumerada, NuevaObra
  <1>2. CASE ensayo.estado # "no"
    <2>0. obra.n \in Obras
      BY <1>2 DEF ObraNumerada
    <2>1. ASSUME NEW t, NEW v, Encolar(t, v)
          PROVE  obra'.n \in Obras
      BY <1>0, <2>0, <2>1 DEF Encolar
    <2>2. CASE ObraLograda
      BY <1>2, <2>2, ObraLogradaNumera DEF ObraNumerada
    <2>3. CASE Decidir
      <3>1. obra'.n \in Obras
        BY <2>0, <2>1, <2>3, <1>2 DEF Decidir, Iniciar, ConfirmarEntradas, Descartar, Reintentar,
           Comprobar, Publicar, PasaPlazo, Vencer
      <3>2. \A f \in TiposObra : Reanuda[f] # "no"
        BY DEF Reanuda, TiposObra
      <3>3. ensayo'.estado # "no"
        <4>1. CASE Reintentar
          <5>1. \/ ensayo' = [ensayo EXCEPT !.gen = @ + 1]
                \/ fallo \in TiposObra /\ ensayo' = [ensayo EXCEPT !.gen = @ + 1, !.estado = Reanuda[fallo]]
            BY <4>1 DEF Reintentar, TypeOK, TypeOKEnsayo
          <5>. QED  BY <1>0, <1>2, <3>2, <5>1 DEF Ensayos
        <4>2. CASE ~Reintentar
          BY <1>0, <1>2, <2>3, <4>2 DEF Decidir, Iniciar, ConfirmarEntradas, Descartar,
             Comprobar, Publicar, PasaPlazo, Vencer, Ensayos, Cerrado
        <4>. QED  BY <4>1, <4>2
      <3>. QED  BY <3>1, <3>3 DEF ObraNumerada
    <2>4. CASE Trabajador /\ ~ObraLograda
      <3>1. obra'.n \in Obras
        BY <1>0, <2>0, <2>4 DEF Trabajador, Reclamar, Avanzar, EnviarObra, MarcarObra, PreguntarObra,
           ObraSigue,
           ObraDesconocida, ObraFallida, Mirar, Vistas, CrearEspera, CrearHecho, Despachar,
           EnviarCreacion, MarcarBootstrap, Marcada,
           TomarUpid, Preparado, FallaTurno, PerderTurno, PasanTreinta, OpsObra
      <3>2. Resolviendo # "no" /\ Dudoso # "no"
        BY <1>2 DEF Resolviendo, Dudoso
      <3>3. ensayo'.estado # "no"
        BY <1>0, <1>2, <2>4, <3>2 DEF Trabajador, Reclamar, Avanzar, EnviarObra, MarcarObra,
           PreguntarObra, ObraSigue,
           ObraDesconocida, ObraFallida, Mirar, Vistas, CrearEspera, CrearHecho, Despachar,
           EnviarCreacion, MarcarBootstrap, Marcada,
           TomarUpid, Preparado, FallaTurno, PerderTurno, PasanTreinta, Ensayos
      <3>. QED  BY <3>1, <3>3 DEF ObraNumerada
    <2>. QED  BY <2>2, <2>3, <2>4 DEF Portal
  <1>. QED  BY <1>1, <1>2
----------------------------------------------------------------------------
(* Space is freed with the trial cleaned, and grows nothing afterwards.    *)
EspacioLimpio ==
  ensayo.estado # "no" /\ ~ensayo.espacio =>
    casa.limpieza = "succeeded" /\ (disco.artefacto => ensayo.artefacto)

(* What the cleanup recorded of the builder is so.                         *)
CierreAnotado == cierre.cerrado => casa.cierre = "cancelled"

Inductivo ==
  TypeOK /\ GenAcotada /\ ObraNumerada /\ CasaCierta /\ EspacioLimpio /\ CierreAnotado

LEMMA InicioInductivo ==
  ASSUME Init
  PROVE  Inductivo
  <1>. USE DEF Init, InitCasa, InitEnsayo, InitCierre
  <1>0. 0 \in Gens /\ 0 \in 0..MaxObras /\ 0 < MaxGen
    BY CotasAssumption DEF Gens
  <1>1. TypeOKCasa
    <2>1. [que |-> "resolver", estado |-> "no", gen |-> 0, pid |-> FALSE] \in Trabajos
      BY <1>0 DEF Trabajos, TiposObra
    <2>2. casa \in Casas
      BY <1>0, <2>1 DEF Casas
    <2>. QED  BY <2>2 DEF TypeOKCasa
  <1>2. TypeOKEnsayo
    <2>1. ensayo \in Ensayos
      BY <1>0, EstadosConocidos DEF Ensayos
    <2>2. obra \in OpsObra
      <3>1. NuevaObra("resolver", 0, FALSE) \in OpsObra
        BY <1>0, NuevasConTipo DEF TiposObra
      <3>. QED  BY <3>1 DEF OpsObra, EstadosOp
    <2>3. op \in [R -> OpsRecurso]
      <3>1. NuevaOp("crear") \in OpsRecurso
        BY NuevasConTipo
      <3>2. [NuevaOp("crear") EXCEPT !.estado = "no"] \in OpsRecurso
        BY <3>1 DEF OpsRecurso, EstadosOp
      <3>. QED  BY <3>2
    <2>4. rec \in [R -> Recursos]
      BY DEF Recursos
    <2>. QED  BY <2>1, <2>2, <2>3, <2>4, NuevasConTipo DEF TypeOKEnsayo
  <1>3. TypeOKCierre
    BY DEF TypeOKCierre, SinMano
  <1>4. GenAcotada /\ ObraNumerada /\ CasaCierta /\ EspacioLimpio /\ CierreAnotado
    BY <1>0 DEF GenAcotada, ObraNumerada, CasaCierta, EspacioLimpio, CierreAnotado, SinTurno, NuevaOp
  <1>. QED  BY <1>1, <1>2, <1>3, <1>4, TiposPorPartes DEF Inductivo

LEMMA PortalInductivo ==
  ASSUME Inductivo, Portal, UNCHANGED <<cierre, mano, baja, tarde>>
  PROVE  Inductivo'
  <1>1. SoloPide /\ ObraNumerada'
    BY PortalPide, NumeradaSigue DEF Inductivo
  <1>2. TypeOKEnsayo' /\ GenAcotada'
    BY DecidirTipos, TrabajadorTipos DEF Inductivo, Portal
  <1>3. TypeOK'
    BY <1>1, <1>2, TiposPorPartes DEF Inductivo, TypeOK, TypeOKCasa, SoloPide
  <1>4. CasaCierta' /\ CierreAnotado'
    BY <1>1 DEF Inductivo, CasaCierta, CierreAnotado, SoloPide
  <1>5. EspacioLimpio'
    <2>1. CASE ensayo.estado = "no"
      <3>1. ensayo'.espacio
        BY <2>1, SoloIniciar DEF Iniciar, Inductivo, TypeOK, TypeOKEnsayo, Ensayos
      <3>. QED  BY <3>1 DEF EspacioLimpio
    <2>2. CASE ensayo.estado # "no"
      <3>0. ensayo \in Ensayos
        BY DEF Inductivo, TypeOK, TypeOKEnsayo
      <3>1. ensayo'.espacio = ensayo.espacio /\ (ensayo.artefacto => ensayo'.artefacto)
        BY <2>2, <3>0 DEF Portal, Decidir, Iniciar, ConfirmarEntradas, Descartar, Reintentar,
           Comprobar, Publicar, PasaPlazo, Vencer, Trabajador, Reclamar, Avanzar, EnviarObra,
           MarcarObra, PreguntarObra, ObraSigue, ObraDesconocida, ObraFallida, ObraLograda, Resuelto,
           Construido,
           Distribuido, Mirar, Vistas, CrearEspera, CrearHecho, Despachar, EnviarCreacion,
           MarcarBootstrap, Marcada, TomarUpid, Preparado, FallaTurno,
           PerderTurno, PasanTreinta, Ensayos, Cerrado
      <3>. QED  BY <1>1, <2>2, <3>1 DEF EspacioLimpio, Inductivo, SoloPide
    <2>. QED  BY <2>1, <2>2
  <1>. QED  BY <1>1, <1>2, <1>3, <1>4, <1>5 DEF Inductivo

LEMMA CasaInductiva ==
  ASSUME Inductivo, PasoCasa, UNCHANGED <<varsEnsayo, cierre, mano, baja, tarde>>
  PROVE  Inductivo'
  <1>1. TypeOKCasa' /\ CasaCierta'
    BY CasaTipos, CasaSigueCierta, TiposPorPartes DEF Inductivo
  <1>2. TypeOKEnsayo' /\ TypeOKCierre' /\ GenAcotada' /\ ObraNumerada'
    BY TiposPorPartes DEF Inductivo, TypeOKEnsayo, TypeOKCierre, GenAcotada, ObraNumerada, varsEnsayo
  <1>3. EspacioLimpio' /\ CierreAnotado'
    BY LimpiezaFirme, CierreFirme, TiposPorPartes DEF Inductivo, EspacioLimpio, CierreAnotado,
       varsEnsayo
  <1>4. TypeOK'
    BY <1>1, <1>2 DEF TypeOK, TypeOKCierre
  <1>. QED  BY <1>1, <1>2, <1>3, <1>4 DEF Inductivo

LEMMA LimpiezaInductiva ==
  ASSUME Inductivo, Limpieza, UNCHANGED tarde
  PROVE  Inductivo'
  <1>1. SoloPide /\ TypeOKEnsayo' /\ TypeOKCierre' /\ GenAcotada'
    BY LimpiarPide, LimpiezaTipos, CierreTipos DEF Inductivo
  <1>2. TypeOKCasa' /\ CasaCierta'
    BY <1>1, TiposPorPartes DEF Inductivo, TypeOKCasa, CasaCierta, SoloPide
  <1>5. TypeOK'
    BY <1>1, <1>2 DEF TypeOK, TypeOKCierre
  <1>3. ObraNumerada'
    <2>1. obra'.n = obra.n /\ \A r \in R : op'[r].reciente = op[r].reciente
      BY LimpiezaSobreFilas DEF Inductivo, TypeOK, TypeOKEnsayo, OpsObra, OpsRecurso
    <2>2. ensayo'.estado = ensayo.estado /\ turno' = turno /\ ensayo'.plazo = ensayo.plazo
      BY LimpiezaSobreEnsayo DEF LimpiezaTrasPaso, Inductivo, TypeOK, TypeOKEnsayo, Ensayos
    <2>. QED  BY <2>1, <2>2 DEF ObraNumerada, Inductivo
  <1>4. EspacioLimpio'
    <2>1. /\ ensayo'.estado = ensayo.estado /\ ensayo'.artefacto = ensayo.artefacto
          /\ AnotarLimpieza \/ ensayo'.espacio = ensayo.espacio
      BY LimpiezaSobreEnsayo DEF Inductivo
    <2>2. AnotarLimpieza => casa.limpieza = "succeeded" /\ (disco.artefacto => ensayo.artefacto)
      BY DEF AnotarLimpieza
    <2>. QED  BY <1>1, <2>1, <2>2 DEF EspacioLimpio, SoloPide, Inductivo
  <1>6. CierreAnotado'
    <2>1. cierre'.cerrado => cierre.cerrado \/ AnotarCierre
      BY DEF Limpieza, Limpiar, TomarLimpieza, Cerrar, SoltarSinIdentidad, MirarCierre,
         SoltarAusente, BajaEspera, BajaHecha, EnviarBaja, TomarBaja, Vaciar, AnotarLimpieza,
         FallaLimpieza, PerderLimpieza, ReintentarLimpieza, TareaOlvidada, Inductivo, TypeOK
    <2>2. AnotarCierre => casa.cierre = "cancelled"
      BY DEF AnotarCierre, CierreConfirmado
    <2>. QED  BY <1>1, <2>1, <2>2 DEF CierreAnotado, SoloPide, Inductivo
  <1>. QED  BY <1>1, <1>2, <1>3, <1>4, <1>5, <1>6 DEF Inductivo

LEMMA PasoInductivo ==
  ASSUME Inductivo, [Next]_vars
  PROVE  Inductivo'
  <1>1. CASE Proxmox
    <2>1. TypeOKEnsayo' /\ TypeOKCierre' /\ GenAcotada'
      BY <1>1, ProxmoxTipos DEF Inductivo
    <2>2. UNCHANGED <<varsCasa, ensayo, obra, op, turno, cierre>>
      BY <1>1 DEF Proxmox
    <2>3. TypeOKCasa' /\ ObraNumerada' /\ CasaCierta' /\ EspacioLimpio' /\ CierreAnotado'
      BY <2>2, TiposPorPartes
      DEF Inductivo, TypeOKCasa, ObraNumerada, CasaCierta, EspacioLimpio, CierreAnotado, varsCasa
    <2>. QED  BY <2>1, <2>3 DEF Inductivo, TypeOK, TypeOKCierre
  <1>2. CASE UNCHANGED vars
    <2>1. TypeOKCasa' /\ TypeOKEnsayo' /\ TypeOKCierre'
      BY <1>2, TiposPorPartes
      DEF Inductivo, TypeOKCasa, TypeOKEnsayo, TypeOKCierre, vars, varsCasa, varsEnsayo
    <2>2. GenAcotada' /\ ObraNumerada' /\ CasaCierta' /\ EspacioLimpio' /\ CierreAnotado'
      BY <1>2 DEF Inductivo, GenAcotada, ObraNumerada, CasaCierta, EspacioLimpio, CierreAnotado,
         vars, varsCasa,
         varsEnsayo
    <2>. QED  BY <2>1, <2>2 DEF Inductivo, TypeOK, TypeOKCierre
  <1>. QED  BY <1>1, <1>2, PortalInductivo, CasaInductiva, LimpiezaInductiva DEF Next

LEMMA InductivoSiempre == Spec => []Inductivo
  <1>1. Init => Inductivo
    BY InicioInductivo
  <1>2. Inductivo /\ [Next]_vars => Inductivo'
    BY PasoInductivo
  <1>. QED  BY <1>1, <1>2, PTL DEF Spec

(* The variables of trials, builder and cleanup keep their types for any   *)
(* number of jobs and resources.                                           *)
THEOREM TiposSiempre == Spec => []TypeOK
  BY InductivoSiempre, PTL DEF Inductivo

(* The space of a trial is freed only when nothing of it builds, or can    *)
(* build again, on the builder.                                            *)
THEOREM EspacioSinObraSiempre == Spec => []EspacioSinObra
  <1>1. Inductivo => EspacioSinObra
    BY DEF Inductivo, EspacioLimpio, CasaCierta, EspacioSinObra
  <1>. QED  BY <1>1, InductivoSiempre, PTL

(* Once the cleanup recorded that the builder is closed, nothing of the    *)
(* trial builds, for ever.                                                 *)
THEOREM CierreDetieneTodoSiempre == Spec => []CierreDetieneTodo
  <1>1. Inductivo => CierreDetieneTodo
    BY DEF Inductivo, CierreAnotado, CasaCierta, CierreDetieneTodo
  <1>. QED  BY <1>1, InductivoSiempre, PTL

(* On a closed trial the worker looks, sends what it had marked, or ends:  *)
(* no row changes, but for the age of its dispatches.                      *)
SoloMira ==
  /\ UNCHANGED <<casa, proceso, disco, recibidas, ensayo, obra, fallo, op, rec, ct, hilo>>
  /\ \/ turno' = SinTurno
     \/ turno.pc = "tomada" /\ turno'.pc = "visto" /\ turno'.de = turno.de
     \/ turno.pc = "marca" /\ turno'.pc = "envio" /\ turno'.de = turno.de

LEMMA CanceladoSoloMira ==
  ASSUME Inductivo, ensayo.cancelada, Portal
  PROVE  SoloMira \/ \E r \in R : EnviarCreacion(r) \/ PasanTreinta(r)
  <1>1. ensayo.estado # "no" /\ turno \in Turnos
    BY DEF Inductivo, GenAcotada, TypeOK, TypeOKEnsayo
  <1>2. PerderTurno \/ EnviarObra \/ \E r \in R : Mirar(r) \/ EnviarCreacion(r) \/ PasanTreinta(r)
    BY <1>1 DEF Portal, Decidir, Iniciar, ConfirmarEntradas, Descartar, Reintentar, Comprobar,
       Publicar, PasaPlazo, Vencer, Vigente, Trabajador, Reclamar, Avanzar, MarcarObra, PreguntarObra,
       ObraSigue, ObraDesconocida, ObraFallida, ObraLograda, CrearEspera, CrearHecho,
       Despachar, MarcarBootstrap, TomarUpid, Preparado, FallaTurno, Dueno
  <1>3. CASE EnviarObra
    BY <1>1, <1>3 DEF EnviarObra, Turnos, SoloMira
  <1>4. CASE PerderTurno
    BY <1>4 DEF PerderTurno, SoloMira, varsCasa
  <1>5. CASE \E r \in R : Mirar(r)
    BY <1>1, <1>5 DEF Mirar, Turnos, SoloMira, varsCasa
  <1>. QED  BY <1>2, <1>3, <1>4, <1>5
----------------------------------------------------------------------------
(* The run of cleanup begins when no run of the worker has a lease, and    *)
(* nothing of the worker can begin after; a creation it left on its way is *)
(* older than 30 seconds.                                                  *)
Quieto ==
  /\ ensayo.cancelada /\ turno.pc = "libre"
  /\ \A r \in R : ~Abierta(op[r]) /\ (hilo[r] = "vuelo" => ~op[r].reciente)

Cuenta ==
  /\ ensayo.limpieza # "no_solicitada" => ensayo.cancelada
  /\ turno.pc = "libre" => turno.de = "obra"
  /\ \A r \in R : /\ rec[r].ledger = "no" <=> ensayo.estado = "no"
                  /\ ensayo.estado = "no" => ~rec[r].identidad
                  /\ rec[r].ledger = "liberado" => Quieto
                  /\ baja[r].etapa # "no" => Quieto
  /\ mano.pc # "libre" => Quieto

(* While the trial is open, a creation that was sent and has not succeeded *)
(* is the marked one of an open operation, and one that did left its       *)
(* container; a run of the worker holds the lease of an open operation.    *)
CreacionAbierta(r) ==
  /\ hilo[r] \notin {"no", "exito"} => Abierta(op[r]) /\ op[r].tipo = "crear" /\ op[r].enviada
  /\ hilo[r] = "exito" => ct[r] # "ausente"
  /\ turno.pc = "visto" /\ turno.obs = "ausente" /\ turno.de = r /\ ~op[r].enviada => hilo[r] = "no"
  /\ turno.de = r => Abierta(op[r])

(* A creation is sent once, by the run that marked it, while its operation *)
(* is open: no cleanup begins before that run ends.                        *)
PorEnviar(r) ==
  turno.de = r /\ turno.pc = "marca" =>
    /\ Abierta(op[r]) /\ op[r].tipo = "crear" /\ op[r].enviada /\ hilo[r] = "no"
    /\ rec[r].identidad

Creacion(r) ==
  /\ ~rec[r].identidad => op[r].estado = "no" /\ hilo[r] = "no"
  /\ hilo[r] \in {"no", "vuelo", "perdido", "fallo"} => ct[r] = "ausente"
  /\ hilo[r] = "corre" => ct[r] # "ausente"
  /\ hilo[r] = "vuelo" => Abierta(op[r]) \/ ~op[r].reciente
  /\ PorEnviar(r)
  /\ ~ensayo.cancelada => CreacionAbierta(r)
  /\ baja[r].etapa \in {"vuelo", "corre"} => hilo[r] \notin {"no", "vuelo", "corre"}
  /\ rec[r].ledger = "liberado" /\ ~tarde[r] => ct[r] = "ausente" /\ hilo[r] # "corre"

Mirada ==
  mano.pc = "visto" =>
    /\ Pendientes # {}
    /\ mano.obs = "ausente" /\ ~tarde[Objetivo] => ct[Objetivo] = "ausente" \/ hilo[Objetivo] = "corre"
    /\ mano.obs # "ausente" => hilo[Objetivo] \notin {"no", "vuelo"}

Reserva == Cuenta /\ (\A r \in R : Creacion(r)) /\ Mirada

LEMMA AbiertoSinCierre ==
  ASSUME Reserva, ~ensayo.cancelada
  PROVE  /\ mano.pc = "libre"
         /\ \A r \in R : rec[r].ledger # "liberado" /\ baja[r].etapa = "no"
  BY DEF Reserva, Cuenta, Quieto

LEMMA TreintaReserva ==
  ASSUME Inductivo, Reserva, UNCHANGED <<cierre, mano, baja, tarde>>, NEW r \in R, PasanTreinta(r)
  PROVE  Reserva'
  <1>0. op \in [R -> OpsRecurso] /\ UNCHANGED <<ensayo, rec, turno, ct, hilo>>
    BY DEF Inductivo, TypeOK, TypeOKEnsayo, PasanTreinta
  <1>1. /\ \A s \in R : s # r => op'[s] = op[s]
        /\ op'[r].estado = op[r].estado /\ op'[r].tipo = op[r].tipo /\ op'[r].enviada = op[r].enviada
        /\ ~op'[r].reciente
    BY <1>0 DEF PasanTreinta, OpsRecurso
  <1>2. \A s \in R : /\ Abierta(op'[s]) <=> Abierta(op[s])
                     /\ op'[s].reciente => op[s].reciente
                     /\ op'[s].estado = op[s].estado
                     /\ op'[s].tipo = op[s].tipo /\ op'[s].enviada = op[s].enviada
    BY <1>1 DEF Abierta
  <1>3. Cuenta'
    <2>1. Quieto => Quieto'
      BY <1>0, <1>2 DEF Quieto
    <2>. QED  BY <1>0, <2>1 DEF Reserva, Cuenta
  <1>4. \A s \in R : Creacion(s)'
    BY <1>0, <1>2 DEF Reserva, Creacion, CreacionAbierta, PorEnviar
  <1>5. Mirada'
    BY <1>0 DEF Reserva, Mirada, Pendientes, Objetivo
  <1>. QED  BY <1>3, <1>4, <1>5 DEF Reserva

LEMMA CanceladoReserva ==
  ASSUME Inductivo, Reserva, ensayo.cancelada, SoloMira, UNCHANGED <<cierre, mano, baja, tarde>>
  PROVE  Reserva'
  <1>1. /\ UNCHANGED <<ensayo, op, rec, ct, hilo, mano, baja, tarde>>
        /\ turno'.pc # "marca"
        /\ \/ turno' = SinTurno
           \/ turno.pc \in {"tomada", "marca"} /\ turno'.pc \in {"visto", "envio"}
    BY DEF SoloMira, SinTurno
  <1>2. Quieto => Quieto'
    BY <1>1 DEF Quieto, SinTurno
  <1>3. Cuenta'
    BY <1>1, <1>2 DEF Reserva, Cuenta, SinTurno
  <1>4. \A r \in R : Creacion(r)'
    BY <1>1 DEF Reserva, Creacion, PorEnviar, Abierta
  <1>5. Mirada'
    BY <1>1 DEF Reserva, Mirada, Pendientes, Objetivo
  <1>. QED  BY <1>3, <1>4, <1>5 DEF Reserva

(* Whether the trial is open or closed                                     *)
LEMMA EnviarReserva ==
  ASSUME Inductivo, Reserva, UNCHANGED <<cierre, mano, baja, tarde>>, NEW r \in R, EnviarCreacion(r)
  PROVE  Reserva'
  <1>0. /\ UNCHANGED <<ensayo, op, rec, ct>> /\ turno \in Turnos
        /\ hilo \in [R -> {"no", "vuelo", "corre", "exito", "fallo", "perdido"}]
    BY DEF Inductivo, TypeOK, TypeOKEnsayo, EnviarCreacion
  <1>1. /\ Abierta(op[r]) /\ op[r].tipo = "crear" /\ op[r].enviada /\ hilo[r] = "no"
        /\ rec[r].identidad /\ ~Quieto /\ Creacion(r)
    BY DEF EnviarCreacion, Reserva, Creacion, PorEnviar, Quieto
  <1>2. /\ turno'.pc = "post" /\ turno'.de = r /\ hilo'[r] = "vuelo"
        /\ \A s \in R : s # r => hilo'[s] = hilo[s]
    BY <1>0 DEF EnviarCreacion, Turnos
  <1>3. Cuenta'
    BY <1>0, <1>1, <1>2 DEF Reserva, Cuenta
  <1>4. \A s \in R : s # r => Creacion(s)'
    BY <1>0, <1>2 DEF Reserva, Creacion, CreacionAbierta, PorEnviar, Abierta
  <1>5. Creacion(r)'
    <2>1. baja[r].etapa = "no" /\ rec[r].ledger # "liberado"
      BY <1>1 DEF Reserva, Cuenta
    <2>2. Abierta(op[r])'
      BY <1>0, <1>1
    <2>. QED  BY <1>0, <1>1, <1>2, <2>1, <2>2 DEF Creacion, CreacionAbierta, PorEnviar
  <1>6. Mirada'
    BY <1>0, <1>1 DEF Reserva, Cuenta, Mirada
  <1>. QED  BY <1>3, <1>4, <1>5, <1>6 DEF Reserva

LEMMA DecidirReserva ==
  ASSUME Inductivo, Reserva, ~ensayo.cancelada, Decidir, UNCHANGED <<cierre, mano, baja, tarde>>
  PROVE  Reserva'
  <1>0. /\ mano.pc = "libre" /\ \A r \in R : rec[r].ledger # "liberado" /\ baja[r].etapa = "no"
        /\ ensayo \in Ensayos /\ rec \in [R -> Recursos] /\ op \in [R -> OpsRecurso]
    BY AbiertoSinCierre DEF Inductivo, TypeOK, TypeOKEnsayo
  <1>1. UNCHANGED <<op, ct, hilo, turno>>
    BY DEF Decidir, Iniciar, ConfirmarEntradas, Descartar, Reintentar, Comprobar, Publicar, PasaPlazo,
       Vencer
  <1>2. ensayo'.limpieza # "no_solicitada" => ensayo'.cancelada
    BY <1>0 DEF Decidir, Iniciar, ConfirmarEntradas, Descartar, Reintentar, Comprobar, Publicar,
       PasaPlazo, Vencer, Cerrado, Ensayos, Reserva, Cuenta
  <1>3. CASE ensayo.estado = "no"
    <2>1. PICK plazo \in {"sin", "corre"} : Iniciar(plazo)
      BY <1>3, SoloIniciar DEF Portal, Inductivo
    <2>2. ensayo'.estado # "no" /\ ~ensayo'.cancelada
      BY <1>0, <2>1 DEF Iniciar, Ensayos
    <2>3. \A r \in R : rec'[r].ledger = "reservado" /\ rec'[r].identidad = rec[r].identidad
      BY <1>0, <2>1 DEF Iniciar, Recursos
    <2>4. Cuenta'
      BY <1>0, <1>1, <1>2, <2>2, <2>3 DEF Reserva, Cuenta
    <2>5. \A r \in R : Creacion(r)'
      BY <1>1, <2>2, <2>3 DEF Reserva, Creacion, CreacionAbierta, PorEnviar
    <2>. QED  BY <1>0, <2>4, <2>5 DEF Reserva, Mirada
  <1>4. CASE ensayo.estado # "no"
    <2>1. rec' = rec
      BY <1>4 DEF Decidir, Iniciar, ConfirmarEntradas, Descartar, Reintentar, Comprobar, Publicar,
         PasaPlazo, Vencer
    <2>2. ensayo'.estado # "no"
      BY NumeradaSigue DEF Portal, Inductivo
    <2>4. Cuenta'
      BY <1>0, <1>1, <1>2, <1>4, <2>1, <2>2 DEF Reserva, Cuenta
    <2>5. \A r \in R : Creacion(r)'
      BY <1>1, <2>1 DEF Reserva, Creacion, CreacionAbierta, PorEnviar
    <2>. QED  BY <1>0, <2>4, <2>5 DEF Reserva, Mirada
  <1>. QED  BY <1>3, <1>4

LEMMA TrabajadorNoCierra ==
  ASSUME Inductivo, Reserva, ~ensayo.cancelada, Trabajador, UNCHANGED <<cierre, mano, baja, tarde>>
  PROVE  /\ ~ensayo'.cancelada /\ ensayo'.limpieza = ensayo.limpieza
         /\ ensayo.estado # "no" /\ ensayo'.estado # "no"
         /\ turno'.pc = "libre" => turno'.de = "obra"
         /\ mano'.pc = "libre"
  <1>0. ensayo \in Ensayos /\ turno \in Turnos /\ turno' \in Turnos
    BY TrabajadorTipos DEF Inductivo, TypeOK, TypeOKEnsayo
  <1>1. ensayo.estado # "no"
    BY DEF Inductivo, ObraNumerada, PasanTreinta, Trabajador, Reclamar, Vigente, Avanzar, EnviarObra,
       MarcarObra, PreguntarObra,
       ObraSigue, ObraDesconocida, ObraFallida, ObraLograda, Mirar, Vistas, CrearEspera, CrearHecho,
       Despachar, EnviarCreacion, MarcarBootstrap, Marcada,
       TomarUpid, Preparado, FallaTurno, PerderTurno, PasanTreinta, Dueno
  <1>2. ensayo'.estado # "no"
    BY NumeradaSigue DEF Inductivo, Portal
  <1>3. ensayo'.cancelada = ensayo.cancelada /\ ensayo'.limpieza = ensayo.limpieza
    BY <1>0 DEF Trabajador, Reclamar, Avanzar, EnviarObra, MarcarObra, PreguntarObra, ObraSigue,
       ObraDesconocida,
       ObraFallida, ObraLograda, Resuelto, Construido, Distribuido, Mirar, Vistas, CrearEspera,
       CrearHecho,
       Despachar, EnviarCreacion, MarcarBootstrap, Marcada, TomarUpid, Preparado, FallaTurno,
       PerderTurno, PasanTreinta, Ensayos
  <1>4. turno'.pc = "libre" => turno'.de = "obra"
    <2>1. CASE \E x \in R \cup {"obra"} : Tomar(x)
      BY <2>1 DEF Tomar
    <2>2. CASE turno' = SinTurno
      BY <2>2 DEF SinTurno
    <2>3. CASE \/ MarcarObra \/ EnviarObra \/ PreguntarObra
               \/ \E r \in R : Mirar(r) \/ Despachar(r) \/ EnviarCreacion(r) \/ MarcarBootstrap(r)
      BY <1>0, <2>3 DEF EnviarObra, MarcarObra, PreguntarObra, Mirar, Despachar, EnviarCreacion,
         MarcarBootstrap, Turnos
    <2>4. CASE \E r \in R : PasanTreinta(r)
      BY <2>4 DEF PasanTreinta, Reserva, Cuenta
    <2>. QED  BY <2>1, <2>2, <2>3, <2>4 DEF Trabajador, Reclamar, Avanzar, ObraSigue, ObraDesconocida,
                  ObraFallida, ObraLograda, CrearEspera, CrearHecho, TomarUpid, Preparado, FallaTurno,
                  PerderTurno
  <1>. QED  BY <1>1, <1>2, <1>3, <1>4, AbiertoSinCierre

(* A step of the worker after which each resource is as it should be       *)
LEMMA TrabajadorCuenta ==
  ASSUME Inductivo, Reserva, ~ensayo.cancelada, Trabajador, UNCHANGED <<cierre, mano, baja, tarde>>,
         \A r \in R : rec'[r].ledger \in {rec[r].ledger, "materializado"},
         \A r \in R : Creacion(r)'
  PROVE  Reserva'
  <1>1. Cuenta' /\ Mirada'
    BY TrabajadorNoCierra, AbiertoSinCierre DEF Reserva, Cuenta, Mirada
  <1>. QED  BY <1>1 DEF Reserva

LEMMA SoloTurnoReserva ==
  ASSUME Inductivo, Reserva, ~ensayo.cancelada, Trabajador, UNCHANGED <<cierre, mano, baja, tarde>>,
         UNCHANGED <<op, rec, ct, hilo>>, turno'.pc # "visto",
         turno'.de = "obra" \/ (turno'.de = turno.de /\ turno'.pc # "marca")
  PROVE  Reserva'
  <1>1. \A r \in R : Creacion(r)'
    BY TrabajadorNoCierra, RecursosAssumption DEF Reserva, Creacion, CreacionAbierta, PorEnviar
  <1>. QED  BY <1>1, TrabajadorCuenta

(* An operation that is taken, or found uncertain, stays open.             *)
LEMMA OpAbiertaReserva ==
  ASSUME Inductivo, Reserva, ~ensayo.cancelada, Trabajador, UNCHANGED <<cierre, mano, baja, tarde>>,
         UNCHANGED <<rec, ct, hilo>>, turno'.pc \in {"tomada", "libre"}, NEW r \in R, NEW e \in {"abierta", "incierta"},
         rec[r].identidad, turno'.de \in {r, "obra"},
         op' = [op EXCEPT ![r] = [op[r] EXCEPT !.estado = e]]
  PROVE  Reserva'
  <1>0. op \in [R -> OpsRecurso]
    BY DEF Inductivo, TypeOK, TypeOKEnsayo
  <1>1. /\ \A s \in R : /\ op'[s].tipo = op[s].tipo /\ op'[s].enviada = op[s].enviada
                         /\ op'[s].reciente = op[s].reciente
        /\ Abierta(op'[r]) /\ \A s \in R : s # r => op'[s] = op[s]
    BY <1>0 DEF OpsRecurso, Abierta
  <1>2. \A s \in R : Creacion(s)'
    BY <1>1, TrabajadorNoCierra, RecursosAssumption DEF Reserva, Creacion, CreacionAbierta, PorEnviar
  <1>. QED  BY <1>2, TrabajadorCuenta

LEMMA DistribuidoReserva ==
  ASSUME Inductivo, Reserva, ~ensayo.cancelada, ObraLograda, Distribuido, ~obra.valida,
         UNCHANGED <<cierre, mano, baja, tarde>>
  PROVE  Reserva'
  <1>0. /\ rec \in [R -> Recursos] /\ turno'.pc = "libre" /\ turno'.de = "obra"
        /\ UNCHANGED <<ct, hilo>> /\ Trabajador
    BY DEF Inductivo, TypeOK, TypeOKEnsayo, ObraLograda, SinTurno, Trabajador, Avanzar
  <1>1. \A r \in R : ~Abierta(op[r])
    BY DEF Distribuido
  <1>2. \A r \in R : /\ op'[r] = NuevaOp("crear") /\ rec'[r] = [rec[r] EXCEPT !.identidad = TRUE]
    BY DEF Distribuido
  <1>3. \A r \in R : rec'[r].identidad /\ rec'[r].ledger = rec[r].ledger
    BY <1>0, <1>2, RecursoConTipo
  <1>4. \A r \in R : hilo[r] \in {"no", "exito"}
    BY <1>1 DEF Reserva, Creacion, CreacionAbierta, PorEnviar
  <1>5. \A r \in R : Creacion(r)'
    BY <1>0, <1>3, <1>4, TrabajadorNoCierra, AbiertoSinCierre, RecursosAssumption
    DEF Reserva, Creacion, CreacionAbierta, PorEnviar
  <1>. QED  BY <1>0, <1>3, <1>5, TrabajadorCuenta

LEMMA PreguntasReserva ==
  ASSUME Inductivo, Reserva, ~ensayo.cancelada, UNCHANGED <<cierre, mano, baja, tarde>>,
         \/ MarcarObra \/ EnviarObra \/ PreguntarObra \/ ObraSigue \/ ObraDesconocida \/ ObraFallida
         \/ ObraLograda \/ Reclamar \/ FallaTurno \/ PerderTurno
  PROVE  Reserva'
  <1>0. /\ Trabajador /\ turno \in Turnos
        /\ \A r \in R : Abierta(op[r]) \/ turno.de = r => rec[r].identidad
        /\ \A x, y : Tomar(x) /\ Tomar(y) => x = y
    BY DEF Inductivo, TypeOK, TypeOKEnsayo, Trabajador, Avanzar, Reserva, Creacion, CreacionAbierta,
       Abierta, Tomar
  <1>1. CASE ObraLograda /\ Distribuido /\ ~obra.valida
    BY <1>1, DistribuidoReserva
  <1>2. CASE Reclamar /\ ~Tomar("obra")
    <2>1. PICK r \in R : /\ Abierta(op[r]) /\ Tomar(r)
                         /\ op' = [op EXCEPT ![r] = [op[r] EXCEPT !.estado = "abierta"]]
      BY <1>2 DEF Reclamar
    <2>2. rec[r].identidad
      BY <1>0, <2>1
    <2>3. UNCHANGED <<rec, ct, hilo>>
      BY <1>2 DEF Reclamar
    <2>4. turno'.pc = "tomada" /\ turno'.de = r
      BY <2>1 DEF Tomar
    <2>. QED  BY <1>0, <2>1, <2>2, <2>3, <2>4, OpAbiertaReserva
  <1>3. CASE FallaTurno /\ ~DeObra
    <2>1. turno.de \in R /\ turno' = SinTurno
      BY <1>0, <1>3 DEF DeObra, Turnos, FallaTurno
    <2>2. rec[turno.de].identidad
      BY <1>0, <2>1
    <2>3. op' = [op EXCEPT ![turno.de] = [op[turno.de] EXCEPT !.estado = "incierta"]]
      BY <1>3 DEF FallaTurno
    <2>4. UNCHANGED <<rec, ct, hilo>> /\ turno'.pc = "libre" /\ turno'.de = "obra"
      BY <1>3, <2>1 DEF FallaTurno, SinTurno
    <2>. QED  BY <1>0, <2>1, <2>2, <2>3, <2>4, OpAbiertaReserva
  <1>4. CASE ~(ObraLograda /\ Distribuido /\ ~obra.valida) /\ (Reclamar => Tomar("obra"))
             /\ (FallaTurno => DeObra)
    <2>1. UNCHANGED <<rec, ct, hilo>>
      BY <1>4 DEF EnviarObra, MarcarObra, PreguntarObra, ObraSigue, ObraDesconocida, ObraFallida,
         ObraLograda, Resuelto, Construido, Distribuido, Reclamar, FallaTurno, PerderTurno, PasanTreinta
    <2>2. op' = op
      BY <1>0, <1>4, RecursosAssumption DEF EnviarObra, MarcarObra, PreguntarObra, ObraSigue,
         ObraDesconocida, ObraFallida,
         ObraLograda, Resuelto, Construido, Distribuido, Reclamar, FallaTurno, PerderTurno, PasanTreinta
    <2>3. /\ turno'.pc # "visto"
          /\ turno'.de = "obra" \/ (turno'.de = turno.de /\ turno'.pc # "marca")
      <3>1. Tomar("obra") => turno'.pc = "tomada" /\ turno'.de = "obra"
        BY DEF Tomar
      <3>2. \/ turno' = SinTurno \/ Tomar("obra")
            \/ turno' = [turno EXCEPT !.pc = "marca"] /\ turno.de = "obra"
            \/ turno' = [turno EXCEPT !.pc = "envio"]
            \/ \E o : turno' = [turno EXCEPT !.pc = "respuesta", !.obs = o]
        BY <1>4 DEF EnviarObra, MarcarObra, PreguntarObra, ObraSigue, ObraDesconocida, ObraFallida,
           ObraLograda, Reclamar, FallaTurno, PerderTurno, DeObra
      <3>3. CASE turno' = SinTurno
        BY <3>3 DEF SinTurno
      <3>4. CASE turno' = [turno EXCEPT !.pc = "envio"]
        BY <1>0, <3>4 DEF Turnos
      <3>5. CASE \E o : turno' = [turno EXCEPT !.pc = "respuesta", !.obs = o]
        BY <1>0, <3>5 DEF Turnos
      <3>6. CASE turno' = [turno EXCEPT !.pc = "marca"] /\ turno.de = "obra"
        BY <1>0, <3>6 DEF Turnos
      <3>. QED  BY <3>1, <3>2, <3>3, <3>4, <3>5, <3>6
    <2>. QED  BY <1>0, <2>1, <2>2, <2>3, SoloTurnoReserva
  <1>. QED  BY <1>1, <1>2, <1>3, <1>4

(* EnviarCreacion apart: the worker may send for a closed trial.           *)
LEMMA CrearReserva ==
  ASSUME Inductivo, Reserva, ~ensayo.cancelada, UNCHANGED <<cierre, mano, baja, tarde>>, NEW r \in R,
         Mirar(r) \/ CrearEspera(r) \/ CrearHecho(r) \/ Despachar(r)
         \/ MarcarBootstrap(r) \/ TomarUpid(r) \/ Preparado(r)
  PROVE  Reserva'
  <1>0. /\ Trabajador /\ turno \in Turnos /\ turno.de = r
        /\ op \in [R -> OpsRecurso] /\ rec \in [R -> Recursos] /\ SinTurno.de = "obra" /\ SinTurno.pc = "libre"
        /\ hilo' = hilo /\ ct' = ct
    BY DEF Inductivo, TypeOK, TypeOKEnsayo, Trabajador, Avanzar, Mirar, CrearEspera, CrearHecho,
       Despachar, MarcarBootstrap, TomarUpid, Preparado, Creando, SinTurno
  <1>1. /\ ~ensayo'.cancelada /\ baja' = baja
        /\ \A s \in R : rec[s].ledger # "liberado" /\ baja[s].etapa = "no"
        /\ \A s \in R : s # r => op'[s] = op[s] /\ rec'[s] = rec[s]
        /\ turno'.de \in {r, "obra"}
    BY <1>0, TrabajadorNoCierra, AbiertoSinCierre
    DEF Mirar, CrearEspera, CrearHecho, Despachar, MarcarBootstrap, Marcada, TomarUpid, Preparado,
       Turnos
  <1>2. ASSUME NEW s \in R, s # r
        PROVE  Creacion(s)'
    BY <1>0, <1>1, <1>2, RecursosAssumption DEF Reserva, Creacion, CreacionAbierta, PorEnviar
  <1>3. rec[r].identidad /\ Creacion(r) /\ CreacionAbierta(r)
    BY <1>0 DEF Reserva, Creacion, CreacionAbierta, Abierta
  <1>4. CASE Mirar(r)
    <2>1. /\ UNCHANGED <<op, rec>> /\ turno'.pc = "visto"
          /\ turno'.obs = "ausente" => ct[r] = "ausente" \/ hilo[r] = "corre"
      BY <1>0, <1>4 DEF Mirar, Vistas, Turnos
    <2>2. Creacion(r)'
      BY <1>0, <1>1, <1>3, <2>1, RecursosAssumption DEF Creacion, CreacionAbierta, PorEnviar
    <2>. QED  BY <1>0, <1>2, <2>1, <2>2, TrabajadorCuenta
  <1>5. CASE CrearEspera(r) \/ TomarUpid(r)
    <2>1. /\ rec' = rec /\ turno' = SinTurno
          /\ op'[r].estado = op[r].estado /\ op'[r].tipo = op[r].tipo /\ op'[r].enviada = op[r].enviada
          /\ op'[r].reciente = op[r].reciente
      BY <1>0, <1>5 DEF CrearEspera, TomarUpid, OpsRecurso
    <2>2. Creacion(r)'
      BY <1>0, <1>1, <1>3, <2>1, RecursosAssumption DEF Creacion, CreacionAbierta, PorEnviar, Abierta
    <2>. QED  BY <1>0, <1>2, <2>1, <2>2, TrabajadorCuenta
  <1>6. CASE CrearHecho(r)
    <2>1. /\ turno' = SinTurno /\ hilo[r] \in {"no", "exito"}
          /\ rec'[r].identidad /\ rec'[r].ledger = "materializado"
      BY <1>0, <1>3, <1>6 DEF CrearHecho, Recursos, CreacionAbierta
    <2>2. Creacion(r)'
      BY <1>0, <1>1, <1>3, <2>1, RecursosAssumption DEF Creacion, CreacionAbierta, PorEnviar
    <2>. QED  BY <1>0, <1>1, <1>2, <2>1, <2>2, TrabajadorCuenta
  <1>7. CASE Despachar(r) \/ MarcarBootstrap(r)
    <2>0. PICK si \in BOOLEAN : si
      OBVIOUS
    <2>1. /\ rec' = rec /\ op' = [op EXCEPT ![r] = [op[r] EXCEPT !.enviada = si, !.reciente = si]]
      BY <1>7, <2>0 DEF Despachar, MarcarBootstrap, Marcada
    <2>2. op'[r].enviada /\ op'[r].tipo = op[r].tipo /\ op'[r].estado = op[r].estado
      BY <1>0, <2>0, <2>1 DEF OpsRecurso
    <2>3. Abierta(op'[r]) /\ Abierta(op[r])
      BY <1>0, <1>3, <2>2 DEF Abierta, CreacionAbierta
    <2>4. CASE Despachar(r)
      <3>1. hilo[r] = "no" /\ op[r].tipo = "crear" /\ turno'.pc = "marca" /\ turno'.de = r
        BY <1>0, <1>3, <2>4 DEF Despachar, Despachables, Creando, CreacionAbierta, Turnos
      <3>2. Creacion(r)'
        BY <1>0, <1>1, <1>3, <2>1, <2>2, <2>3, <3>1 DEF Creacion, CreacionAbierta, PorEnviar
      <3>. QED  BY <1>0, <1>2, <2>1, <3>2, TrabajadorCuenta
    <2>5. CASE MarcarBootstrap(r)
      <3>1. hilo[r] \in {"no", "exito"} /\ turno'.pc = "prepara"
        BY <1>0, <1>3, <2>5 DEF MarcarBootstrap, CreacionAbierta, Turnos
      <3>2. Creacion(r)'
        BY <1>0, <1>1, <1>3, <2>1, <2>2, <2>3, <3>1 DEF Creacion, CreacionAbierta, PorEnviar
      <3>. QED  BY <1>0, <1>2, <2>1, <3>2, TrabajadorCuenta
    <2>. QED  BY <1>7, <2>4, <2>5
  <1>8. CASE Preparado(r)
    <2>1. /\ turno' = SinTurno /\ hilo[r] \in {"no", "exito"}
          /\ rec'[r].identidad /\ rec'[r].ledger = rec[r].ledger
      BY <1>0, <1>3, <1>8 DEF Preparado, Recursos, CreacionAbierta
    <2>2. Creacion(r)'
      BY <1>0, <1>1, <1>3, <2>1, RecursosAssumption DEF Creacion, CreacionAbierta, PorEnviar
    <2>. QED  BY <1>0, <1>1, <1>2, <2>1, <2>2, TrabajadorCuenta
  <1>. QED  BY <1>4, <1>5, <1>6, <1>7, <1>8

LEMMA ObjetivoPendiente ==
  ASSUME Pendientes # {}
  PROVE  Objetivo \in R
  BY DEF Objetivo, Pendientes

LEMMA TomarReserva ==
  ASSUME Inductivo, Reserva, TomarLimpieza, UNCHANGED tarde
  PROVE  Reserva'
  <1>0. /\ UNCHANGED <<turno, ct, hilo, rec, baja>> /\ ensayo.cancelada
        /\ ensayo'.cancelada = ensayo.cancelada /\ ensayo'.estado = ensayo.estado
        /\ op \in [R -> OpsRecurso]
    BY LimpiezaSobreEnsayo DEF Limpieza, TomarLimpieza, Reserva, Cuenta, Inductivo, TypeOK, TypeOKEnsayo
  <1>1. \A r \in R : op'[r] = [op[r] EXCEPT !.estado = IF Abierta(op[r]) THEN "fallida" ELSE @]
    BY DEF TomarLimpieza
  <1>2. \A r \in R : /\ op'[r].estado = IF Abierta(op[r]) THEN "fallida" ELSE op[r].estado
                     /\ op'[r].reciente = op[r].reciente
    BY <1>0, <1>1 DEF OpsRecurso
  <1>3. \A r \in R : ~Abierta(op'[r]) /\ (hilo[r] = "vuelo" => ~op'[r].reciente)
    <2>1. \A r \in R : hilo[r] = "vuelo" => ~op[r].reciente
      BY DEF TomarLimpieza, EfectosQuietos, Reserva, Creacion
    <2>. QED  BY <1>2, <2>1 DEF Abierta
  <1>4. Quieto' /\ mano'.pc = "tomada" /\ turno.pc = "libre"
    BY <1>0, <1>3 DEF Quieto, TomarLimpieza, EfectosQuietos, Inductivo, TypeOK
  <1>5. Cuenta' /\ Mirada'
    BY <1>0, <1>4 DEF Reserva, Cuenta, Mirada
  <1>6. \A r \in R : Creacion(r)'
    BY <1>0, <1>2, <1>3, <1>4 DEF Reserva, Creacion, PorEnviar, Abierta
  <1>. QED  BY <1>5, <1>6 DEF Reserva

(* The rest of the cleanup runs while everything else is quiet.            *)
LEMMA LimpiarSinMas ==
  ASSUME Inductivo, Reserva, Quieto, Limpieza, ~TomarLimpieza
  PROVE  /\ Quieto' /\ UNCHANGED <<turno, ct, hilo, op>> /\ ensayo'.estado = ensayo.estado
         /\ ensayo.cancelada /\ ensayo'.cancelada /\ turno.pc = "libre"
  BY LimpiezaSobreEnsayo, LimpiezaSobreFilas DEF Inductivo, Quieto

LEMMA SoltarReserva ==
  ASSUME Inductivo, Reserva, SoltarSinIdentidad \/ SoltarAusente, UNCHANGED tarde
  PROVE  Reserva'
  <1>0. Quieto /\ Limpieza /\ ~TomarLimpieza /\ baja' = baja /\ mano' = SinMano /\ rec' = Liberado(Objetivo)
    BY DEF Reserva, Cuenta, SoltarSinIdentidad, SoltarAusente, PorRetirar, Limpieza, Limpiar,
       TomarLimpieza
  <1>1. Objetivo \in R /\ ensayo.estado # "no"
    <2>1. Pendientes # {}
      BY DEF SoltarSinIdentidad, SoltarAusente, PorRetirar, Reserva, Mirada
    <2>. QED  BY <1>0, <2>1, ObjetivoPendiente DEF Quieto, Inductivo, GenAcotada
  <1>2. /\ Quieto' /\ UNCHANGED <<turno, ct, hilo, op>> /\ ensayo'.estado = ensayo.estado
        /\ ensayo.cancelada /\ ensayo'.cancelada /\ turno.pc = "libre"
    BY <1>0, LimpiarSinMas
  <1>3. \A s \in R : /\ rec'[s].identidad = rec[s].identidad
                     /\ rec'[s].ledger = IF s = Objetivo THEN "liberado" ELSE rec[s].ledger
    BY <1>0, LiberadoConTipo DEF Inductivo
  <1>4. ~tarde[Objetivo] => ct[Objetivo] = "ausente" /\ hilo[Objetivo] # "corre"
    BY <1>1 DEF SoltarSinIdentidad, SoltarAusente, SinCreacion, Reserva, Creacion, Mirada
  <1>5. Cuenta'
    BY <1>0, <1>1, <1>2, <1>3 DEF Reserva, Cuenta, SinMano
  <1>6. \A r \in R : Creacion(r)'
    BY <1>0, <1>2, <1>3, <1>4 DEF Reserva, Creacion, PorEnviar, Abierta
  <1>. QED  BY <1>0, <1>5, <1>6 DEF Reserva, Mirada, SinMano

LEMMA EnviarBajaReserva ==
  ASSUME Inductivo, Reserva, EnviarBaja, UNCHANGED tarde
  PROVE  Reserva'
  <1>0. Quieto /\ Limpieza /\ ~TomarLimpieza /\ UNCHANGED <<rec, ensayo>> /\ mano'.pc \in {"post", "rechazado"}
    BY DEF Reserva, Cuenta, EnviarBaja, SigueAhi, Limpieza, Limpiar, TomarLimpieza, varsEnsayo,
       Inductivo, TypeOK
  <1>1. /\ Quieto' /\ UNCHANGED <<turno, ct, hilo, op>> /\ ensayo.cancelada /\ turno.pc = "libre"
    BY <1>0, LimpiarSinMas
  <1>2. \A r \in R : baja'[r] = baja[r] \/ hilo[r] \notin {"no", "vuelo", "corre"}
    BY DEF EnviarBaja, SigueAhi, Reserva, Mirada, Inductivo, TypeOK
  <1>3. \A r \in R : Creacion(r)'
    BY <1>0, <1>1, <1>2 DEF Reserva, Creacion, PorEnviar, Abierta
  <1>. QED  BY <1>0, <1>1, <1>3 DEF Reserva, Cuenta, Mirada

LEMMA RestoReserva ==
  ASSUME Inductivo, Reserva, Limpieza, UNCHANGED tarde,
         ~TomarLimpieza, ~SoltarSinIdentidad, ~SoltarAusente, ~EnviarBaja
  PROVE  Reserva'
  <1>0. UNCHANGED <<rec, baja, turno, ct, hilo, op>>
    BY LimpiezaSobreEnsayo, LimpiezaSobreFilas DEF Inductivo, Limpieza, Limpiar, Cerrar, AnotarCierre,
       MirarCierre, BajaEspera, BajaHecha, TomarBaja, Vaciar, AnotarLimpieza, FallaLimpieza,
       PerderLimpieza, ReintentarLimpieza
  <1>1. ensayo'.cancelada = ensayo.cancelada /\ ensayo'.estado = ensayo.estado
    BY LimpiezaSobreEnsayo DEF Inductivo
  <1>2. \A r \in R : Creacion(r)'
    BY <1>0, <1>1 DEF Reserva, Creacion, CreacionAbierta, PorEnviar, Abierta
  <1>3. CASE ReintentarLimpieza
    <2>1. mano' = mano /\ ensayo.limpieza = "fallida"
      BY <1>3 DEF ReintentarLimpieza
    <2>2. Cuenta' /\ Mirada'
      BY <1>0, <1>1, <2>1 DEF Reserva, Cuenta, Mirada, Quieto, Abierta, Pendientes, Objetivo
    <2>. QED  BY <1>2, <2>2 DEF Reserva
  <1>4. CASE ~ReintentarLimpieza
    <2>1. mano.pc # "libre"
      BY <1>4 DEF Limpieza, Limpiar, Cerrar, AnotarCierre, MirarCierre, BajaEspera, BajaHecha,
         TomarBaja, Vaciar, AnotarLimpieza, FallaLimpieza, PerderLimpieza, SigueAhi, PorRetirar
    <2>2. Quieto /\ Quieto'
      BY <1>0, <1>1, <2>1 DEF Reserva, Cuenta, Quieto, Abierta
    <2>3. Cuenta'
      BY <1>0, <1>1, <2>2 DEF Reserva, Cuenta, Quieto
    <2>4. Mirada'
      <3>1. CASE MirarCierre
        <4>1. Pendientes # {} /\ Objetivo \in R
          BY <3>1, ObjetivoPendiente DEF MirarCierre, PorRetirar
        <4>2. PICK v \in Vistas(Objetivo) : mano' = [pc |-> "visto", obs |-> v]
          BY <3>1 DEF MirarCierre
        <4>3. /\ v = "ausente" => ct[Objetivo] = "ausente" \/ hilo[Objetivo] = "corre"
              /\ v # "ausente" => ct[Objetivo] # "ausente"
          BY <4>2 DEF Vistas
        <4>4. ct[Objetivo] # "ausente" => hilo[Objetivo] \notin {"no", "vuelo"}
          BY <4>1 DEF Reserva, Creacion
        <4>5. Pendientes' = Pendientes /\ Objetivo' = Objetivo
          BY <1>0 DEF Pendientes, Objetivo
        <4>. QED  BY <1>0, <4>1, <4>2, <4>3, <4>4, <4>5 DEF Mirada
      <3>2. CASE ~MirarCierre
        <4>1. mano'.pc # "visto"
          BY <1>4, <3>2 DEF Limpieza, Limpiar, Cerrar, AnotarCierre, BajaEspera, BajaHecha,
             TomarBaja, Vaciar, AnotarLimpieza, FallaLimpieza, PerderLimpieza, SinMano, Inductivo,
             TypeOK
        <4>. QED  BY <4>1 DEF Mirada
      <3>. QED  BY <3>1, <3>2
    <2>. QED  BY <1>2, <2>3, <2>4 DEF Reserva
  <1>. QED  BY <1>3, <1>4

LEMMA ProxmoxReserva ==
  ASSUME Inductivo, Reserva, Proxmox
  PROVE  Reserva'
  <1>0. /\ UNCHANGED <<ensayo, op, rec, turno, mano>>
        /\ hilo \in [R -> {"no", "vuelo", "corre", "exito", "fallo", "perdido"}]
        /\ ct \in [R -> {"ausente", "detenido", "corriendo"}]
        /\ baja \in [R -> [accion : {"parar", "borrar"}, etapa : {"no", "vuelo", "corre", "exito", "fallo"}]]
        /\ tarde \in [R -> BOOLEAN]
    BY DEF Proxmox, Inductivo, TypeOK, TypeOKEnsayo
  <1>1. PICK r \in R : \/ SubeCreacion(r) \/ SubeBaja(r) \/ SePierdePeticion(r) \/ SeApaga(r)
                       \/ \E e \in {"exito", "fallo"} : CreacionTermina(r, e) \/ BajaTermina(r, e)
    BY DEF Proxmox
  <1>2. \A s \in R : s # r => /\ hilo'[s] = hilo[s] /\ ct'[s] = ct[s] /\ baja'[s] = baja[s]
                              /\ tarde'[s] = tarde[s]
    BY <1>0, <1>1 DEF SubeCreacion, SubeBaja, SePierdePeticion, SeApaga, CreacionTermina, BajaTermina
  <1>3. /\ hilo'[r] = "vuelo" => hilo[r] = "vuelo"
        /\ hilo'[r] = "no" <=> hilo[r] = "no"
        /\ baja[r].etapa = "no" => baja'[r].etapa = "no"
        /\ tarde[r] => tarde'[r]
    BY <1>0, <1>1 DEF SubeCreacion, SubeBaja, SePierdePeticion, SeApaga, CreacionTermina, BajaTermina
  <1>4. Quieto => Quieto'
    BY <1>0, <1>2, <1>3 DEF Quieto, Abierta
  <1>5. Cuenta'
    BY <1>0, <1>2, <1>3, <1>4 DEF Reserva, Cuenta
  <1>6. Mirada'
    <2>1. SUFFICES ASSUME mano.pc = "visto"
                   PROVE  Mirada'
      BY <1>0 DEF Mirada
    <2>2. /\ Pendientes # {} /\ Objetivo \in R
          /\ mano.obs = "ausente" /\ ~tarde[Objetivo] => ct[Objetivo] = "ausente" \/ hilo[Objetivo] = "corre"
          /\ mano.obs # "ausente" => hilo[Objetivo] \notin {"no", "vuelo"}
      BY <2>1, ObjetivoPendiente DEF Reserva, Mirada
    <2>3. Pendientes' = Pendientes /\ Objetivo' = Objetivo
      BY <1>0 DEF Pendientes, Objetivo
    <2>4. ASSUME r = Objetivo, mano.obs = "ausente", ~tarde'[r]
          PROVE  ct'[r] = "ausente" \/ hilo'[r] = "corre"
      <3>1. ~tarde[r] /\ (ct[r] = "ausente" \/ hilo[r] = "corre")
        BY <1>3, <2>2, <2>4
      <3>2. baja[r].etapa = "corre" => hilo[r] # "corre"
        BY DEF Reserva, Creacion
      <3>3. CASE SubeCreacion(r) \/ SubeBaja(r) \/ SePierdePeticion(r) \/ SeApaga(r)
        BY <1>0, <3>1, <3>3 DEF SubeCreacion, SubeBaja, SePierdePeticion, SeApaga
      <3>4. ASSUME NEW e \in {"exito", "fallo"}, CreacionTermina(r, e)
            PROVE  ct'[r] = "ausente"
        <4>1. NoVisto(r)
          BY <2>1, <2>4 DEF NoVisto
        <4>2. e # "exito"
          BY <1>0, <2>4, <3>4, <4>1 DEF CreacionTermina
        <4>. QED  BY <1>0, <3>4, <4>2 DEF CreacionTermina
      <3>5. ASSUME NEW e \in {"exito", "fallo"}, BajaTermina(r, e)
            PROVE  ct'[r] = "ausente"
        BY <1>0, <3>1, <3>2, <3>5 DEF BajaTermina
      <3>. QED  BY <1>1, <3>3, <3>4, <3>5
    <2>. QED  BY <1>0, <1>2, <1>3, <2>2, <2>3, <2>4 DEF Mirada
  <1>7. \A s \in R : s # r => Creacion(s)'
    BY <1>0, <1>2 DEF Reserva, Creacion, CreacionAbierta, PorEnviar, Abierta
  <1>8. Creacion(r)'
    <2>0. /\ Creacion(r) /\ (rec[r].ledger = "liberado" => ~Abierta(op[r]) /\ (hilo[r] = "vuelo" => ~op[r].reciente))
          /\ ~ensayo.cancelada => baja[r].etapa = "no"
      BY DEF Reserva, Cuenta, Quieto
    <2>1. CASE SubeCreacion(r)
      <3>1. /\ hilo[r] = "vuelo" /\ hilo'[r] = "corre" /\ ct'[r] = "detenido" /\ baja' = baja
            /\ tarde[r] \/ ~(op[r].reciente \/ Abierta(op[r])) => tarde'[r]
        BY <1>0, <2>1 DEF SubeCreacion
      <3>. QED  BY <1>0, <2>0, <3>1 DEF Creacion, CreacionAbierta, PorEnviar, Abierta
    <2>2. CASE SubeBaja(r)
      BY <1>0, <2>0, <2>2 DEF SubeBaja, Creacion, CreacionAbierta, PorEnviar, Abierta
    <2>3. CASE SePierdePeticion(r)
      BY <1>0, <2>0, <2>3 DEF SePierdePeticion, Creacion, CreacionAbierta, PorEnviar, Abierta
    <2>4. CASE SeApaga(r)
      BY <1>0, <2>0, <2>4 DEF SeApaga, Creacion, CreacionAbierta, PorEnviar, Abierta
    <2>5. ASSUME NEW e \in {"exito", "fallo"}, CreacionTermina(r, e)
          PROVE  Creacion(r)'
      <3>1. /\ hilo[r] = "corre" /\ hilo'[r] = e /\ baja' = baja /\ (tarde[r] => tarde'[r])
            /\ ct'[r] = IF e = "exito" THEN "corriendo" ELSE "ausente"
        BY <1>0, <1>3, <2>5 DEF CreacionTermina
      <3>. QED  BY <1>0, <2>0, <3>1 DEF Creacion, CreacionAbierta, PorEnviar, Abierta
    <2>6. ASSUME NEW e \in {"exito", "fallo"}, BajaTermina(r, e)
          PROVE  Creacion(r)'
      BY <1>0, <2>0, <2>6 DEF BajaTermina, Creacion, CreacionAbierta, PorEnviar, Abierta
    <2>. QED  BY <1>1, <2>1, <2>2, <2>3, <2>4, <2>5, <2>6
  <1>. QED  BY <1>5, <1>6, <1>7, <1>8 DEF Reserva

LEMMA InicioReserva ==
  ASSUME Init
  PROVE  Reserva
  BY RecursosAssumption DEF Init, InitEnsayo, InitCierre, SinTurno, SinMano, Reserva, Cuenta, Creacion,
     CreacionAbierta, PorEnviar, Mirada, Quieto, Abierta, NuevaOp

LEMMA PasoReserva ==
  ASSUME Inductivo, Reserva, [Next]_vars
  PROVE  Reserva'
  <1>1. CASE Portal /\ UNCHANGED <<cierre, mano, baja, tarde>>
    <2>1. CASE \E r \in R : EnviarCreacion(r) \/ PasanTreinta(r)
      BY <1>1, <2>1, EnviarReserva, TreintaReserva
    <2>2. CASE ensayo.cancelada /\ ~\E r \in R : EnviarCreacion(r) \/ PasanTreinta(r)
      BY <1>1, <2>2, CanceladoSoloMira, CanceladoReserva
    <2>3. CASE ~ensayo.cancelada /\ ~\E r \in R : EnviarCreacion(r) \/ PasanTreinta(r)
      BY <1>1, <2>3, DecidirReserva, PreguntasReserva, CrearReserva DEF Portal, Trabajador, Avanzar
    <2>. QED  BY <2>1, <2>2, <2>3
  <1>2. CASE Limpieza /\ UNCHANGED tarde
    BY <1>2, TomarReserva, SoltarReserva, EnviarBajaReserva, RestoReserva
  <1>3. CASE UNCHANGED <<varsEnsayo, cierre, mano, baja, tarde>>
    BY <1>3 DEF varsEnsayo, Reserva, Cuenta, Creacion, CreacionAbierta, PorEnviar, Mirada, Quieto,
       Abierta, Pendientes, Objetivo
  <1>4. CASE UNCHANGED vars
    BY <1>3, <1>4 DEF vars
  <1>. QED  BY <1>1, <1>2, <1>3, <1>4, ProxmoxReserva DEF Next

LEMMA ReservaSiempre == Spec => []Reserva
  <1>1. Init => Reserva
    BY InicioReserva
  <1>2. Inductivo /\ Reserva /\ [Next]_vars => Reserva'
    BY PasoReserva
  <1>. QED  BY <1>1, <1>2, InductivoSiempre, PTL DEF Spec

(* The capacity of a resource is freed only when nothing of it is left, or *)
(* can still appear that the cleanup could know of.                        *)
THEOREM CapacidadEnsayoSiempre == Spec => []CapacidadEnsayo
  <1>1. Inductivo /\ Reserva => CapacidadEnsayo
    <2>. SUFFICES ASSUME Inductivo, Reserva, NEW r \in R, rec[r].ledger \in {"no", "liberado"}, ~tarde[r]
                  PROVE  /\ ct[r] = "ausente" /\ hilo[r] # "corre"
                         /\ hilo[r] = "vuelo" => ~op[r].reciente
                         /\ ~Abierta(op[r]) /\ turno.de # r
      BY DEF CapacidadEnsayo
    <2>1. CASE rec[r].ledger = "no"
      <3>1. ensayo.estado = "no" /\ turno.pc = "libre"
        BY <2>1 DEF Reserva, Cuenta, Inductivo, ObraNumerada
      <3>2. ~rec[r].identidad /\ turno.de = "obra"
        BY <3>1 DEF Reserva, Cuenta
      <3>. QED  BY <3>2, RecursosAssumption DEF Reserva, Creacion, Abierta
    <2>2. CASE rec[r].ledger = "liberado"
      <3>1. Quieto
        BY <2>2 DEF Reserva, Cuenta
      <3>2. turno.de = "obra"
        BY <3>1 DEF Reserva, Cuenta, Quieto
      <3>. QED  BY <2>2, <3>1, <3>2, RecursosAssumption DEF Reserva, Creacion, Quieto
    <2>. QED  BY <2>1, <2>2
  <1>. QED  BY <1>1, InductivoSiempre, ReservaSiempre, PTL
----------------------------------------------------------------------------
(* The promise seen from the ledger and the resource of r                  *)
ReservaDe(r) == IF rec[r].ledger \in {"no", "liberado"} THEN "libre" ELSE "retenida"

Cumple(r) == Promesa(r)!Next \/ UNCHANGED Promesa(r)!vars

LEMMA PromesaPorPartes ==
  ASSUME NEW r \in R
  PROVE  /\ Promesa(r)!Init <=> ReservaDe(r) = "libre" /\ Recurso(r) = "nunca"
         /\ UNCHANGED <<ReservaDe(r), Recurso(r)>> => Cumple(r)
         /\ ReservaDe(r) = "libre" /\ ReservaDe(r)' = "retenida" /\ Recurso(r) = "nunca"
              /\ Recurso(r)' = Recurso(r) => Cumple(r)
         /\ ReservaDe(r) = "retenida" /\ ReservaDe(r)' = "libre" /\ Recurso(r) \in {"nunca", "ya_no"}
              /\ Recurso(r)' = Recurso(r) => Cumple(r)
         /\ ReservaDe(r) = "retenida" /\ ReservaDe(r)' = ReservaDe(r) /\ Recurso(r) = "nunca"
              /\ Recurso(r)' = "en_camino" => Cumple(r)
         /\ ReservaDe(r)' = ReservaDe(r) /\ Recurso(r) = "en_camino" /\ Recurso(r)' \in {"existe", "ya_no"}
              => Cumple(r)
         /\ ReservaDe(r)' = ReservaDe(r) /\ Recurso(r) = "existe" /\ Recurso(r)' = "ya_no" => Cumple(r)
  BY DEF Cumple, ReservaDe, Promesa!Init, Promesa!Next, Promesa!vars, Promesa!Retener, Promesa!Enviar,
     Promesa!Nacer, Promesa!Fracasar, Promesa!Desaparecer, Promesa!Liberar

LEMMA TipoRecurso ==
  ASSUME NEW r \in R
  PROVE  /\ ct[r] # "ausente" => Recurso(r) = "existe"
         /\ ct[r] = "ausente" /\ hilo[r] = "no" => Recurso(r) = "nunca"
         /\ ct[r] = "ausente" /\ hilo[r] = "vuelo" /\ Abierta(op[r]) => Recurso(r) = "en_camino"
         /\ ct[r] = "ausente" /\ hilo[r] = "vuelo" /\ ~Abierta(op[r]) => Recurso(r) = "ya_no"
         /\ ct[r] = "ausente" /\ hilo[r] \notin {"no", "vuelo", "corre"} => Recurso(r) = "ya_no"
  BY DEF Recurso, EnCamino

LEMMA TipoRecursoDespues ==
  ASSUME NEW r \in R
  PROVE  /\ ct'[r] # "ausente" => Recurso(r)' = "existe"
         /\ ct'[r] = "ausente" /\ hilo'[r] = "vuelo" /\ Abierta(op'[r]) => Recurso(r)' = "en_camino"
         /\ ct'[r] = "ausente" /\ hilo'[r] = "vuelo" /\ ~Abierta(op'[r]) => Recurso(r)' = "ya_no"
         /\ ct'[r] = "ausente" /\ hilo'[r] \notin {"no", "vuelo", "corre"} => Recurso(r)' = "ya_no"
         /\ /\ ct'[r] = ct[r] /\ hilo'[r] = hilo[r]
            /\ hilo[r] = "vuelo" => (Abierta(op'[r]) <=> Abierta(op[r]))
            => Recurso(r)' = Recurso(r)
  BY DEF Recurso, EnCamino

(* The worker sends the creation of a resource whose capacity is retained. *)
LEMMA EnviarCumple ==
  ASSUME Inductivo, Reserva, NEW s \in R, EnviarCreacion(s), NEW r \in R
  PROVE  Cumple(r)
  <1>0. /\ UNCHANGED <<rec, ct, op>> /\ hilo' = [hilo EXCEPT ![s] = "vuelo"]
        /\ hilo \in [R -> {"no", "vuelo", "corre", "exito", "fallo", "perdido"}]
    BY DEF Inductivo, TypeOK, TypeOKEnsayo, EnviarCreacion
  <1>1. Abierta(op[s]) /\ hilo[s] = "no" /\ ct[s] = "ausente" /\ rec[s].ledger \notin {"no", "liberado"}
    BY DEF EnviarCreacion, Reserva, Cuenta, Quieto, Creacion, PorEnviar
  <1>2. CASE s = r
    <2>1. Recurso(r) = "nunca" /\ Recurso(r)' = "en_camino" /\ ReservaDe(r) = "retenida"
          /\ ReservaDe(r)' = ReservaDe(r)
      BY <1>0, <1>1, <1>2, TipoRecurso, TipoRecursoDespues DEF ReservaDe
    <2>. QED  BY <2>1, PromesaPorPartes
  <1>3. CASE s # r
    <2>1. Recurso(r)' = Recurso(r) /\ ReservaDe(r)' = ReservaDe(r)
      BY <1>0, <1>3, TipoRecursoDespues DEF ReservaDe
    <2>. QED  BY <2>1, PromesaPorPartes
  <1>. QED  BY <1>2, <1>3

(* Whatever else the worker does, what is on its way stays so.             *)
LEMMA TrabajadorEnCamino ==
  ASSUME Inductivo, Reserva, Trabajador, ~\E s \in R : EnviarCreacion(s), NEW r \in R
  PROVE  Recurso(r)' = Recurso(r)
  <1>0. op \in [R -> OpsRecurso] /\ turno \in Turnos /\ Creacion(r)
    BY DEF Inductivo, TypeOK, TypeOKEnsayo, Reserva
  <1>1. UNCHANGED <<ct, hilo>>
    BY DEF Trabajador, Avanzar, Reclamar, EnviarObra, MarcarObra, PreguntarObra, ObraSigue,
       ObraDesconocida, ObraFallida, ObraLograda, Mirar, CrearEspera, CrearHecho, Despachar,
       MarcarBootstrap, TomarUpid, Preparado, FallaTurno, PerderTurno, PasanTreinta
  <1>2. CASE hilo[r] # "vuelo"
    BY <1>1, <1>2, TipoRecursoDespues
  <1>3. CASE hilo[r] = "vuelo" /\ ensayo.cancelada
    <2>1. SoloMira \/ \E s \in R : PasanTreinta(s)
      BY <1>3, CanceladoSoloMira DEF Portal
    <2>2. op'[r].estado = op[r].estado
      BY <1>0, <2>1 DEF SoloMira, PasanTreinta, OpsRecurso
    <2>. QED  BY <1>1, <2>2, TipoRecursoDespues DEF Abierta
  <1>4. CASE hilo[r] = "vuelo" /\ ~ensayo.cancelada
    <2>1. Abierta(op[r]) /\ op[r].tipo = "crear" /\ op[r].enviada
      BY <1>0, <1>4 DEF Creacion, CreacionAbierta
    <2>2. ASSUME NEW s \in R,
                 \/ Mirar(s) \/ CrearEspera(s) \/ CrearHecho(s) \/ Despachar(s) \/ TomarUpid(s)
                 \/ MarcarBootstrap(s) \/ Preparado(s) \/ PasanTreinta(s)
          PROVE  Abierta(op'[r])
      <3>1. CASE s # r
        <4>1. op'[r] = op[r]
          BY <1>0, <2>2, <3>1 DEF Mirar, CrearEspera, CrearHecho, Despachar, MarcarBootstrap, Marcada,
             TomarUpid, Preparado, PasanTreinta
        <4>. QED  BY <2>1, <4>1
      <3>2. CASE s = r
        <4>1. ~CrearHecho(s) /\ ~Preparado(s)
          BY <1>4, <2>1, <3>2 DEF CrearHecho, Preparado
        <4>2. op'[r].estado = op[r].estado
          <5>1. \/ op' = op
                \/ \E b : op' = [op EXCEPT ![r] = [op[r] EXCEPT !.upid = b]]
                \/ \E b : op' = [op EXCEPT ![r] = [op[r] EXCEPT !.reciente = b]]
                \/ \E b : op' = [op EXCEPT ![r] = [op[r] EXCEPT !.enviada = b, !.reciente = b]]
            <6>1. PICK si, no \in BOOLEAN : si /\ ~no
              OBVIOUS
            <6>2. CASE CrearEspera(s)
              <7>. DEFINE b == op[r].upid \/ TareaVista(r)
              <7>1. op' = [op EXCEPT ![r] = [op[r] EXCEPT !.upid = b]]
                BY <3>2, <6>2 DEF CrearEspera
              <7>. HIDE DEF b
              <7>. QED  BY <7>1
            <6>3. CASE Mirar(s)
              BY <6>3 DEF Mirar
            <6>4. CASE TomarUpid(s)
              <7>1. op' = [op EXCEPT ![r] = [op[r] EXCEPT !.upid = si]]
                BY <3>2, <6>1, <6>4 DEF TomarUpid
              <7>. QED  BY <7>1
            <6>5. CASE PasanTreinta(s)
              <7>1. op' = [op EXCEPT ![r] = [op[r] EXCEPT !.reciente = no]]
                BY <3>2, <6>1, <6>5 DEF PasanTreinta
              <7>. QED  BY <7>1
            <6>6. CASE Despachar(s) \/ MarcarBootstrap(s)
              <7>1. op' = [op EXCEPT ![r] = [op[r] EXCEPT !.enviada = si, !.reciente = si]]
                BY <3>2, <6>1, <6>6 DEF Despachar, MarcarBootstrap, Marcada
              <7>. QED  BY <7>1
            <6>. QED  BY <2>2, <4>1, <6>2, <6>3, <6>4, <6>5, <6>6
          <5>. QED  BY <1>0, <5>1 DEF OpsRecurso
        <4>. QED  BY <2>1, <4>2 DEF Abierta
      <3>. QED  BY <3>1, <3>2
    <2>3. Reclamar \/ FallaTurno => Abierta(op'[r])
      <3>1. SUFFICES ASSUME Reclamar \/ FallaTurno, op' # op
                     PROVE  Abierta(op'[r])
        BY <2>1
      <3>2. PICK s \in R, e \in {"abierta", "incierta"} :
              op' = [op EXCEPT ![s] = [op[s] EXCEPT !.estado = e]]
        BY <1>0, <3>1 DEF Reclamar, FallaTurno, DeObra, Turnos
      <3>3. [op[r] EXCEPT !.estado = e].estado = e
        BY <1>0 DEF OpsRecurso
      <3>. QED  BY <1>0, <2>1, <3>2, <3>3 DEF Abierta
    <2>4. ObraLograda => Abierta(op'[r])
      <3>1. Distribuido => obra.valida /\ op' = op
        BY <2>1 DEF Distribuido
      <3>. QED  BY <2>1, <3>1 DEF ObraLograda, Resuelto, Construido
    <2>5. Abierta(op'[r])
      <3>1. MarcarObra \/ EnviarObra \/ PreguntarObra \/ ObraSigue \/ ObraDesconocida \/ ObraFallida
              \/ PerderTurno => op' = op
        BY DEF EnviarObra, MarcarObra, PreguntarObra, ObraSigue, ObraDesconocida, ObraFallida,
           PerderTurno
      <3>. QED  BY <2>1, <2>2, <2>3, <2>4, <3>1 DEF Trabajador, Avanzar
    <2>. QED  BY <1>1, <2>1, <2>5, TipoRecursoDespues
  <1>. QED  BY <1>2, <1>3, <1>4

LEMMA PortalCumple ==
  ASSUME Inductivo, Reserva, Portal, NEW r \in R
  PROVE  Cumple(r)
  <1>0. rec \in [R -> Recursos]
    BY DEF Inductivo, TypeOK, TypeOKEnsayo
  <1>1. CASE \E s \in R : EnviarCreacion(s)
    BY <1>1, EnviarCumple
  <1>2. CASE Trabajador /\ ~\E s \in R : EnviarCreacion(s)
    <2>1. Recurso(r)' = Recurso(r)
      BY <1>2, TrabajadorEnCamino
    <2>2. CASE rec' = rec
      BY <2>1, <2>2, PromesaPorPartes DEF ReservaDe
    <2>3. CASE rec' # rec
      <3>1. ~ensayo.cancelada /\ ensayo.estado # "no"
        <4>1. ~ensayo.cancelada
          BY <1>2, <2>3, CanceladoSoloMira DEF Portal, SoloMira, PasanTreinta
        <4>2. Dueno
          BY <1>2, <2>3 DEF Trabajador, Avanzar, Reclamar, EnviarObra, MarcarObra, PreguntarObra,
             ObraSigue,
             ObraDesconocida, ObraFallida, ObraLograda, Mirar, CrearEspera, CrearHecho, Despachar,
             MarcarBootstrap, TomarUpid, Preparado, FallaTurno, PerderTurno, PasanTreinta
        <4>. QED  BY <4>1, <4>2 DEF Dueno, Inductivo, ObraNumerada
      <3>2. rec[r].ledger \notin {"no", "liberado"}
        BY <3>1, AbiertoSinCierre DEF Reserva, Cuenta
      <3>3. \/ rec' = rec \/ rec'[r] = [rec[r] EXCEPT !.identidad = TRUE]
            \/ \E s \in R : \/ rec' = [rec EXCEPT ![s] = [rec[s] EXCEPT !.ledger = "materializado"]]
                            \/ rec' = [rec EXCEPT ![s] = [rec[s] EXCEPT !.listo = TRUE]]
        BY <1>2 DEF Trabajador, Avanzar, Reclamar, EnviarObra, MarcarObra, PreguntarObra, ObraSigue,
           ObraDesconocida, ObraFallida, ObraLograda, Resuelto, Construido, Distribuido, Mirar,
           CrearEspera, CrearHecho, Despachar, MarcarBootstrap, TomarUpid, Preparado, FallaTurno,
           PerderTurno, PasanTreinta
      <3>4. rec'[r].ledger \in {rec[r].ledger, "materializado"}
        <4>1. rec'[r] = [rec[r] EXCEPT !.identidad = TRUE] => rec'[r].ledger = rec[r].ledger
          BY <1>0, RecursoConTipo
        <4>2. ASSUME NEW s \in R,
                     \/ rec' = [rec EXCEPT ![s] = [rec[s] EXCEPT !.ledger = "materializado"]]
                     \/ rec' = [rec EXCEPT ![s] = [rec[s] EXCEPT !.listo = TRUE]]
              PROVE  rec'[r].ledger \in {rec[r].ledger, "materializado"}
          <5>1. PICK si \in BOOLEAN : si
            OBVIOUS
          <5>2. \/ rec' = [rec EXCEPT ![s] = [rec[s] EXCEPT !.ledger = "materializado"]]
                \/ rec' = [rec EXCEPT ![s] = [rec[s] EXCEPT !.listo = si]]
            BY <4>2, <5>1
          <5>. QED  BY <1>0, <5>2 DEF Recursos
        <4>. QED  BY <3>3, <4>1, <4>2
      <3>. QED  BY <2>1, <3>2, <3>4, PromesaPorPartes DEF ReservaDe
    <2>. QED  BY <2>2, <2>3
  <1>3. CASE Decidir
    <2>1. Recurso(r)' = Recurso(r)
      BY <1>3, TipoRecursoDespues DEF Decidir, Iniciar, ConfirmarEntradas, Descartar, Reintentar,
         Comprobar, Publicar, PasaPlazo, Vencer
    <2>2. CASE ensayo.estado = "no"
      <3>1. PICK plazo \in {"sin", "corre"} : Iniciar(plazo)
        BY <1>3, <2>2, SoloIniciar DEF Inductivo, Portal
      <3>2. rec[r].ledger = "no" /\ hilo[r] = "no" /\ ct[r] = "ausente"
        BY <2>2 DEF Reserva, Cuenta, Creacion
      <3>3. rec'[r].ledger = "reservado"
        BY <1>0, <3>1 DEF Iniciar, Recursos
      <3>. QED  BY <2>1, <3>2, <3>3, PromesaPorPartes, TipoRecurso DEF ReservaDe
    <2>3. CASE ensayo.estado # "no"
      <3>1. rec' = rec
        BY <1>3, <2>3 DEF Decidir, Iniciar, ConfirmarEntradas, Descartar, Reintentar, Comprobar,
           Publicar, PasaPlazo, Vencer
      <3>. QED  BY <2>1, <3>1, PromesaPorPartes DEF ReservaDe
    <2>. QED  BY <2>2, <2>3
  <1>. QED  BY <1>1, <1>2, <1>3 DEF Portal

LEMMA LimpiezaCumple ==
  ASSUME Inductivo, Reserva, Limpieza, UNCHANGED tarde, NEW r \in R, ~tarde[r]
  PROVE  Cumple(r)
  <1>0. UNCHANGED <<ct, hilo>> /\ op \in [R -> OpsRecurso]
    BY LimpiezaSobreEnsayo DEF Inductivo, TypeOK, TypeOKEnsayo
  <1>1. CASE TomarLimpieza
    <2>1. ReservaDe(r)' = ReservaDe(r)
      BY <1>1 DEF TomarLimpieza, ReservaDe
    <2>2. CASE hilo[r] = "vuelo" /\ Abierta(op[r])
      <3>1. ~Abierta(op'[r]) /\ ct[r] = "ausente"
        <4>1. op'[r] = [op[r] EXCEPT !.estado = IF Abierta(op[r]) THEN "fallida" ELSE @]
          BY <1>1 DEF TomarLimpieza
        <4>2. op'[r].estado = "fallida"
          BY <1>0, <2>2, <4>1 DEF OpsRecurso
        <4>. QED  BY <2>2, <4>2 DEF Abierta, Reserva, Creacion
      <3>2. Recurso(r) = "en_camino" /\ Recurso(r)' = "ya_no"
        BY <1>0, <2>2, <3>1, TipoRecurso, TipoRecursoDespues
      <3>. QED  BY <2>1, <3>2, PromesaPorPartes
    <2>3. CASE ~(hilo[r] = "vuelo" /\ Abierta(op[r]))
      <3>1. hilo[r] = "vuelo" => (Abierta(op'[r]) <=> Abierta(op[r]))
        <4>1. op'[r] = [op[r] EXCEPT !.estado = IF Abierta(op[r]) THEN "fallida" ELSE @]
          BY <1>1 DEF TomarLimpieza
        <4>2. ~Abierta(op[r]) => op'[r].estado = op[r].estado
          BY <1>0, <4>1 DEF OpsRecurso
        <4>. QED  BY <2>3, <4>2 DEF Abierta
      <3>2. Recurso(r)' = Recurso(r)
        BY <1>0, <3>1, TipoRecursoDespues
      <3>. QED  BY <2>1, <3>2, PromesaPorPartes
    <2>. QED  BY <2>2, <2>3
  <1>2. CASE ~TomarLimpieza /\ rec' = rec
    <2>1. op' = op
      BY <1>2, LimpiezaSobreFilas DEF Inductivo
    <2>. QED  BY <1>0, <1>2, <2>1, PromesaPorPartes, TipoRecursoDespues DEF ReservaDe
  <1>3. CASE rec' = Liberado(Objetivo) /\ (SoltarSinIdentidad \/ SoltarAusente)
    <2>0. Reserva' /\ Objetivo \in R /\ op' = op
      <3>1. Pendientes # {}
        BY <1>3 DEF SoltarSinIdentidad, SoltarAusente, PorRetirar, Reserva, Mirada
      <3>. QED  BY <1>3, <3>1, SoltarReserva, ObjetivoPendiente DEF SoltarSinIdentidad, SoltarAusente
    <2>1. rec'[r].ledger = IF r = Objetivo THEN "liberado" ELSE rec[r].ledger
      BY <1>3, LiberadoConTipo DEF Inductivo
    <2>2. Recurso(r)' = Recurso(r)
      BY <1>0, <2>0, TipoRecursoDespues
    <2>3. CASE r = Objetivo
      <3>1. /\ ct[r] = "ausente" /\ hilo[r] # "corre" /\ ~Abierta(op[r])
            /\ ReservaDe(r)' = "libre"
        <4>1. rec'[r].ledger = "liberado"
          BY <2>1, <2>3
        <4>2. Creacion(r)' /\ Quieto'
          BY <2>0, <4>1 DEF Reserva, Cuenta
        <4>. QED  BY <1>0, <2>0, <4>1, <4>2 DEF Creacion, Quieto, ReservaDe
      <3>2. Recurso(r) \in {"nunca", "ya_no"}
        BY <3>1, TipoRecurso
      <3>3. ReservaDe(r) \in {"libre", "retenida"}
        BY DEF ReservaDe
      <3>. QED  BY <2>2, <3>1, <3>2, <3>3, PromesaPorPartes
    <2>4. CASE r # Objetivo
      BY <2>1, <2>2, <2>4, PromesaPorPartes DEF ReservaDe
    <2>. QED  BY <2>3, <2>4
  <1>. QED  BY <1>1, <1>2, <1>3, LimpiezaSobreFilas DEF Inductivo

LEMMA ProxmoxCumple ==
  ASSUME Inductivo, Reserva, Proxmox, NEW r \in R, ~tarde'[r]
  PROVE  Cumple(r)
  <1>0. /\ ReservaDe(r)' = ReservaDe(r) /\ op' = op
        /\ hilo \in [R -> {"no", "vuelo", "corre", "exito", "fallo", "perdido"}]
        /\ ct \in [R -> {"ausente", "detenido", "corriendo"}]
        /\ tarde \in [R -> BOOLEAN]
        /\ Creacion(r)
    BY DEF Proxmox, Inductivo, TypeOK, TypeOKEnsayo, ReservaDe, Reserva
  <1>1. PICK s \in R : \/ SubeCreacion(s) \/ SubeBaja(s) \/ SePierdePeticion(s) \/ SeApaga(s)
                       \/ \E e \in {"exito", "fallo"} : CreacionTermina(s, e) \/ BajaTermina(s, e)
    BY DEF Proxmox
  <1>2. CASE s # r
    <2>1. hilo'[r] = hilo[r] /\ ct'[r] = ct[r]
      BY <1>0, <1>1, <1>2 DEF SubeCreacion, SubeBaja, SePierdePeticion, SeApaga, CreacionTermina,
         BajaTermina
    <2>. QED  BY <1>0, <2>1, PromesaPorPartes, TipoRecursoDespues
  <1>3. CASE s = r
    <2>1. \/ hilo'[r] = hilo[r] /\ ct'[r] = ct[r]
          \/ ct[r] # "ausente" /\ ct'[r] # "ausente"
          \/ hilo[r] = "vuelo" /\ ct[r] = "ausente" /\ ct'[r] # "ausente" /\ Abierta(op[r])
          \/ hilo[r] = "vuelo" /\ ct[r] = "ausente" /\ ct'[r] = "ausente" /\ hilo'[r] = "perdido"
          \/ ct[r] # "ausente" /\ ct'[r] = "ausente" /\ hilo'[r] \in {"fallo", "exito", "perdido"}
      <3>1. CASE SubeCreacion(r)
        <4>1. op[r].reciente \/ Abierta(op[r])
          BY <1>0, <3>1 DEF SubeCreacion
        <4>. QED  BY <1>0, <3>1, <4>1 DEF SubeCreacion, Creacion
      <3>2. CASE SubeBaja(r) \/ SePierdePeticion(r)
        BY <1>0, <3>2 DEF SubeBaja, SePierdePeticion, Creacion
      <3>3. CASE SeApaga(r)
        BY <1>0, <3>3 DEF SeApaga
      <3>4. CASE \E e \in {"exito", "fallo"} : CreacionTermina(r, e)
        BY <1>0, <3>4 DEF CreacionTermina, Creacion
      <3>5. CASE \E e \in {"exito", "fallo"} : BajaTermina(r, e)
        BY <1>0, <3>5 DEF BajaTermina, Creacion
      <3>. QED  BY <1>1, <1>3, <3>1, <3>2, <3>3, <3>4, <3>5
    <2>2. CASE hilo'[r] = hilo[r] /\ ct'[r] = ct[r]
      BY <1>0, <2>2, PromesaPorPartes, TipoRecursoDespues
    <2>3. CASE hilo[r] = "vuelo" /\ ct[r] = "ausente" /\ ct'[r] = "ausente" /\ hilo'[r] = "perdido"
      <3>1. Recurso(r) \in {"en_camino", "ya_no"} /\ Recurso(r)' = "ya_no"
        BY <2>3, TipoRecurso, TipoRecursoDespues
      <3>. QED  BY <1>0, <3>1, PromesaPorPartes
    <2>4. CASE \/ ct[r] # "ausente" /\ ct'[r] # "ausente"
               \/ hilo[r] = "vuelo" /\ ct[r] = "ausente" /\ ct'[r] # "ausente" /\ Abierta(op[r])
               \/ ct[r] # "ausente" /\ ct'[r] = "ausente" /\ hilo'[r] \in {"fallo", "exito", "perdido"}
      <3>1. \/ Recurso(r) = "existe" /\ Recurso(r)' \in {"existe", "ya_no"}
            \/ Recurso(r) = "en_camino" /\ Recurso(r)' = "existe"
        BY <2>4, TipoRecurso, TipoRecursoDespues
      <3>. QED  BY <1>0, <3>1, PromesaPorPartes
    <2>. QED  BY <2>1, <2>2, <2>3, <2>4
  <1>. QED  BY <1>2, <1>3

(* Each resource of a trial keeps the promise of RecursoReservado, up to a *)
(* creation that the cleanup could not know of: capacity first and for as  *)
(* long as anything can use it, and one container at most.                 *)
THEOREM CumplePromesaEnsayo == Spec => PromesaEnsayo
  <1>. DEFINE Todas == \A r \in R : ~tarde'[r] => Promesa(r)!Next \/ UNCHANGED Promesa(r)!vars
  <1>1. Init => \A r \in R : Promesa(r)!Init
    BY PromesaPorPartes DEF Init, InitEnsayo, ReservaDe, Recurso
  <1>2. Inductivo /\ Reserva /\ [Next]_vars => [Todas]_vars
    <2>. SUFFICES ASSUME Inductivo, Reserva, Next
                  PROVE  Todas
      OBVIOUS
    <2>1. ASSUME NEW r \in R, ~tarde'[r]
          PROVE  Cumple(r)
      <3>1. CASE UNCHANGED <<varsEnsayo, cierre, mano, baja, tarde>>
        <4>1. Recurso(r)' = Recurso(r) /\ ReservaDe(r)' = ReservaDe(r)
          BY <3>1, TipoRecursoDespues DEF varsEnsayo, ReservaDe
        <4>. QED  BY <4>1, PromesaPorPartes
      <3>2. CASE Limpieza /\ UNCHANGED tarde
        BY <2>1, <3>2, LimpiezaCumple
      <3>. QED  BY <2>1, <3>1, <3>2, PortalCumple, ProxmoxCumple DEF Next
    <2>. QED  BY <2>1 DEF Cumple
  <1>. QED  BY <1>1, <1>2, InductivoSiempre, ReservaSiempre, PTL DEF Spec, PromesaEnsayo
=============================================================================
